------------------------------ MODULE Buffers --------------------------------
(***************************************************************************)
(* The memory under texts that grow: what is to be sent to Redis and what  *)
(* was read from it (hiredis/sds.c with hiredis.c and read.c), the output  *)
(* of the Markdown parser and its working buffers (sundown/buffer.c,       *)
(* stack.c), and the stack of the JSON parser (rapidjson/internal).        *)
(*                                                                         *)
(* A block of memory is a sequence of cells, with junk in those that       *)
(* nobody wrote; the bytes that are put are all different.  The functions  *)
(* have their names in the source, and positions count from 0 as there.    *)
(***************************************************************************)
EXTENDS Integers, Sequences

CONSTANTS
    SDS_MAX_PREALLOC,   \* a text grows to twice its length below it, and by it above
    READER_MAX_BUF,     \* an empty buffer with more free space than this is given up
    Discarded,          \* bytes that are read before they are thrown away; 1024 in the program
    BufferUnit, StackSize, StackCapacity,
    ArgLengths,         \* the lengths of the arguments of commands
    PieceLengths,       \* of what is put at once
    MaxUses, MaxDepth   \* bounds: calls, and working buffers

ASSUME BufferAssumption ==
    /\ SDS_MAX_PREALLOC \in Nat /\ READER_MAX_BUF \in Nat /\ Discarded \in Nat
    /\ BufferUnit \in Nat \ {0} /\ StackSize \in Nat \ {0} /\ StackCapacity \in Nat
    /\ ArgLengths \in SUBSET Seq(Nat) /\ PieceLengths \in SUBSET Nat
    /\ MaxUses \in Nat /\ MaxDepth \in Nat

VARIABLES
    holder,     \* what the buffer is: "obuf", "reader", "html", "work" or "json"
    buffer,
    held,       \* history: what was put and not taken; of working buffers, for each of them
    uses        \* how many calls there were
bufferVars == <<holder, buffer, held, uses>>

-----------------------------------------------------------------------------
(* Memory.                                                                 *)

Unset    == -1
Nul     == 0
Overrun == <<-2>>       \* what becomes of memory that is written past its end

Least(m, n)      == IF m < n THEN m ELSE n
Cells(n)         == [k \in 1 .. n |-> Unset]
Realloc(mem, n)  == SubSeq(mem, 1, Least(n, Len(mem))) \o Cells(n - Least(n, Len(mem)))
Wrote(mem, at, data) ==
    IF at + Len(data) > Len(mem) THEN Overrun
    ELSE [k \in DOMAIN mem |-> IF k - at \in DOMAIN data THEN data[k - at] ELSE mem[k]]
Span(mem, from, to) == SubSeq(mem, from + 1, Least(to, Len(mem)))

-----------------------------------------------------------------------------
(* sds: a length, the free space behind it, and one cell more.             *)

sdsnewlen(t) == [len |-> Len(t), free |-> 0, mem |-> Append(t, Nul)]
sdsempty     == sdsnewlen(<<>>)

Prealloc(n)  == IF n < SDS_MAX_PREALLOC THEN 2 * n ELSE n + SDS_MAX_PREALLOC
\* Room that is counted from what is added alone.
sdsMakeRoomForMutant(s, n) ==
    IF s.free >= n THEN s
    ELSE [s EXCEPT !.free = Prealloc(n) - s.len, !.mem = Realloc(@, Prealloc(n) + 1)]
sdsMakeRoomFor(s, n) ==
    IF s.free >= n THEN s
    ELSE [s EXCEPT !.free = Prealloc(s.len + n) - s.len, !.mem = Realloc(@, Prealloc(s.len + n) + 1)]

Lengthened(s, t)  == [len |-> s.len + Len(t), free |-> s.free - Len(t), mem |-> Wrote(s.mem, s.len, t)]
Terminated(s)     == [s EXCEPT !.mem = Wrote(@, s.len, <<Nul>>)]
sdscatlen(s, t)   == Terminated(Lengthened(sdsMakeRoomFor(s, Len(t)), t))

\* A character of the format, or a number: here a character, a number and a line end.
RoomForOne(s)     == IF s.free = 0 THEN sdsMakeRoomFor(s, 1) ELSE s
FormatPiece(s, t) == Lengthened(sdsMakeRoomFor(RoomForOne(s), Len(t)), t)
FormatLine(s, c, digits) ==
    FormatPiece(FormatPiece(FormatPiece(FormatPiece(s, <<c>>), digits), <<13>>), <<10>>)
sdscatfmt(s, c, digits) == Terminated(FormatLine(s, c, digits))

FromEnd(len, i)   == IF i >= 0 THEN i ELSE IF len + i < 0 THEN 0 ELSE len + i
RangeLength(len, start, end) ==
    IF start > end \/ start >= len THEN 0 ELSE Least(end, len - 1) - start + 1
Ranged(s, start, n) ==
    [len |-> n, free |-> s.free + s.len - n,
     mem |-> Wrote(Wrote(s.mem, 0, Span(s.mem, start, start + n)), n, <<Nul>>)]
sdsrange(s, start, end) ==
    IF s.len = 0 THEN s
    ELSE Ranged(s, FromEnd(s.len, start),
                RangeLength(s.len, FromEnd(s.len, start), FromEnd(s.len, end)))

-----------------------------------------------------------------------------
(* Commands to Redis (hiredis.c), and the reader of its replies (read.c).  *)

\* The digits, four at a time as they are counted, and one at a time as they are written.
countDigits(v) ==
    LET count[n \in 0 .. v] ==
            IF n < 10 THEN 1 ELSE IF n < 100 THEN 2 ELSE IF n < 1000 THEN 3
            ELSE IF n < 10000 THEN 4 ELSE 4 + count[n \div 10000]
    IN count[v]
DigitsOf(v) ==
    LET digits[n \in 0 .. v] ==
            IF n < 10 THEN <<48 + n>> ELSE Append(digits[n \div 10], 48 + (n % 10))
    IN digits[v]
Crlf           == <<13, 10>>
bulklen(n)     == 1 + countDigits(n) + 2 + n + 2
Total(args)    ==
    LET sum[k \in 0 .. Len(args)] == IF k = 0 THEN 1 + countDigits(Len(args)) + 2
                                     ELSE sum[k - 1] + bulklen(Len(args[k]))
    IN sum[Len(args)]
Argument(cmd, arg) == sdscatlen(sdscatlen(sdscatfmt(cmd, 36, DigitsOf(Len(arg))), arg), Crlf)
Constructed(cmd, args) ==
    LET after[k \in 0 .. Len(args)] == IF k = 0 THEN sdscatfmt(cmd, 42, DigitsOf(Len(args)))
                                       ELSE Argument(after[k - 1], args[k])
    IN after[Len(args)]
\* What does not have the length that was computed before ends the program (assert).
Asserted(cmd, n) == IF cmd.len = n THEN cmd ELSE [cmd EXCEPT !.mem = Overrun]
redisFormatSdsCommandArgv(args) ==
    Asserted(Constructed(sdsMakeRoomFor(sdsempty, Total(args)), args), Total(args))
redisAppendCommandArgv(obuf, cmd) == sdscatlen(obuf, Span(cmd.mem, 0, cmd.len))

redisBufferWrite(obuf, n) == IF n = obuf.len THEN sdsempty ELSE sdsrange(obuf, n, -1)

NewReader == [buf |-> sdsempty, pos |-> 0, len |-> 0]
FedTo(r)  == IF r.len = 0 /\ r.buf.free > READER_MAX_BUF THEN NewReader ELSE r
Fed(r, t) == LET buf == sdscatlen(r.buf, t) IN [r EXCEPT !.buf = buf, !.len = buf.len]
redisReaderFeed(r, t)  == Fed(FedTo(r), t)
Rest(r)                == LET buf == sdsrange(r.buf, r.pos, -1)
                          IN [buf |-> buf, pos |-> 0, len |-> buf.len]
redisReaderGetReply(r) == IF r.pos >= Discarded THEN Rest(r) ELSE r

-----------------------------------------------------------------------------
(* The buffers of the Markdown parser.                                     *)

hoedown_buffer_new(unit) == [size |-> 0, asize |-> 0, unit |-> unit, mem |-> <<>>]
\* At least one unit more, and as many as are needed.
Units(b, n) ==
    LET units[k \in 0 .. n + 1] == IF k = 0 THEN b.asize ELSE units[k - 1] + b.unit
    IN units[CHOOSE k \in 1 .. n + 1 : units[k] >= n /\ (k = 1 \/ units[k - 1] < n)]
hoedown_buffer_grow(b, n) ==
    IF b.asize >= n THEN b ELSE [b EXCEPT !.asize = Units(b, n), !.mem = Realloc(@, Units(b, n))]
PutInto(b, t) == [b EXCEPT !.mem = Wrote(@, b.size, t), !.size = @ + Len(t)]
hoedown_buffer_put(b, t)  == PutInto(hoedown_buffer_grow(b, b.size + Len(t)), t)
hoedown_buffer_putc(b, c) ==
    PutInto(IF b.size >= b.asize THEN hoedown_buffer_grow(b, b.size + 1) ELSE b, <<c>>)

\* vsnprintf() cuts what has no room and ends it with a NUL all the same.
CutShort(b, t)     == Append(SubSeq(t, 1, Least(Len(t), b.asize - b.size - 1)), Nul)
Formatted(b, t) == [b EXCEPT !.mem = Wrote(@, b.size, CutShort(b, t))]
Grown(b, t)     == IF Len(t) >= b.asize - b.size
                   THEN Formatted(hoedown_buffer_grow(Formatted(b, t), b.size + Len(t) + 1), t)
                   ELSE Formatted(b, t)
Printed(b, t)   == [Grown(b, t) EXCEPT !.size = @ + Len(t)]
hoedown_buffer_printf(b, t) ==
    Printed(IF b.size >= b.asize THEN hoedown_buffer_grow(b, b.size + 1) ELSE b, t)
HasNul(b)       == b.size < b.asize /\ b.mem[b.size + 1] = Nul
WithNul(b)      == [b EXCEPT !.mem = Wrote(@, b.size, <<Nul>>)]
hoedown_buffer_cstr(b) == IF HasNul(b) THEN b ELSE WithNul(hoedown_buffer_grow(b, b.size + 1))

\* A stack of pointers, and newbuf() and popbuf(), which leave the buffers in it.
NULL == hoedown_buffer_new(0)
NewStack == [size |-> 0, asize |-> StackSize, item |-> [k \in 1 .. StackSize |-> NULL]]
hoedown_stack_grow(st, n) ==
    IF st.asize >= n THEN st
    ELSE [st EXCEPT !.item = @ \o [k \in 1 .. n - st.asize |-> NULL], !.asize = n]
StackPushed(st, b) == [st EXCEPT !.item = [@ EXCEPT ![st.size + 1] = b], !.size = @ + 1]
hoedown_stack_push(st, b) ==
    StackPushed(IF st.size >= st.asize THEN hoedown_stack_grow(st, st.size * 2) ELSE st, b)
newbuf(st) ==
    IF st.size < st.asize /\ st.item[st.size + 1] # NULL
    THEN StackPushed(st, [st.item[st.size + 1] EXCEPT !.size = 0])
    ELSE hoedown_stack_push(st, hoedown_buffer_new(BufferUnit))
popbuf(st) == [st EXCEPT !.size = @ - 1]
TopPut(st, t) == [st EXCEPT !.item[st.size] = hoedown_buffer_put(@, t)]

-----------------------------------------------------------------------------
(* The stack of the JSON parser, with ends instead of lengths.             *)

JsonStack == [top |-> 0, end |-> 0, mem |-> <<>>]
Capacity(s, n) == LET wanted == IF s.end = 0 THEN StackCapacity ELSE s.end + (s.end + 1) \div 2
                  IN IF wanted < s.top + n THEN s.top + n ELSE wanted
Expand(s, n)   == [s EXCEPT !.mem = Realloc(@, Capacity(s, n)), !.end = Capacity(s, n)]
JsonPushed(s, t)  == [s EXCEPT !.mem = Wrote(@, s.top, t), !.top = @ + Len(t)]
Push(s, t)     == JsonPushed(IF s.top + Len(t) >= s.end THEN Expand(s, Len(t)) ELSE s, t)
Pop(s, n)      == [s EXCEPT !.top = @ - n]

-----------------------------------------------------------------------------
(* Who uses them.                                                          *)

Piece(n) == [k \in 1 .. n |-> 100 * (uses + 1) + k]

NewBuffer == [obuf |-> sdsempty, reader |-> NewReader, json |-> JsonStack, work |-> NewStack,
              html |-> hoedown_buffer_new(BufferUnit)]
Holders == {"obuf", "reader", "json", "work", "html"}
BufferInit(h) == holder = h /\ buffer = NewBuffer[h] /\ held = <<>> /\ uses = 0

Uses(h, after, holds) ==
    /\ holder = h /\ uses < MaxUses
    /\ buffer' = after /\ held' = holds /\ uses' = uses + 1
    /\ UNCHANGED holder
Puts(h, n, after) == n \in PieceLengths /\ Uses(h, after, held \o Piece(n))

\* The protocol, which is what ought to be sent.
Args(lengths) == [k \in DOMAIN lengths |-> [i \in 1 .. lengths[k] |-> 100 * (uses + 1) + 20 * k + i]]
Bulk(arg)     == <<36>> \o DigitsOf(Len(arg)) \o Crlf \o arg \o Crlf
Resp(args) ==
    LET after[k \in 0 .. Len(args)] == IF k = 0 THEN <<42>> \o DigitsOf(Len(args)) \o Crlf
                                       ELSE after[k - 1] \o Bulk(args[k])
    IN after[Len(args)]
Appends(lengths) ==
    Uses("obuf", redisAppendCommandArgv(buffer, redisFormatSdsCommandArgv(Args(lengths))),
         held \o Resp(Args(lengths)))
WritesOut(n)      == Uses("obuf", redisBufferWrite(buffer, n), Span(held, n, Len(held)))
Feeds(n)      == Puts("reader", n, redisReaderFeed(buffer, Piece(n)))
TakesReply(n)     == Uses("reader", redisReaderGetReply([buffer EXCEPT !.pos = @ + n]),
                      Span(held, n, Len(held)))
Renders(n)    == Puts("html", n, hoedown_buffer_put(buffer, Piece(n)))
RendersChar   == Puts("html", 1, hoedown_buffer_putc(buffer, Piece(1)[1]))
Prints(n)     == Puts("html", n, hoedown_buffer_printf(buffer, Piece(n)))
\* The caller takes the text up to the first NUL.
Nuls(b)       == {k \in DOMAIN b.mem : b.mem[k] = Nul}
TextUpToNul(b) == IF Nuls(b) = {} THEN Overrun
                  ELSE Span(b.mem, 0, (CHOOSE k \in Nuls(b) : \A j \in Nuls(b) : k <= j) - 1)
AsksForText   == Uses("html", hoedown_buffer_cstr(buffer), TextUpToNul(hoedown_buffer_cstr(buffer)))
JsonPushes(n) == Puts("json", n, Push(buffer, Piece(n)))
JsonPops(n)   == Uses("json", Pop(buffer, n), Span(held, 0, Len(held) - n))

Top == Len(held)
Opens         == Top < MaxDepth /\ Uses("work", newbuf(buffer), Append(held, <<>>))
Works(n)      == Top > 0 /\ n \in PieceLengths
                 /\ Uses("work", TopPut(buffer, Piece(n)), [held EXCEPT ![Top] = @ \o Piece(n)])
\* The text of a working buffer goes into the one below.
TopText(st)     == LET b == st.item[st.size] IN Span(b.mem, 0, b.size)
Merges        ==
    Top > 1 /\ Uses("work",
        popbuf([buffer EXCEPT !.item[Top - 1] = hoedown_buffer_put(@, TopText(buffer))]),
        [k \in 1 .. Top - 1 |-> IF k = Top - 1 THEN held[k] \o held[Top] ELSE held[k]])
Closes        == Top > 0 /\ Uses("work", popbuf(buffer), SubSeq(held, 1, Top - 1))

BufferNext ==
    \/ \E lengths \in ArgLengths : Appends(lengths)
    \/ \E n \in PieceLengths \cup {Len(held)} :
          n \in 1 .. Len(held) /\ (WritesOut(n) \/ TakesReply(n) \/ JsonPops(n))
    \/ \E n \in PieceLengths : Feeds(n) \/ Renders(n) \/ Prints(n) \/ JsonPushes(n) \/ Works(n)
    \/ RendersChar \/ AsksForText \/ Opens \/ Merges \/ Closes
BufferSpec == (\E h \in Holders : BufferInit(h)) /\ [][BufferNext]_bufferVars

-----------------------------------------------------------------------------

SdsKeeps(s, t)  == Span(s.mem, 0, s.len) = t /\ Len(s.mem) = s.len + s.free + 1 /\ s.mem[s.len + 1] = Nul
HtmlKeeps(b, t) == Span(b.mem, 0, b.size) = t /\ Len(b.mem) = b.asize /\ b.size <= b.asize

\* Whatever is put into a buffer and taken out of it, however it grows and is used again,
\* it holds what was put and not taken, byte for byte and in order, nothing outside of its
\* memory is written, and an sds text ends with a NUL (sds.c:129, 237, 425, 575;
\* hiredis.c:477, 830; read.c:445, 510; buffer.c:93, 227; stack.c:34; document.c:136;
\* stack.h:122).
BuffersKeep ==
    CASE holder = "obuf"   -> SdsKeeps(buffer, held)
      [] holder = "reader" -> /\ SdsKeeps(buffer.buf, Span(buffer.buf.mem, 0, buffer.len))
                              /\ Span(buffer.buf.mem, buffer.pos, buffer.len) = held
      [] holder = "html"   -> HtmlKeeps(buffer, held)
      [] holder = "json"   -> Span(buffer.mem, 0, buffer.top) = held /\ Len(buffer.mem) = buffer.end
      [] holder = "work"   -> Top = buffer.size
                              /\ \A k \in 1 .. Top : HtmlKeeps(buffer.item[k], held[k])
=============================================================================
