----------------------------- MODULE MC_Services -----------------------------
(***************************************************************************)
(* Two workers and one session id, two callers with three handles, and the  *)
(* pieces that documents and posts are written with.                       *)
(***************************************************************************)
EXTENDS Services

\* "X"; "a" and the end of a line; and "READONLY".
CIds      == {<<88>>}
CContents == {<<97, 13, 10>>}
CFaults   == {READONLY}

CDocumentBegins == {"", "{\"a\":0,", "[\"x", "{\"k\":{\"b\":", "[1", "[\"x\\ud83d"}
CDocumentPieces == {"{", "}", "[", "]", ",", "\"a\":", "\"", "\\n", "0", "-", "null", " ", "\t",
                    ".", "e", "e-7", "3e9", "999", "7\\u0041", "\\u0001", "\\ud83d", "\\uDE00"}

CPostBegins == {"", "_a_", "[r]: http://z\n", "- a\n\n", "a|b\n", "**[a*", "~~[h](h) ", "> 1. a\n"}
CPostPieces == {"*", "_", "$", "[x](http://a)", "![", "](", ")", "http://a.b", "www.a.b", "a@b.c", "\\", "&",
                "<b>", "\n", " ", "a", "> ", "- ", "1. ", "#", "|", "---|---\n", "===\n", "[r]"}

Symmetric == Permutations(Worker) \cup Permutations(Caller) \cup Permutations(Handle)
=============================================================================
