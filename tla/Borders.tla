------------------------------ MODULE Borders --------------------------------
(***************************************************************************)
(* Where the program meets what is not its own, each on its own: requests  *)
(* from the network (Edge), requests to Twitter (OAuth) and the digests in *)
(* them (Digests), a page in a browser (Browser), the pages the program    *)
(* writes of what CouchDB holds (Pages), the files it keeps (Uploads), the *)
(* threads it begins and ends with (Server), and the memory under all its  *)
(* texts (Buffers).                                                        *)
(*                                                                         *)
(* They share no state, and a behaviour is of one of them.                 *)
(***************************************************************************)
EXTENDS Edge, OAuth, Digests, Browser, Pages, Uploads, Server, Buffers

CONSTANTS MaxMessage, KeyLengths    \* bounds: the messages and keys that are hashed

VARIABLES
    subject,        \* what the behaviour is of
    messageLength,  \* the length of the message, and
    keyLength       \* that of the key
digestVars == <<messageLength, keyLength>>
vars == <<subject, edgeVars, signVars, digestVars, browserVars, pagesVars, uploadVars, serverVars, bufferVars>>

Parts == {"edge", "oauth", "digest", "browser", "pages", "files", "server", "memory"}
Init == /\ subject \in Parts
        /\ EdgeInit /\ SignInit /\ PagesInit /\ UploadInit /\ ServerInit
        /\ \E h \in IF subject = "memory" THEN Holders ELSE {"obuf"} : BufferInit(h)
        /\ \E p \in IF subject = "browser" THEN Pages ELSE {CHOOSE q \in Pages : TRUE} : BrowserInit(p)
        /\ messageLength = 0
        /\ keyLength \in IF subject = "digest" THEN KeyLengths ELSE {0}

UseEdge    == /\ subject = "edge" /\ EdgeNext
              /\ UNCHANGED <<subject, signVars, digestVars, browserVars, pagesVars, uploadVars, serverVars, bufferVars>>
UseOAuth   == /\ subject = "oauth" /\ SignNext
              /\ UNCHANGED <<subject, edgeVars, digestVars, browserVars, pagesVars, uploadVars, serverVars, bufferVars>>
UseBrowser == /\ subject = "browser" /\ BrowserNext
              /\ UNCHANGED <<subject, edgeVars, signVars, digestVars, pagesVars, uploadVars, serverVars, bufferVars>>
UsePages   == /\ subject = "pages" /\ PagesNext
              /\ UNCHANGED <<subject, edgeVars, signVars, digestVars, browserVars, uploadVars, serverVars, bufferVars>>
UseFiles   == /\ subject = "files" /\ UploadNext
              /\ UNCHANGED <<subject, edgeVars, signVars, digestVars, browserVars, pagesVars, serverVars, bufferVars>>
UseServer  == /\ subject = "server" /\ ServerNext
              /\ UNCHANGED <<subject, edgeVars, signVars, digestVars, browserVars, pagesVars, uploadVars, bufferVars>>
UseMemory  == /\ subject = "memory" /\ BufferNext
              /\ UNCHANGED <<subject, edgeVars, signVars, digestVars, browserVars, pagesVars, uploadVars, serverVars>>
Lengthen   == /\ subject = "digest" /\ messageLength < MaxMessage
              /\ messageLength' = messageLength + 1
              /\ UNCHANGED <<subject, keyLength, edgeVars, signVars, browserVars, pagesVars, uploadVars, serverVars, bufferVars>>

Next == UseEdge \/ UseOAuth \/ UseBrowser \/ UsePages \/ UseFiles \/ UseServer \/ UseMemory \/ Lengthen
Spec == Init /\ [][Next]_vars

-----------------------------------------------------------------------------

\* Messages of any length are digested whole, each byte once and in its place, padded
\* to even blocks and with the count of bits behind, by SHA-1 and MD5, also where the
\* padding needs a block of its own, and the low word of the count wraps around; so they
\* are by HMAC-SHA1 with keys of any length, if they fit into its buffer of 4096 bytes,
\* which nothing checks (sha1.cpp:280, sha1.h:308); and what is written in base 64 is
\* every bit (sha1.cpp:110, 169, 252; md5.cpp:251, 298; base64.cpp:33).
Byte(k)      == <<"m", ToText(k)>>
DigestsOf(data, secret) ==
    /\ Sha1(NewHash, data).chain = Sha1Of(data)
    /\ Md5(data).chain = Md5Of(data)
    /\ HasRoom(data) => Hmac(data, secret).chain = HmacOf(data, secret)
Numbers(n, seed) == [k \in 1 .. n |-> (37 * k + seed) % 256]
DigestsAreOfTheWhole ==
    subject = "digest" =>
        /\ DigestsOf([k \in 1 .. messageLength |-> Byte(k)], [k \in 1 .. keyLength |-> <<"k", ToText(k)>>])
        /\ messageLength <= 24 => Base64(Numbers(messageLength, keyLength)) = Base64Of(Numbers(messageLength, keyLength))
=============================================================================
