------------------------------- MODULE OAuth ---------------------------------
(***************************************************************************)
(* The requests to Twitter (src/src/api.cpp) and how they are signed       *)
(* (src/src/oauth): handlers on several workers use one library, which     *)
(* seeds the generator of random numbers with the first request it signs   *)
(* (Nonces).                                                               *)
(*                                                                         *)
(* The library goes over the parameters twice: once to sign them, and once *)
(* to write them down with the signature.  Texts are texts, because what   *)
(* is signed is compared with what is sent.  The signature is its two      *)
(* arguments, the text and the key: Digests has how it is computed.        *)
(***************************************************************************)
EXTENDS Text, Nonces

CONSTANTS
    Tokens,         \* what a request to /login/callback/twitter may name
    Verifiers,      \* as oauth_token and oauth_verifier
    ConsumerKey, ConsumerSecret, Website

VARIABLES
    request,        \* what each worker signs
    outbox          \* the request to Twitter that the last step sent, if it did
signVars == <<nonceVars, request, outbox>>

-----------------------------------------------------------------------------
(* Encoding (urlencode.cpp).  The printable characters in their order; a   *)
(* quote stands for the back-quote too.                                    *)

Printable == " !\"#$%&'(" \o ")" \o "*+,-./0123456789:;<=>?@ABCDEFGHIJKLMNOPQRSTUVWXYZ[\\]^_'abcdefghijklmnopqrstuvwxyz{|}~"
Code       == [c \in Chars(Printable) \cup {""} |-> IF c = "" THEN 0 ELSE Find(Printable, c) + 31]
Hex(code)  == LET digit(n) == Ch("0123456789ABCDEF", n + 1)
              IN "%" \o digit(code \div 16) \o digit(code % 16)
Unreserved == Alphas \cup Nums \cup Chars("~-_.")
Delimiters == Chars("!$&'(" \o ")*+,;=")

\* What each character is written as, where all but the unreserved are encoded, and where
\* most of the delimiters of an address are left alone.
WrittenAs == [kept \in {{}, Delimiters \ {"&", "+"}} |->
               [c \in Chars(Printable) |-> IF c \in Unreserved \cup kept THEN c ELSE Hex(Code[c])]]
RECURSIVE EncodedPart(_, _, _, _)
EncodedPart(t, i, j, written) ==
    IF i > j THEN "" ELSE IF i = j THEN written[Ch(t, i)]
    ELSE EncodedPart(t, i, (i + j) \div 2, written) \o EncodedPart(t, ((i + j) \div 2) + 1, j, written)
Encode(t, written) == EncodedPart(t, 1, Len(t), written)
PercentEncode(t)        == Encode(t, WrittenAs[{}])
HttpEncodeQueryValue(t) == Encode(t, WrittenAs[Delimiters \ {"&", "+"}])

-----------------------------------------------------------------------------
(* Parameters: a sequence of pairs, a name and a value (liboauthcpp.cpp).  *)

\* The parts between "&"; one right at the beginning of a part belongs to it.
RECURSIVE PartsFrom(_, _, _)
PartsFrom(t, first, amp) ==
    IF amp = 0 THEN {From(t, first)}
    ELSE {Cut(t, first, amp - 1)} \cup PartsFrom(t, amp + 1, FindFrom(t, amp + 2, "&"))
PartsOf(t) == IF t = "" THEN {} ELSE PartsFrom(t, 1, FindFrom(t, 2, "&"))

\* ParseKeyValuePair(): what stands before and behind the first "=".  It throws where
\* there is none.
PairOf(p)             == <<Cut(p, 1, Find(p, "=") - 1), From(p, Find(p, "=") + 1)>>
Parses(t)             == \A p \in PartsOf(t) : Find(p, "=") # 0
ParseKeyValuePairs(t) == {PairOf(p) : p \in PartsOf(t)}

\* ReplaceOrInsertKeyValuePair(), for each of some new pairs.
Replaced(pairs, new) == {p \in pairs : ~\E n \in new : n[1] = p[1]} \cup new

\* getStringFromOAuthKeyValuePairs(): in the order of the texts of the pairs.
RECURSIVE LessFrom(_, _, _)
LessFrom(s, t, i) == IF Ch(s, i) = Ch(t, i) THEN i <= Len(t) /\ LessFrom(s, t, i + 1)
                     ELSE Code[Ch(s, i)] < Code[Ch(t, i)]
Less(s, t)    == LessFrom(s, t, 1)
Ranks(texts)  == {<<Cardinality({s \in texts : Less(s, t)}) + 1, t>> : t \in texts}
ByRank(ranks) == [n \in 1 .. Cardinality(ranks) |-> (CHOOSE r \in ranks : r[1] = n)[2]]
Sorted(texts) == ByRank(Ranks(texts))
Joined(texts) == From(Concat[[n \in DOMAIN texts |-> "&" \o texts[n]]], 2)
StringOf(pairs) == Joined(Sorted({p[1] \o "=" \o p[2] : p \in pairs}))

\* buildOAuthTokenKeyValuePairs(): there is no token, and so no verifier of it.
SignaturePair(signature) == IF signature = "" THEN {} ELSE {<<"oauth_signature", signature>>}
DataPair(data) == IF Find(data, "=") = 0 THEN {} ELSE {PairOf(data)}
TokenPairs(pairs, c, data, signature) ==
    Replaced(Replaced(pairs,
        {<<"oauth_consumer_key", HttpEncodeQueryValue(ConsumerKey)>>,
         <<"oauth_nonce", HttpEncodeQueryValue(c.nonce)>>,
         <<"oauth_signature_method", "HMAC-SHA1">>,
         <<"oauth_timestamp", HttpEncodeQueryValue(c.timeStamp)>>,
         <<"oauth_version", "1.0">>} \cup SignaturePair(signature)), DataPair(data))

\* getSignature(): the text that is signed, and the key.
SignatureBase(type, url, pairs) ==
    type \o "&" \o PercentEncode(url) \o "&" \o PercentEncode(StringOf(pairs))
SigningKey == PercentEncode(ConsumerSecret) \o "&"

\* buildOAuthParameterString(), for a query.  The signature itself is written as "*".
PureUrl(url)  == IF Find(url, "?") = 0 THEN url ELSE Cut(url, 1, Find(url, "?") - 1)
DataPart(url) == IF Find(url, "?") = 0 THEN "" ELSE From(url, Find(url, "?") + 1)
\* The data of a POST that is only added to what is sent.
BuiltMutant(c, pairs) ==
    [base  |-> SignatureBase(c.type, PureUrl(c.url), TokenPairs(pairs, c, "", "")),
     query |-> StringOf(TokenPairs(TokenPairs(pairs, c, "", ""), c, c.data, "*"))]
Signed(c, pairs) ==
    [base  |-> SignatureBase(c.type, PureUrl(c.url), pairs),
     query |-> StringOf(TokenPairs(pairs, c, "", "*"))]
Built(c, pairs) == Signed(c, TokenPairs(pairs, c, c.data, ""))

-----------------------------------------------------------------------------
(* Handlers, on their workers.                                             *)

TwitterUrl == "https://api.twitter.com/oauth/"
NoRequest  == [type |-> "", url |-> "", data |-> "", to |-> ""]

SignInit == NonceInit /\ outbox = {} /\ request = [w \in Signers |-> NoRequest]

\* oauth_get_twitter_login_url() and oauth_login_twitter().
Request(type, url, data, to) == [type |-> type, url |-> url, data |-> data, to |-> to]
LoginUrl == Request("GET", TwitterUrl \o "request_token?oauth_callback=" \o Website
                               \o "login/callback/twitter", "", TwitterUrl \o "request_token?")
LoginTwitter(token, verifier) ==
    Request("POST", TwitterUrl \o "access_token?oauth_token=" \o token,
            "oauth_verifier=" \o verifier, TwitterUrl \o "access_token?")

\* A request begins, unless the parameters of its address cannot be told apart: then the
\* handler ends with an exception.
BeginsRequest(w, r) ==
    /\ Begins(w, Parses(DataPart(r.url)))
    /\ request' = IF Parses(DataPart(r.url)) THEN [request EXCEPT ![w] = r] ELSE request
    /\ outbox' = {}
UrlIsWanted(w) == BeginsRequest(w, LoginUrl)
TwitterCallsBack(w) == \E t \in Tokens, v \in Verifiers : BeginsRequest(w, LoginTwitter(t, v))
Prepares(w) == (Checks(w) \/ Seeds(w) \/ Marks(w) \/ Draws(w)) /\ outbox' = {} /\ UNCHANGED request

\* The time, and behind it the random number.
Stamped(r, nonce) ==
    [type |-> r.type, url |-> r.url, data |-> r.data, to |-> r.to, timeStamp |-> ToText(nonce.time),
     nonce |-> ToText(nonce.time) \o ToText(nonce.random[1]) \o ToText(nonce.random[2])]
Sent(c, built) == [url |-> c.to \o built.query, type |-> c.type, data |-> c.data,
                   base |-> built.base, key |-> SigningKey]
Sends(w) ==
    /\ Stamps(w)
    /\ LET c == Stamped(request[w], NonceOf(signing[w]))
       IN outbox' = {Sent(c, Built(c, ParseKeyValuePairs(DataPart(c.url))))}
    /\ request' = [request EXCEPT ![w] = NoRequest]

SignNext ==
    \/ \E w \in Signers : UrlIsWanted(w) \/ TwitterCallsBack(w) \/ Prepares(w) \/ Sends(w)
    \/ SecondPasses /\ outbox' = {} /\ UNCHANGED request

-----------------------------------------------------------------------------

\* What is signed is what is sent: the address up to the "?" and every parameter behind
\* it but the signature, as they are written there, although the parameters are built
\* twice and come from the address, the data and the library (liboauthcpp.cpp:511), and in
\* the order in which the one who checks it sorts them, but where a visitor's verifier has
\* an "&" in it: it is sorted as one parameter and read as two (liboauthcpp.cpp:322).
\* Not the method: a request to sign a user in is signed as a POST and sent as a GET.
Signature       == "oauth_signature=*&"
Unsigned(query) == LET at == Find(query, Signature)
                   IN Cut(query, 1, at - 1) \o From(query, at + Len(Signature))
Received(url)   == PartsOf(DataPart(url)) \ {"oauth_signature=*"}
SignedAsSent ==
    \A m \in outbox :
        LET query == Unsigned(DataPart(m.url))
        IN /\ m.base = m.type \o "&" \o PercentEncode(PureUrl(m.url)) \o "&" \o PercentEncode(query)
           /\ Find(m.data, "&") = 0 => query = Joined(Sorted(Received(m.url)))
           /\ m.key = PercentEncode(ConsumerSecret) \o "&"
=============================================================================
