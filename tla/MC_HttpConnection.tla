-------------------------- MODULE MC_HttpConnection --------------------------
(***************************************************************************)
(* The requests a client may make in the model-checking runs.              *)
(***************************************************************************)
EXTENDS HttpConnection

Req(kind, persist, expect) == [kind |-> kind, persist |-> persist, expect |-> expect]

\* Every kind of handler on a kept connection, each way of closing it, and a
\* request that waits for 100 Continue.
MixedRequests ==
    {Req(k, "keep", FALSE) : k \in Kinds}
        \cup {Req("once", "close", FALSE), Req("once", "lazy", FALSE),
              Req("once", "keep", TRUE)}

\* A kept and a closed connection.
PlainRequests == {Req("once", "keep", FALSE), Req("once", "close", FALSE)}
=============================================================================
