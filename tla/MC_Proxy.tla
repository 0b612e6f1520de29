------------------------------- MODULE MC_Proxy -------------------------------
(* Small instances of Proxy for TLC.                                       *)
EXTENDS Proxy, TLC

CONSTANTS c1, c2, n1, n2, k1, k2

Req(v, ks) == [verb |-> v, keys |-> ks]

\* k1 hashes to n1 and k2 to n2.
MCNodeOf == (k1 :> n1) @@ (k2 :> n2)

\* One pipelined client: a GET, an MGET over both nodes, a locally answered
\* PING and a GET to the other node.
MCPipeline == [c \in {c1} |->
                 <<Req("GET", <<k1>>), Req("MGET", <<k1, k2>>),
                   Req("PING", <<>>), Req("GET", <<k2>>)>>]

\* Two clients sharing the backends.
MCTwoClients == (c1 :> <<Req("GET", <<k1>>), Req("GET", <<k2>>)>>)
             @@ (c2 :> <<Req("MGET", <<k1, k2>>), Req("NOTSUP", <<>>)>>)

\* A pipeline whose replies complete out of order: k2's backend may answer
\* before k1's.
MCOutOfOrder == [c \in {c1} |-> <<Req("GET", <<k1>>), Req("GET", <<k2>>)>>]

\* A single GET.
MCSingle == [c \in {c1} |-> <<Req("GET", <<k1>>)>>]

\* An MGET whose keys live on different nodes.
MCSplitMget == [c \in {c1} |-> <<Req("MGET", <<k1, k2>>)>>]

\* Two GETs to the same node.
MCSameNode == [c \in {c1} |-> <<Req("GET", <<k1>>), Req("GET", <<k1>>)>>]

MCClients1 == {c1}
MCClients2 == {c1, c2}
=============================================================================
