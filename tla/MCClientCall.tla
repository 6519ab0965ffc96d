----------------------------- MODULE MCClientCall -----------------------------
EXTENDS ClientCall, TLC

CONSTANTS c1, c2

\* one call of a stream, beside a call that may replace the card
MCMethods == (c1 :> {"sendMessageStream", "resubscribeTask"}) @@ (c2 :> {"getAgentCard", "getTask"})

Rpc(url, version) == Interface("JSONRPC", url, version)
Rest(url, version) == Interface("HTTP+JSON", url, version)

\* both versions on one URL, behind a binding the client has not got; and the
\* old one on the binding that the client prefers
MCAgentCards == {
    <<Interface("GRPC", "w", V1), Rpc("u", V03), Rpc("u", V1)>>,
    <<Rpc("u", V1), Rest("v", V03), Rpc("v", V1)>>}
MCPreferred == <<"HTTP+JSON">>
===============================================================================
