--------------------------- MODULE MCRpcHandlers ---------------------------
(* Two controllers; a request, a topic below it and one of another kind.   *)
EXTENDS RpcHandlers

MCBase == <<"rpc">>
MCTopics == {<<"rpc", "1">>, <<"rpc">>, <<"telemetry">>}
=============================================================================
