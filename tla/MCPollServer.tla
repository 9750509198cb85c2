----------------------------- MODULE MCPollServer -----------------------------
EXTENDS PollServer, TLC

Symmetry == Permutations(Conns)

(* Requests a client of an application without a ws_connect_hook sends.    *)
NoHookKinds == {"handled", "unknown_method", "upgrade"}

(* Requests that keep the server up, with a ws_connect_hook set.           *)
HookKinds == {"no_route", "no_method", "handled", "upgrade"}

(* Requests that are dispatched to a handler and nothing else.             *)
HandledKind == {"handled"}
=============================================================================
