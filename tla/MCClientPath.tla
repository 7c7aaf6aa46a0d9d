---------------------------- MODULE MCClientPath ----------------------------
EXTENDS ClientPath

(***************************************************************************)
(* Three handles: an embedded node with both peers in its process, a node  *)
(* of a multi-process cluster that forwards, and the node binary's HTTP    *)
(* handle.                                                                 *)
(***************************************************************************)
MCClients == {"embedded", "process", "http"}
MCHome == [c \in MCClients |-> CASE c = "embedded" -> 2
                                 [] c = "process" -> 3
                                 [] OTHER -> 1]
MCPeers == [c \in MCClients |-> IF c = "embedded" THEN {1, 3} ELSE {}]

\* Operations whose forwarded answer carries its own evidence.
MCEvident == [c \in MCClients |->
                CASE c = "embedded" -> {"cas", "multi_get"}
                  [] c = "process" -> {"put_index", "multi_get"}
                  [] OTHER -> {"put", "get"}]

\* Plain writes over the wire.
MCPlain == [c \in MCClients |-> {"put"}]
==============================================================================
