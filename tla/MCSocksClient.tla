----------------------------- MODULE MCSocksClient -----------------------------
(* Small messages: two bytes each, so that every one can be cut. *)
EXTENDS SocksClient

MCLen == [m \in {"hello", "password", "request", "method", "verdict", "header", "addr6"} |-> 2]
            @@ ("addr4" :> 1)
================================================================================
