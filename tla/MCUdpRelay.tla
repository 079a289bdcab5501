------------------------------- MODULE MCUdpRelay -------------------------------
(* Two name servers and a peer; packets that fill a buffer, short ones, one *)
(* that fits only without its header and one that is too long for the relay. *)
EXTENDS UdpRelay

CONSTANTS ns1, ns2, peer

MCInputs ==
    {[remote |-> ns1, query |-> TRUE, len |-> 2],
     [remote |-> ns2, query |-> TRUE, len |-> 0],
     [remote |-> peer, query |-> FALSE, len |-> 1],
     [remote |-> peer, query |-> FALSE, len |-> 2],
     [remote |-> peer, query |-> FALSE, len |-> 3]}
================================================================================
