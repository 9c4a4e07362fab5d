---- MODULE MCAgent ----
(***************************************************************************)
(* Instances of Agent for TLC: two proxies with their own addresses and    *)
(* two RDMA ports each; a multipoint group and an ST2110 group.            *)
(***************************************************************************)
EXTENDS Agent, TLC

CONSTANTS p1, p2, g1, g2, v

MCIp    == [p \in Proxies |-> IF p = p1 THEN 1 ELSE 2]
MCPorts == [p \in Proxies |-> {2, 3}]

Request(g, kind, type) == [group |-> g, kind |-> kind, cfg |-> [type |-> type, payload |-> v]]

\* One URN is asked for both as a multipoint group and as an ST2110 sender.
MixedRequests == {Request(g1, kind, "group") : kind \in Kinds} \union {Request(g1, "tx", "st2110")}

GroupRequests == {Request(g, kind, "group") : g \in {g1, g2}, kind \in Kinds}

\* One group of each type.
AllRequests ==
    {Request(g1, kind, "group") : kind \in Kinds} \union {Request(g2, kind, "st2110") : kind \in Kinds}

Symmetry == Permutations(Conns)

====
