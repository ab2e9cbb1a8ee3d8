---------------------------- MODULE GatewayMapping ----------------------------
(***************************************************************************)
(* Port openings on the first-hop gateway (internal/engine/gateway.go and  *)
(* firewall.go) as operators on the set of entries the gateway holds.      *)
(*                                                                         *)
(* A UPnP or NAT-PMP gateway indexes an entry by its external port alone;  *)
(* the fw4 rule carries the service in its comment.  The internal host is  *)
(* the entry's content: adding an entry again overwrites it.               *)
(***************************************************************************)
EXTENDS ServiceStore

\* What NATMap announces: the private port and the address it is bound to.
gatewayMappingState(row, svc, mapping) ==
    [mode |-> row.gw, svc |-> svc, port |-> mapping.port, host |-> mapping.host]

\* The key under which the gateway stores a mapping.
GatewayEntry(g) ==
    [mode |-> g.mode, port |-> g.port,
     svc |-> IF g.mode = "fw4" THEN g.svc ELSE None]

\* Faulty variant of sameGatewayMapping: the ports are not compared.
sameGatewayTarget(left, right) ==
    left.mode = right.mode /\ left.host = right.host

sameGatewayMapping(left, right) ==
    /\ left.mode = right.mode
    /\ left.host = right.host
    /\ left.port = right.port

separateGatewayEntry(left, right) ==
    left.mode # right.mode \/ left.port # right.port

\* Rules of the service for other ports are dropped; a rule for this port is
\* kept.
pruneFirewallRules(router, g) ==
    {e \in router : e.mode = "fw4" /\ e.svc = g.svc => e = GatewayEntry(g)}

removeGatewayMapping(router, g) == router \ {GatewayEntry(g)}
===============================================================================
