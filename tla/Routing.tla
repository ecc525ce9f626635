------------------------------ MODULE Routing ------------------------------
(***************************************************************************)
(* The IPv4 routing table (routing.c).  An address and a netmask are the   *)
(* set of their one bits: `&` is intersection, the prefix length the code  *)
(* counts bit by bit is the cardinality, and {} is the address 0, which    *)
(* the code reads as "no gateway" and "no route".                          *)
(***************************************************************************)
EXTENDS Integers, FiniteSets

CONSTANTS
    AddrBits,       \* bit positions of an address
    RouteSlots,     \* ROUTING_TABLE_SIZE
    Routes,         \* routes callers add: records net, mask, gateway
    LocalRoute,     \* 10.0.2.0/24
    DefaultRoute    \* 0.0.0.0/0 by XAIOS_IPV4_GATEWAY

VARIABLE routes     \* g_routing_table

Addresses == SUBSET AddrBits

ASSUME RoutesAssumption ==
    /\ IsFiniteSet(AddrBits) /\ RouteSlots \in Nat
    /\ Routes \cup {LocalRoute, DefaultRoute}
          \subseteq [net : Addresses, mask : Addresses, gateway : Addresses]

NoRoute == [active |-> FALSE, net |-> {}, mask |-> {}, gateway |-> {}]

\* The first slot that is not in use takes the route.
Added(t, r) ==
    LET free == {i \in 1..RouteSlots : ~t[i].active}
    IN  IF free = {} THEN t
        ELSE [t EXCEPT ![CHOOSE i \in free : \A j \in free : i <= j] =
                 [active |-> TRUE, net |-> r.net \cap r.mask, mask |-> r.mask,
                  gateway |-> r.gateway]]

routing_init ==
    routes = Added(Added([i \in 1..RouteSlots |-> NoRoute], LocalRoute), DefaultRoute)

routing_add == \E r \in Routes : routes' = Added(routes, r)

Matches(t, i, dest) == t[i].active /\ dest \cap t[i].mask = t[i].net

\* The first slot that matches goes, the default route too when it is first.
\* What a slot that is not in use still holds is never read.
routing_remove ==
    \E dest \in Addresses :
        LET hits == {i \in 1..RouteSlots : Matches(routes, i, dest)}
        IN  /\ hits # {}
            /\ routes' = [routes EXCEPT
                    ![CHOOSE i \in hits : \A j \in hits : i <= j] = NoRoute]

routing_clear == routes' = [i \in 1..RouteSlots |-> NoRoute]

NoMatch == [found |-> FALSE, slot |-> 0, len |-> 0]

\* One turn of the loop of routing_lookup.
ScanSlot(best, i, t, dest) ==
    IF Matches(t, i, dest) /\ (Cardinality(t[i].mask) > best.len \/ ~best.found)
    THEN [found |-> TRUE, slot |-> i, len |-> Cardinality(t[i].mask)]
    ELSE best

\* The best match after so many turns.
Scan(t, dest) ==
    LET best[k \in 0..RouteSlots] ==
            IF k = 0 THEN NoMatch ELSE ScanSlot(best[k - 1], k, t, dest)
    IN  best

routing_lookup(t, dest) ==
    LET best == Scan(t, dest)[RouteSlots]
    IN  IF ~best.found THEN {}
        ELSE IF t[best.slot].gateway = {} THEN dest
        ELSE t[best.slot].gateway

\* What a lookup promises: the gateway of a matching route no other matching
\* route is longer than, or the destination itself when it is on the link.
NextHops(t, dest) ==
    LET hits == {i \in 1..RouteSlots : Matches(t, i, dest)}
        best == {i \in hits : \A j \in hits : Cardinality(t[j].mask) <= Cardinality(t[i].mask)}
    IN  IF hits = {} THEN {{}}
        ELSE {IF t[i].gateway = {} THEN dest ELSE t[i].gateway : i \in best}

RouteStep == routing_add \/ routing_remove \/ routing_clear

=============================================================================
