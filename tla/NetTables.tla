----------------------------- MODULE NetTables -----------------------------
(***************************************************************************)
(* The tables around the network stack, one part of them active at a time: *)
(* routes and the ARP cache ("routes"), UDP flows over a fixed route table *)
(* ("udp"), the IPv6 neighbour cache ("ndp"), rate limits ("rate").  The   *)
(* parts share the clock; UDP sends ask the routes and the ARP cache.      *)
(***************************************************************************)
EXTENDS UdpFlows, Ndp, RateLimit

CONSTANT Parts

VARIABLE part

tableVars == <<now, routes, arpVars, udpVars, ndpVars, rateVars, part>>

\* Each neighbour on the link has its slot in the ARP cache.
neighbours_known ==
    LET link == {a \in ArpHosts : routing_lookup(routes, a) = a}
    IN  \E mac \in Macs :
            /\ arp \in [1..ArpSlots -> {NoArp} \cup {ArpEntry(a, mac) : a \in link}]
            /\ \A a \in link : Cardinality(ArpSlotsOf(arp, a)) = 1
            /\ told = [a \in ArpHosts |-> IF a \in link THEN mac ELSE NoMac]

\* Datagrams start where the neighbours on the link have answered.
TablesInit ==
    /\ part \in Parts
    /\ timer_init /\ routing_init /\ ndp_init /\ rate_limit_init
    /\ sockbuf_pool_init /\ network_stack_self_test
    /\ IF part = "udp" THEN neighbours_known ELSE arp_init

\* A frame taken from the device goes to the handler of its kind.  An ARP
\* request, an echo request and a neighbour solicitation are answered and
\* change no table; TCP segments are NetworkStack's.
network_poll_tick ==
    \/ part = "routes" /\ arp_process_reply /\ UNCHANGED <<udpVars, ndpVars>>
    \/ part = "udp" /\ network_stack_process_udp_frame /\ UNCHANGED ndpVars
    \/ part = "udp" /\ network_stack_process_udp_frame_v6 /\ UNCHANGED ndpVars
    \/ part = "ndp" /\ ndp_process_neighbor_advertisement /\ UNCHANGED <<arpVars, udpVars>>

TablesNext ==
    /\ UNCHANGED part
    /\ \/ network_poll_tick /\ UNCHANGED <<now, routes, rateVars>>
       \/ part = "routes" /\ RouteStep /\ UNCHANGED <<now, arpVars, udpVars, ndpVars, rateVars>>
       \/ part = "routes" /\ ArpStep /\ UNCHANGED <<now, routes, udpVars, ndpVars, rateVars>>
       \/ part = "udp" /\ UdpStep /\ UNCHANGED <<now, routes, ndpVars, rateVars>>
       \/ part = "ndp" /\ NdpStep /\ UNCHANGED <<now, routes, arpVars, udpVars, rateVars>>
       \/ part = "rate" /\ RateStep /\ UNCHANGED <<now, routes, arpVars, udpVars, ndpVars>>
       \/ TimePasses /\ UNCHANGED <<routes, arpVars, udpVars, ndpVars, rateVars>>

TablesSpec == TablesInit /\ [][TablesNext]_tableVars

=============================================================================
