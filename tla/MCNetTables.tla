---------------------------- MODULE MCNetTables ----------------------------
(***************************************************************************)
(* Two-bit addresses: bit 2 set is the local network, {2} its gateway.     *)
(* Slots are fewer than hosts, so that caches evict.                       *)
(***************************************************************************)
EXTENDS NetTables, TLC

Bits == {1, 2}
Local == [net |-> {2}, mask |-> {2}, gateway |-> {}]
Default == [net |-> {}, mask |-> {}, gateway |-> {2}]
Added4 == {Local, Default,
           [net |-> {1, 2}, mask |-> {1, 2}, gateway |-> {2}],
           [net |-> {1, 2}, mask |-> {1}, gateway |-> {1, 2}]}
Self == {1, 2}
Hosts == {{1}, {2}, {1, 2}}
UdpPeers == {{11}}
AllParts == {"routes", "udp", "ndp", "rate"}
SmallLimits == {[cap |-> 2, rate |-> 9, memory |-> 2], [cap |-> 1, rate |-> 2, memory |-> 1]}

NameSymmetry == Permutations(Macs) \cup Permutations(NdpHosts)

=============================================================================
