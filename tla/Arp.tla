-------------------------------- MODULE Arp --------------------------------
(***************************************************************************)
(* The ARP cache (arp.c) and the next hop's MAC the send paths ask for     *)
(* (tcp_resolve_mac).  A slot holds an address, its MAC, when the pair was *)
(* learned and when it was last used; a lookup moves the entry to the      *)
(* front.  `told` is a history variable: the MAC each address last         *)
(* announced.  Frames are left out but for what they carry into the cache. *)
(***************************************************************************)
EXTENDS Timer, Routing

CONSTANTS
    ArpSlots,       \* XAIOS_ARP_CACHE_SIZE
    ArpTimeout,     \* XAIOS_ARP_TIMEOUT_SEC
    ArpHosts,       \* addresses that answer
    LocalIp,        \* XAIOS_IPV4_GUEST_IP
    LocalMac,
    Macs,
    NoMac

ASSUME ArpAssumption == ArpSlots \in Nat \ {0} /\ LocalIp \in ArpHosts \ {{}}

VARIABLES
    arp,        \* g_arp_cache
    told        \* address -> the MAC last announced for it

arpVars == <<arp, told>>

NoArp == [active |-> FALSE, ip |-> {}, mac |-> NoMac, age |-> 0, last |-> 0]

arp_init ==
    /\ arp = [i \in 1..ArpSlots |-> NoArp]
    /\ told = [a \in ArpHosts |-> NoMac]

Least(S) == CHOOSE i \in S : \A j \in S : i <= j

ArpSlotsOf(cache, ip) == {i \in 1..ArpSlots : cache[i].active /\ cache[i].ip = ip}

\* Mutant: the entry is copied to the front and the others stay.
MovedToFront_NoShift(cache, k) ==
    [cache EXCEPT ![1] = [cache[k] EXCEPT !.last = now]]

\* The entries before it move up one slot.
MovedToFront(cache, k) ==
    [i \in 1..ArpSlots |->
        CASE i = 1 -> [cache[k] EXCEPT !.last = now]
          [] i \in 2..k -> cache[i - 1]
          [] OTHER -> cache[i]]

\* The MAC found and the cache after it.
arp_cache_lookup(cache, ip) ==
    LET hits == ArpSlotsOf(cache, ip)
    IN  IF hits = {} THEN [mac |-> NoMac, cache |-> cache]
        ELSE [mac |-> cache[Least(hits)].mac, cache |-> MovedToFront(cache, Least(hits))]

\* The address's own slot, else the first free one, else the first of those
\* used longest ago.
ArpSlotFor(cache, ip) ==
    LET free == {i \in 1..ArpSlots : ~cache[i].active}
        old == {i \in 1..ArpSlots : \A j \in 1..ArpSlots : cache[i].last <= cache[j].last}
    IN  IF ArpSlotsOf(cache, ip) # {} THEN Least(ArpSlotsOf(cache, ip))
        ELSE IF free # {} THEN Least(free)
        ELSE Least(old)

ArpEntry(ip, mac) ==
    [active |-> TRUE, ip |-> ip, mac |-> mac, age |-> now, last |-> now]

arp_cache_insert(cache, ip, mac) ==
    [cache EXCEPT ![ArpSlotFor(cache, ip)] = ArpEntry(ip, mac)]

Learn(ip, mac) ==
    /\ arp' = arp_cache_insert(arp, ip, mac)
    /\ told' = [told EXCEPT ![ip] = mac]

\* The sender of a reply is learned, whether it was asked for or not.
arp_process_reply == \E ip \in ArpHosts, mac \in Macs : Learn(ip, mac)

\* Our own address is announced and learned.
arp_send_gratuitous == Learn(LocalIp, LocalMac)

\* Entries older than the timeout go; nothing is freed when none is.
arp_cache_age ==
    /\ \E i \in 1..ArpSlots : arp[i].active /\ now - arp[i].age > ArpTimeout
    /\ arp' = [i \in 1..ArpSlots |->
                  IF arp[i].active /\ now - arp[i].age > ArpTimeout THEN NoArp ELSE arp[i]]
    /\ UNCHANGED told

\* The MAC of the next hop towards dest and the cache after asking; without
\* one the code sends a request and the caller tries again later.
tcp_resolve_mac(cache, dest) ==
    LET hop == routing_lookup(routes, dest)
    IN  IF hop = {} THEN [mac |-> NoMac, cache |-> cache]
        ELSE arp_cache_lookup(cache, hop)

ResolveMac ==
    \E dest \in Addresses :
        /\ arp' = tcp_resolve_mac(arp, dest).cache
        /\ UNCHANGED told

ArpStep == arp_send_gratuitous \/ arp_cache_age \/ ResolveMac

(***************************************************************************)
(* tcp_resolve_mac answers with the MAC that a longest matching route's    *)
(* next hop announced last, or with none, whatever routes were added and   *)
(* removed and however the cache was reordered, aged and evicted since     *)
(* (routing_lookup, arp_cache_lookup, arp_cache_insert).  A UDP datagram   *)
(* asks each time it is sent.  A TCP flow asks once and keeps the answer   *)
(* for its life (network_stack.c:1505-1523, `mac` in NetworkStack): its    *)
(* later segments follow neither a new route nor a new announcement.       *)
(***************************************************************************)
ResolvesToNextHop ==
    \A dest \in Addresses :
        LET hop == routing_lookup(routes, dest)
            mac == tcp_resolve_mac(arp, dest).mac
        IN  /\ hop \in NextHops(routes, dest)
            /\ mac # NoMac => mac = told[hop]

=============================================================================
