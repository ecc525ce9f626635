-------------------------------- MODULE Ndp --------------------------------
(***************************************************************************)
(* IPv6 neighbour discovery (ndp.c): the neighbour cache with its          *)
(* reachability states, duplicate address detection and the default        *)
(* gateway of router advertisements.  A message is what its handler reads: *)
(* the address it is about and the MAC of its option; one that fails a     *)
(* check (length, hop limit 255, type) changes nothing and is left out.    *)
(* The cache stamps its entries with the time of the last tick.            *)
(*                                                                         *)
(* ndp_dad_init fills the caller's record and copies it to g_dad_state;    *)
(* an advertisement marks the copy, ndp_dad_tick reads the caller's.       *)
(* `ndpTold` is history: the MAC last announced for an address.            *)
(***************************************************************************)
EXTENDS Timer, FiniteSets

CONSTANTS
    NdpSlots,           \* XAIOS_NDP_CACHE_SIZE
    NdpHosts,           \* neighbours' addresses
    NdpMacs,            \* MACs of options
    ZeroMac,            \* the MAC stored when an advertisement has no option
    Tentative,          \* the address probed by duplicate detection
    ReachableTime, FirstProbeDelay, RetransTimer, MaxProbes

ASSUME NdpAssumption == NdpSlots \in Nat \ {0} /\ ReachableTime \in Nat \ {0}

VARIABLES
    ndp,        \* g_ndp_cache
    ndpTick,    \* g_ndp_last_tick_ns
    dad,        \* the caller's xaios_dad_state_t, and its answer
    dadCopy,    \* g_dad_active and g_dad_state
    gateway6,   \* ndp_default_gateway
    ndpTold

ndpVars == <<ndp, ndpTick, dad, dadCopy, gateway6, ndpTold>>

NoNeighbour == [active |-> FALSE, ip |-> Tentative, mac |-> ZeroMac,
                nud |-> "INCOMPLETE", stamp |-> 0, last |-> 0, insert |-> 0, probes |-> 0]

NoDad == [active |-> FALSE, start |-> 0, duplicate |-> FALSE, answer |-> 0]

ndp_init ==
    /\ ndp = [i \in 1..NdpSlots |-> NoNeighbour]
    /\ ndpTick = 0
    /\ dad = NoDad
    /\ dadCopy = [active |-> FALSE, duplicate |-> FALSE]
    /\ gateway6 = Tentative
    /\ ndpTold = [a \in NdpHosts \cup {Tentative} |-> ZeroMac]

First(S) == CHOOSE i \in S : \A j \in S : i <= j

Neighbour(cache, ip) == {i \in 1..NdpSlots : cache[i].active /\ cache[i].ip = ip}

\* The times expire_entry leaves in the slot are never read.
expire_entry == NoNeighbour

\* Traffic restarts REACHABLE's clock and takes STALE to DELAY.
Used(e) ==
    [e EXCEPT !.last = ndpTick,
              !.nud = IF @ = "STALE" THEN "DELAY" ELSE @,
              !.stamp = IF e.nud \in {"STALE", "REACHABLE"} THEN ndpTick ELSE @]

Reachable(e, ip, mac) ==
    [e EXCEPT !.active = TRUE, !.ip = ip, !.mac = mac, !.nud = "REACHABLE",
              !.stamp = ndpTick, !.last = ndpTick, !.probes = 0]

\* The neighbour's own slot, else the first free one, else the first of
\* those used longest ago.
ndp_cache_insert(cache, ip, mac) ==
    LET own == Neighbour(cache, ip)
        free == {i \in 1..NdpSlots : ~cache[i].active}
        old == {i \in 1..NdpSlots : \A j \in 1..NdpSlots : cache[i].last <= cache[j].last}
        k == IF free # {} THEN First(free) ELSE First(old)
    IN  IF own # {} THEN [cache EXCEPT ![First(own)] = Reachable(@, ip, mac)]
        ELSE [cache EXCEPT ![k] = Reachable([expire_entry EXCEPT !.insert = ndpTick], ip, mac)]

\* ndp_cache_lookup, and ndp_nud_update_on_traffic which does the same to the
\* entry.
ndp_cache_lookup ==
    \E ip \in NdpHosts :
        /\ Neighbour(ndp, ip) # {}
        /\ ndp' = [ndp EXCEPT ![First(Neighbour(ndp, ip))] = Used(@)]
        /\ UNCHANGED <<ndpTick, dad, dadCopy, gateway6, ndpTold>>

Announced(ip, mac) ==
    /\ ndp' = ndp_cache_insert(ndp, ip, mac)
    /\ ndpTold' = [ndpTold EXCEPT ![ip] = mac]

\* A solicitation is learned from only when it has a source MAC.
ndp_process_neighbor_solicitation ==
    \E ip \in NdpHosts, mac \in NdpMacs :
        /\ Announced(ip, mac)
        /\ UNCHANGED <<ndpTick, dad, dadCopy, gateway6>>

\* An advertisement of the tentative address marks the copy and is not
\* learned from; any other is, with the zero MAC when it has no option.
ndp_process_neighbor_advertisement ==
    \E ip \in NdpHosts \cup {Tentative}, mac \in NdpMacs \cup {ZeroMac} :
        IF dadCopy.active /\ ip = Tentative
        THEN /\ dadCopy' = [dadCopy EXCEPT !.duplicate = TRUE]
             /\ UNCHANGED <<ndp, ndpTick, dad, gateway6, ndpTold>>
        ELSE /\ Announced(ip, mac)
             /\ UNCHANGED <<ndpTick, dad, dadCopy, gateway6>>

\* An advertisement of a router, with a source MAC or without.
ndp_process_router_advertisement ==
    \E ip \in NdpHosts, mac \in NdpMacs \cup {ZeroMac} :
        /\ IF mac = ZeroMac THEN UNCHANGED <<ndp, ndpTold>> ELSE Announced(ip, mac)
        /\ gateway6' = ip
        /\ UNCHANGED <<ndpTick, dad, dadCopy>>

\* Mutant: REACHABLE ends only after the time has been exceeded.
ndp_cache_age_Late(e) ==
    IF e.active /\ e.nud = "REACHABLE" /\ now - e.stamp > ReachableTime
    THEN [e EXCEPT !.nud = "STALE"]
    ELSE e

ndp_cache_age(e) ==
    IF e.active /\ e.nud = "REACHABLE" /\ now - e.stamp >= ReachableTime
    THEN [e EXCEPT !.nud = "STALE"]
    ELSE IF e.active /\ e.nud = "INCOMPLETE" /\ now - e.insert >= ReachableTime
    THEN expire_entry
    ELSE e

\* What the tick does to an entry after ageing it.  No code counts probes
\* up, so an entry that reaches PROBE stays there until it is announced.
ProbeStep(e) ==
    IF e.active /\ e.nud = "DELAY" /\ now - e.stamp >= FirstProbeDelay
    THEN [e EXCEPT !.nud = "PROBE", !.stamp = now, !.probes = 0]
    ELSE IF e.active /\ e.nud = "PROBE" /\ now - e.stamp >= RetransTimer
                     /\ e.probes >= MaxProbes
    THEN [e EXCEPT !.nud = "INCOMPLETE"]
    ELSE e

ndp_nud_tick ==
    /\ ndpTick' = now
    /\ ndp' = [i \in 1..NdpSlots |-> ProbeStep(ndp_cache_age(ndp[i]))]
    /\ UNCHANGED <<dad, dadCopy, gateway6, ndpTold>>

\* The solicitation built here is not sent.
ndp_dad_init ==
    /\ ~dad.active
    /\ dad' = [NoDad EXCEPT !.active = TRUE, !.start = ndpTick]
    /\ dadCopy' = [active |-> TRUE, duplicate |-> FALSE]
    /\ UNCHANGED <<ndp, ndpTick, gateway6, ndpTold>>

\* Answers -1 for a duplicate, 1 for a unique address, 0 while probing.
DadVerdict(d) ==
    IF d.duplicate THEN -1
    ELSE IF now - d.start >= RetransTimer THEN 1 ELSE 0

ndp_dad_tick ==
    /\ dad.active
    /\ dad' = [dad EXCEPT !.answer = DadVerdict(dad), !.active = DadVerdict(dad) = 0]
    /\ dadCopy' = [dadCopy EXCEPT !.active = DadVerdict(dad) = 0]
    /\ UNCHANGED <<ndp, ndpTick, gateway6, ndpTold>>

NdpStep ==
    \/ ndp_cache_lookup \/ ndp_process_neighbor_solicitation
    \/ ndp_process_router_advertisement \/ ndp_nud_tick
    \/ ndp_dad_init \/ ndp_dad_tick

(***************************************************************************)
(* A neighbour has one entry, with the MAC it announced last, and one the  *)
(* cache calls REACHABLE was announced or used less than the reachable     *)
(* time before the last tick, whatever was evicted, aged and announced     *)
(* again in between (ndp_cache_insert, ndp_cache_age, ndp_nud_tick).       *)
(***************************************************************************)
NeighboursFresh ==
    \A i \in 1..NdpSlots : ndp[i].active =>
        /\ Neighbour(ndp, ndp[i].ip) = {i}
        /\ ndp[i].mac = ndpTold[ndp[i].ip]
        /\ ndp[i].nud = "REACHABLE" => ndpTick - ndp[i].stamp < ReachableTime

=============================================================================
