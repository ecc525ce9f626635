-------------------------- MODULE NetTablesProofs ---------------------------
(***************************************************************************)
(* Theorems about the routes, the ARP cache and the UDP flows around the   *)
(* network stack, for any number of slots, buffers, hosts and routes.      *)
(***************************************************************************)
EXTENDS NetTables, FiniteSetTheorems, WellFoundedInduction, TLAPS

USE SMTT(60), ZenonT(30)

(* A nonempty set of naturals has a least element.                         *)
LEMMA LeastNat ==
  ASSUME NEW T \in SUBSET Nat, T # {}
  PROVE  \E n \in T : \A m \in T : n <= m
<1>1. PICK n \in T : \A m \in T : ~(<<m, n>> \in OpToRel(<, Nat))
  BY NatLessThanWellFounded, WFMin, Zenon
<1>2. \A m \in T : ~(m < n)
  BY <1>1, Zenon DEF OpToRel
<1> QED
  BY <1>2

LEMMA LeastIn ==
  ASSUME NEW N \in Nat, NEW S \in SUBSET (1 .. N), S # {}
  PROVE  Least(S) \in S /\ \A j \in S : Least(S) <= j
<1>1. \E i \in S : \A j \in S : i <= j
  BY LeastNat
<1> QED
  BY <1>1, Zenon DEF Least

-----------------------------------------------------------------------------
(* routing_lookup: what the scan has found after so many turns.            *)
IsScan(g, N, t, dest) ==
  g = [k \in 0 .. N |-> IF k = 0 THEN NoMatch ELSE ScanSlot(g[k - 1], k, t, dest)]

LEMMA ScanExists ==
  ASSUME NEW t, NEW dest, NEW N \in Nat
  PROVE  \E g : IsScan(g, N, t, dest)
<1> DEFINE T == {n \in Nat : ~ \E g : IsScan(g, n, t, dest)}
<1> SUFFICES ASSUME T # {} PROVE FALSE
  OBVIOUS
<1>1. PICK n \in T : \A m \in T : n <= m
  BY LeastNat, Zenon
<1>2. CASE n = 0
  <2>1. PICK g : g = [k \in 0 .. 0 |-> NoMatch]
    BY Zenon
  <2>2. IsScan(g, 0, t, dest)
    BY <2>1 DEF IsScan
  <2> QED
    BY <1>1, <1>2, <2>2
<1>3. CASE n # 0
  <2>1. n \in Nat /\ n - 1 \in Nat /\ n - 1 \notin T
    BY <1>1, <1>3
  <2>2. PICK g : IsScan(g, n - 1, t, dest)
    BY <2>1
  <2>3. PICK h : h = [k \in 0 .. n |-> IF k = n THEN ScanSlot(g[n - 1], n, t, dest) ELSE g[k]]
    BY Zenon
  <2>4. \A k \in 0 .. n - 1 : h[k] = g[k]
    BY <2>1, <2>3
  <2>5. \A k \in 0 .. n - 1 : g[k] = IF k = 0 THEN NoMatch ELSE ScanSlot(g[k - 1], k, t, dest)
    BY <2>2 DEF IsScan
  <2>6. \A k \in 0 .. n : h[k] = IF k = 0 THEN NoMatch ELSE ScanSlot(h[k - 1], k, t, dest)
    <3> SUFFICES ASSUME NEW k \in 0 .. n
                 PROVE  h[k] = IF k = 0 THEN NoMatch ELSE ScanSlot(h[k - 1], k, t, dest)
      OBVIOUS
    <3>1. CASE k = n
      BY <1>3, <2>1, <2>3, <2>4, <3>1
    <3>2. CASE k # n
      <4>1. k \in 0 .. n - 1 /\ (k # 0 => k - 1 \in 0 .. n - 1)
        BY <2>1, <3>2
      <4> QED
        BY <2>4, <2>5, <4>1
    <3> QED
      BY <3>1, <3>2
  <2>7. h = [k \in 0 .. n |-> h[k]]
    BY <2>3
  <2>8. IsScan(h, n, t, dest)
    BY <2>6, <2>7, Zenon DEF IsScan
  <2> QED
    BY <1>1, <2>8
<1> QED
  BY <1>2, <1>3

LEMMA ScanDef ==
  ASSUME NEW t, NEW dest
  PROVE  /\ Scan(t, dest)[0] = NoMatch
         /\ \A k \in 1 .. RouteSlots :
              Scan(t, dest)[k] = ScanSlot(Scan(t, dest)[k - 1], k, t, dest)
<1>1. \E g : IsScan(g, RouteSlots, t, dest)
  BY ScanExists, RoutesAssumption
<1>2. Scan(t, dest) = CHOOSE g : IsScan(g, RouteSlots, t, dest)
  BY DEF Scan, IsScan
<1>3. IsScan(Scan(t, dest), RouteSlots, t, dest)
  BY <1>1, <1>2
<1>4. PICK g : g = Scan(t, dest)
  OBVIOUS
<1>5. g = [k \in 0 .. RouteSlots |-> IF k = 0 THEN NoMatch ELSE ScanSlot(g[k - 1], k, t, dest)]
  BY <1>3, <1>4, Zenon DEF IsScan
<1>6. g[0] = NoMatch /\ \A k \in 1 .. RouteSlots : g[k] = ScanSlot(g[k - 1], k, t, dest)
  BY <1>5, RoutesAssumption
<1> QED
  BY <1>4, <1>6

RouteType == [active : BOOLEAN, net : Addresses, mask : Addresses, gateway : Addresses]

Found(b, k, t, dest) ==
  /\ b.found \in BOOLEAN
  /\ b.found => /\ b.slot \in 1 .. k /\ Matches(t, b.slot, dest)
                /\ b.len = Cardinality(t[b.slot].mask)
                /\ \A j \in 1 .. k : Matches(t, j, dest) => Cardinality(t[j].mask) <= b.len
  /\ ~ b.found => \A j \in 1 .. k : ~ Matches(t, j, dest)

LEMMA PrefixLength ==
  ASSUME NEW t \in [1 .. RouteSlots -> RouteType], NEW i \in 1 .. RouteSlots
  PROVE  Cardinality(t[i].mask) \in Nat
<1>1. t[i].mask \in SUBSET AddrBits
  BY DEF RouteType, Addresses
<1> QED
  BY <1>1, RoutesAssumption, FS_Subset, FS_CardinalityType

LEMMA ScanTurn ==
  ASSUME NEW t \in [1 .. RouteSlots -> RouteType], NEW dest, NEW k \in 1 .. RouteSlots,
         NEW b, Found(b, k - 1, t, dest)
  PROVE  Found(ScanSlot(b, k, t, dest), k, t, dest)
<1>1. k \in Nat /\ RouteSlots \in Nat /\ \A j \in 1 .. k : j \in 1 .. k - 1 \/ j = k
  BY RoutesAssumption
<1>2. \A j \in 1 .. RouteSlots : Cardinality(t[j].mask) \in Nat
  BY PrefixLength, Zenon
<1>3. Matches(t, k, dest) \in BOOLEAN
  BY DEF Matches, RouteType
<1>4. CASE Matches(t, k, dest) /\ (Cardinality(t[k].mask) > b.len \/ ~ b.found)
  <2>1. PICK r : r = ScanSlot(b, k, t, dest)
    OBVIOUS
  <2>2. r.found = TRUE /\ r.slot = k /\ r.len = Cardinality(t[k].mask)
    BY <1>4, <2>1 DEF ScanSlot
  <2>3. \A j \in 1 .. k : Matches(t, j, dest) => Cardinality(t[j].mask) <= r.len
    <3> SUFFICES ASSUME NEW j \in 1 .. k, Matches(t, j, dest)
                 PROVE  Cardinality(t[j].mask) <= r.len
      OBVIOUS
    <3>1. Cardinality(t[j].mask) \in Nat /\ Cardinality(t[k].mask) \in Nat
      BY <1>1, <1>2
    <3>2. CASE j = k
      BY <2>2, <3>1, <3>2
    <3>3. CASE j # k
      <4>1. j \in 1 .. k - 1
        BY <1>1, <3>3
      <4>2. b.found
        BY <4>1 DEF Found
      <4>3. Cardinality(t[j].mask) <= b.len /\ b.len \in Nat
        BY <1>1, <1>2, <4>1, <4>2 DEF Found
      <4> QED
        BY <1>4, <2>2, <3>1, <4>2, <4>3
    <3> QED
      BY <3>2, <3>3
  <2>4. r.slot \in 1 .. k /\ Matches(t, r.slot, dest) /\ r.len = Cardinality(t[r.slot].mask)
    BY <1>1, <1>4, <2>2
  <2>5. Found(r, k, t, dest)
    BY <2>2, <2>3, <2>4, Zenon DEF Found
  <2> QED
    BY <2>1, <2>5
<1>5. CASE ~ (Matches(t, k, dest) /\ (Cardinality(t[k].mask) > b.len \/ ~ b.found))
  <2>1. ScanSlot(b, k, t, dest) = b
    BY <1>5 DEF ScanSlot
  <2>2. CASE b.found
    <3>1. b.slot \in 1 .. k - 1 /\ b.len \in Nat
      BY <1>1, <1>2, <2>2 DEF Found
    <3>2. b.slot \in 1 .. k
      BY <1>1, <3>1
    <3>3. Matches(t, k, dest) => Cardinality(t[k].mask) <= b.len
      BY <1>1, <1>2, <1>5, <2>2, <3>1
    <3>4. \A j \in 1 .. k : Matches(t, j, dest) => Cardinality(t[j].mask) <= b.len
      BY <1>1, <2>2, <3>3 DEF Found
    <3> QED
      BY <2>1, <2>2, <3>2, <3>4 DEF Found
  <2>3. CASE ~ b.found
    BY <1>1, <1>3, <1>5, <2>1, <2>3 DEF Found
  <2> QED
    BY <2>2, <2>3
<1> QED
  BY <1>4, <1>5

(* The loop of routing_lookup finds a longest matching route, or that      *)
(* there is none.                                                          *)
LEMMA ScanFinds ==
  ASSUME NEW t \in [1 .. RouteSlots -> RouteType], NEW dest, NEW k \in 0 .. RouteSlots
  PROVE  Found(Scan(t, dest)[k], k, t, dest)
<1> DEFINE T == {n \in 0 .. RouteSlots : ~ Found(Scan(t, dest)[n], n, t, dest)}
<1> SUFFICES ASSUME T # {} PROVE FALSE
  OBVIOUS
<1>0. T \in SUBSET Nat
  BY RoutesAssumption
<1>1. PICK n \in T : \A m \in T : n <= m
  BY <1>0, LeastNat, Zenon
<1>2. n \in Nat /\ n <= RouteSlots /\ RouteSlots \in Nat
  BY RoutesAssumption
<1>3. CASE n = 0
  <2>1. Scan(t, dest)[0] = NoMatch
    BY ScanDef
  <2>2. Found(NoMatch, 0, t, dest)
    BY DEF Found, NoMatch
  <2> QED
    BY <1>3, <2>1, <2>2
<1>4. CASE n # 0
  <2>1. n \in 1 .. RouteSlots /\ n - 1 \in 0 .. RouteSlots /\ n - 1 \notin T
    BY <1>1, <1>2, <1>4
  <2>2. Found(Scan(t, dest)[n - 1], n - 1, t, dest)
    BY <2>1
  <2>3. Scan(t, dest)[n] = ScanSlot(Scan(t, dest)[n - 1], n, t, dest)
    BY <2>1, ScanDef
  <2> QED
    BY <2>1, <2>2, <2>3, ScanTurn
<1> QED
  BY <1>3, <1>4

(* routing_lookup answers with the gateway of a longest matching route, or *)
(* the destination when that route has none, or 0 when no route matches.   *)
THEOREM LookupIsNextHop ==
  ASSUME NEW t \in [1 .. RouteSlots -> RouteType], NEW dest
  PROVE  routing_lookup(t, dest) \in NextHops(t, dest)
<1>1. PICK b : b = Scan(t, dest)[RouteSlots]
  OBVIOUS
<1>2. Found(b, RouteSlots, t, dest)
  BY <1>1, ScanFinds, RoutesAssumption
<1>3. routing_lookup(t, dest) = IF ~ b.found THEN {}
                                ELSE IF t[b.slot].gateway = {} THEN dest ELSE t[b.slot].gateway
  BY <1>1 DEF routing_lookup
<1>4. CASE ~ b.found
  <2>1. {i \in 1 .. RouteSlots : Matches(t, i, dest)} = {}
    BY <1>2, <1>4 DEF Found
  <2> QED
    BY <1>3, <1>4, <2>1 DEF NextHops
<1>5. CASE b.found
  <2>1. /\ b.slot \in 1 .. RouteSlots /\ Matches(t, b.slot, dest)
        /\ \A j \in 1 .. RouteSlots :
             Matches(t, j, dest) => Cardinality(t[j].mask) <= Cardinality(t[b.slot].mask)
    BY <1>2, <1>5 DEF Found
  <2> QED
    BY <1>3, <1>5, <2>1 DEF NextHops
<1> QED
  BY <1>2, <1>4, <1>5 DEF Found

-----------------------------------------------------------------------------
(* The ARP cache: an address has one entry, with the MAC announced last.   *)
ArpOK(c, tl) ==
  /\ DOMAIN c = 1 .. ArpSlots /\ DOMAIN tl = ArpHosts
  /\ \A i \in 1 .. ArpSlots :
       /\ DOMAIN c[i] = {"active", "ip", "mac", "age", "last"} /\ c[i].active \in BOOLEAN
       /\ c[i].active => /\ c[i].ip \in ArpHosts /\ c[i].mac = tl[c[i].ip]
                         /\ \A j \in 1 .. ArpSlots :
                              c[j].active /\ c[j].ip = c[i].ip => j = i

LEMMA MovedOK ==
  ASSUME NEW c, NEW tl, ArpOK(c, tl), NEW k \in 1 .. ArpSlots
  PROVE  ArpOK(MovedToFront(c, k), tl)
<1>1. PICK m : m = MovedToFront(c, k)
  OBVIOUS
<1>2. ArpSlots \in Nat \ {0} /\ k \in Nat /\ 1 \in 1 .. ArpSlots
  BY ArpAssumption
<1> DEFINE src(i) == IF i = 1 THEN k ELSE IF i <= k THEN i - 1 ELSE i
<1>3. \A i \in 1 .. ArpSlots : src(i) \in 1 .. ArpSlots
  BY <1>2
<1>4. \A i, j \in 1 .. ArpSlots : src(i) = src(j) => i = j
  BY <1>2
<1>5. DOMAIN m = 1 .. ArpSlots
  BY <1>1 DEF MovedToFront
<1>6. /\ m[1] = [c[k] EXCEPT !.last = now]
      /\ \A i \in 1 .. ArpSlots : i # 1 => m[i] = c[src(i)]
  <2>1. m[1] = [c[k] EXCEPT !.last = now]
    BY <1>1, <1>2 DEF MovedToFront
  <2>2. ASSUME NEW i \in 1 .. ArpSlots, i # 1, i <= k PROVE m[i] = c[i - 1]
    BY <1>1, <1>2, <2>2 DEF MovedToFront
  <2>3. ASSUME NEW i \in 1 .. ArpSlots, i # 1, ~ (i <= k) PROVE m[i] = c[i]
    <3>1. i \notin 2 .. k
      BY <1>2, <2>3
    <3> QED
      BY <1>1, <2>3, <3>1 DEF MovedToFront
  <2> QED
    BY <2>1, <2>2, <2>3
<1> HIDE DEF src
<1>7. src(1) = k
  BY DEF src
<1>8. ASSUME NEW i \in 1 .. ArpSlots
      PROVE  /\ DOMAIN m[i] = {"active", "ip", "mac", "age", "last"}
             /\ m[i].active = c[src(i)].active /\ m[i].ip = c[src(i)].ip
             /\ m[i].mac = c[src(i)].mac
  <2>1. CASE i = 1
    <3>1. DOMAIN c[k] = {"active", "ip", "mac", "age", "last"}
      BY DEF ArpOK
    <3>2. m[i] = [c[k] EXCEPT !.last = now] /\ src(i) = k
      BY <1>6, <1>7, <2>1
    <3> QED
      BY <3>1, <3>2
  <2>2. CASE i # 1
    BY <1>3, <1>6, <2>2 DEF ArpOK
  <2> QED
    BY <2>1, <2>2
<1>9. ArpOK(m, tl)
  <2> SUFFICES ASSUME NEW i \in 1 .. ArpSlots
               PROVE  /\ DOMAIN m[i] = {"active", "ip", "mac", "age", "last"}
                      /\ m[i].active \in BOOLEAN
                      /\ m[i].active => /\ m[i].ip \in ArpHosts /\ m[i].mac = tl[m[i].ip]
                                        /\ \A j \in 1 .. ArpSlots :
                                             m[j].active /\ m[j].ip = m[i].ip => j = i
    BY <1>5 DEF ArpOK
  <2>1. src(i) \in 1 .. ArpSlots
    BY <1>3
  <2>2. /\ c[src(i)].active \in BOOLEAN
        /\ c[src(i)].active => c[src(i)].ip \in ArpHosts /\ c[src(i)].mac = tl[c[src(i)].ip]
    BY <2>1 DEF ArpOK
  <2>3. ASSUME m[i].active, NEW j \in 1 .. ArpSlots, m[j].active, m[j].ip = m[i].ip PROVE j = i
    <3>1. src(j) \in 1 .. ArpSlots /\ c[src(j)].active /\ c[src(i)].active
          /\ c[src(j)].ip = c[src(i)].ip
      BY <1>3, <1>8, <2>3
    <3>2. src(j) = src(i)
      BY <2>1, <3>1 DEF ArpOK
    <3> QED
      BY <1>4, <3>2
  <2> QED
    BY <1>8, <2>2, <2>3
<1> QED
  BY <1>1, <1>9

LEMMA InsertOK ==
  ASSUME NEW c, NEW tl, ArpOK(c, tl), NEW ip \in ArpHosts, NEW mac
  PROVE  ArpOK(arp_cache_insert(c, ip, mac), [tl EXCEPT ![ip] = mac])
<1>1. PICK s : s = ArpSlotFor(c, ip)
  OBVIOUS
<1>2. PICK e : e = ArpEntry(ip, mac)
  OBVIOUS
<1>3. /\ DOMAIN e = {"active", "ip", "mac", "age", "last"}
      /\ e.active = TRUE /\ e.ip = ip /\ e.mac = mac
  BY <1>2 DEF ArpEntry
<1>4. PICK m : m = [c EXCEPT ![s] = e]
  BY Zenon
<1>5. PICK t : t = [tl EXCEPT ![ip] = mac]
  BY Zenon
<1>6. m = arp_cache_insert(c, ip, mac)
  BY <1>1, <1>2, <1>4 DEF arp_cache_insert
<1>7. \A i \in 1 .. ArpSlots : c[i].active /\ c[i].ip = ip => i = s
  <2> SUFFICES ASSUME NEW i \in 1 .. ArpSlots, c[i].active, c[i].ip = ip PROVE i = s
    OBVIOUS
  <2>1. i \in ArpSlotsOf(c, ip) /\ ArpSlotsOf(c, ip) \in SUBSET (1 .. ArpSlots)
    BY DEF ArpSlotsOf
  <2>2. s = Least(ArpSlotsOf(c, ip))
    BY <1>1, <2>1 DEF ArpSlotFor
  <2>3. s \in ArpSlotsOf(c, ip)
    BY <2>1, <2>2, LeastIn, ArpAssumption, Zenon
  <2> QED
    BY <2>3 DEF ArpSlotsOf, ArpOK
<1>8. /\ DOMAIN m = 1 .. ArpSlots /\ DOMAIN t = ArpHosts /\ t[ip] = mac
      /\ \A a \in ArpHosts : a # ip => t[a] = tl[a]
      /\ \A i \in 1 .. ArpSlots : m[i] = IF i = s THEN e ELSE c[i]
  BY <1>4, <1>5 DEF ArpOK
<1>9. ArpOK(m, t)
  <2> SUFFICES ASSUME NEW i \in 1 .. ArpSlots
               PROVE  /\ DOMAIN m[i] = {"active", "ip", "mac", "age", "last"}
                      /\ m[i].active \in BOOLEAN
                      /\ m[i].active => /\ m[i].ip \in ArpHosts /\ m[i].mac = t[m[i].ip]
                                        /\ \A j \in 1 .. ArpSlots :
                                             m[j].active /\ m[j].ip = m[i].ip => j = i
    BY <1>8 DEF ArpOK
  <2>1. CASE i = s
    BY <1>3, <1>7, <1>8, <2>1, Zenon
  <2>2. CASE i # s
    <3>1. m[i] = c[i] /\ (c[i].active => c[i].ip # ip)
      BY <1>7, <1>8, <2>2
    <3>2. \A j \in 1 .. ArpSlots : m[j].active /\ m[j].ip = c[i].ip /\ c[i].active => j = i
      BY <1>3, <1>8, <3>1 DEF ArpOK
    <3> QED
      BY <1>8, <3>1, <3>2 DEF ArpOK
  <2> QED
    BY <2>1, <2>2
<1> QED
  BY <1>5, <1>6, <1>9

LEMMA LookupOK ==
  ASSUME NEW c, NEW tl, ArpOK(c, tl), NEW ip
  PROVE  /\ ArpOK(arp_cache_lookup(c, ip).cache, tl)
         /\ arp_cache_lookup(c, ip).mac # NoMac => arp_cache_lookup(c, ip).mac = tl[ip]
<1>1. CASE ArpSlotsOf(c, ip) = {}
  BY <1>1 DEF arp_cache_lookup
<1>2. CASE ArpSlotsOf(c, ip) # {}
  <2>1. PICK k : k = Least(ArpSlotsOf(c, ip))
    OBVIOUS
  <2>2. ArpSlotsOf(c, ip) \in SUBSET (1 .. ArpSlots)
    BY DEF ArpSlotsOf
  <2>3. k \in ArpSlotsOf(c, ip)
    BY <1>2, <2>1, <2>2, LeastIn, ArpAssumption, Zenon
  <2>4. k \in 1 .. ArpSlots /\ c[k].mac = tl[ip]
    BY <2>3 DEF ArpSlotsOf, ArpOK
  <2>5. arp_cache_lookup(c, ip) = [mac |-> c[k].mac, cache |-> MovedToFront(c, k)]
    BY <1>2, <2>1 DEF arp_cache_lookup
  <2>6. ArpOK(MovedToFront(c, k), tl)
    BY <2>4, MovedOK
  <2> QED
    BY <2>4, <2>5, <2>6
<1> QED
  BY <1>1, <1>2

LEMMA ResolveOK ==
  ASSUME NEW c, NEW tl, ArpOK(c, tl), NEW dest
  PROVE  /\ ArpOK(tcp_resolve_mac(c, dest).cache, tl)
         /\ tcp_resolve_mac(c, dest).mac # NoMac
              => tcp_resolve_mac(c, dest).mac = tl[routing_lookup(routes, dest)]
<1>1. CASE routing_lookup(routes, dest) = {}
  BY <1>1 DEF tcp_resolve_mac
<1>2. CASE routing_lookup(routes, dest) # {}
  BY <1>2, LookupOK DEF tcp_resolve_mac
<1> QED
  BY <1>1, <1>2

LEMMA AgeOK ==
  ASSUME ArpOK(arp, told), arp_cache_age
  PROVE  ArpOK(arp', told')
<1>1. told' = told /\ DOMAIN arp' = 1 .. ArpSlots
  BY DEF arp_cache_age
<1>2. \A i \in 1 .. ArpSlots : arp'[i] = NoArp \/ arp'[i] = arp[i]
  BY DEF arp_cache_age
<1>3. DOMAIN NoArp = {"active", "ip", "mac", "age", "last"} /\ NoArp.active = FALSE
  BY DEF NoArp
<1>4. ASSUME NEW i \in 1 .. ArpSlots
      PROVE  /\ DOMAIN arp'[i] = {"active", "ip", "mac", "age", "last"}
             /\ arp'[i].active \in BOOLEAN
             /\ arp'[i].active => arp'[i] = arp[i] /\ arp[i].active
  BY <1>2, <1>3, Zenon DEF ArpOK
<1> QED
  BY <1>1, <1>4 DEF ArpOK

LEMMA RoutesTyped ==
  ASSUME NEW t \in [1 .. RouteSlots -> RouteType],
         NEW r \in [net : Addresses, mask : Addresses, gateway : Addresses]
  PROVE  Added(t, r) \in [1 .. RouteSlots -> RouteType]
<1>1. PICK e : e = [active |-> TRUE, net |-> r.net \cap r.mask, mask |-> r.mask,
                    gateway |-> r.gateway]
  BY Zenon
<1>2. r.net \cap r.mask \in Addresses
  BY DEF Addresses
<1>3. e \in RouteType
  BY <1>1, <1>2 DEF RouteType
<1>4. ASSUME NEW k PROVE [t EXCEPT ![k] = e] \in [1 .. RouteSlots -> RouteType]
  BY <1>3, Zenon
<1> QED
  BY <1>1, <1>4, Zenon DEF Added

LEMMA NoRouteTyped == NoRoute \in RouteType
  BY DEF NoRoute, RouteType, Addresses

-----------------------------------------------------------------------------
ResolveInv == routes \in [1 .. RouteSlots -> RouteType] /\ ArpOK(arp, told)

LEMMA ResolveInit ==
  ASSUME TablesInit PROVE ResolveInv
<1>1. routes \in [1 .. RouteSlots -> RouteType]
  <2>1. [i \in 1 .. RouteSlots |-> NoRoute] \in [1 .. RouteSlots -> RouteType]
    BY NoRouteTyped
  <2>2. Added([i \in 1 .. RouteSlots |-> NoRoute], LocalRoute) \in [1 .. RouteSlots -> RouteType]
    BY <2>1, RoutesTyped, RoutesAssumption
  <2>3. Added(Added([i \in 1 .. RouteSlots |-> NoRoute], LocalRoute), DefaultRoute)
          \in [1 .. RouteSlots -> RouteType]
    BY <2>2, RoutesTyped, RoutesAssumption
  <2> QED
    BY <2>3, Zenon DEF TablesInit, routing_init
<1>2. DOMAIN NoArp = {"active", "ip", "mac", "age", "last"} /\ NoArp.active = FALSE
  BY DEF NoArp
<1>3. CASE part # "udp"
  BY <1>1, <1>2, <1>3, Zenon DEF TablesInit, arp_init, ResolveInv, ArpOK
<1>4. CASE part = "udp"
  <2>1. PICK link : link = {a \in ArpHosts : routing_lookup(routes, a) = a}
    BY Zenon
  <2>2. PICK mac \in Macs :
            /\ arp \in [1..ArpSlots -> {NoArp} \cup {ArpEntry(a, mac) : a \in link}]
            /\ \A a \in link : Cardinality(ArpSlotsOf(arp, a)) = 1
            /\ told = [a \in ArpHosts |-> IF a \in link THEN mac ELSE NoMac]
    BY <1>4, <2>1 DEF TablesInit, neighbours_known
  <2>3. \A a : /\ DOMAIN ArpEntry(a, mac) = {"active", "ip", "mac", "age", "last"}
               /\ ArpEntry(a, mac).active = TRUE /\ ArpEntry(a, mac).ip = a
               /\ ArpEntry(a, mac).mac = mac
    BY DEF ArpEntry
  <2>4. ASSUME NEW i \in 1 .. ArpSlots
        PROVE  /\ DOMAIN arp[i] = {"active", "ip", "mac", "age", "last"}
               /\ arp[i].active \in BOOLEAN
               /\ arp[i].active => arp[i].ip \in link /\ arp[i].mac = mac
    <3>1. CASE arp[i] = NoArp
      BY <1>2, <3>1, Zenon
    <3>2. ASSUME NEW a \in link, arp[i] = ArpEntry(a, mac)
          PROVE  /\ DOMAIN arp[i] = {"active", "ip", "mac", "age", "last"}
                 /\ arp[i].active = TRUE /\ arp[i].ip \in link /\ arp[i].mac = mac
      BY <2>3, <3>2
    <3>3. arp[i] = NoArp \/ \E a \in link : arp[i] = ArpEntry(a, mac)
      BY <2>2
    <3> QED
      BY <3>1, <3>2, <3>3, Zenon
  <2>5. ASSUME NEW i \in 1 .. ArpSlots, NEW j \in 1 .. ArpSlots, arp[i].active, arp[j].active,
               arp[j].ip = arp[i].ip
        PROVE  j = i
    <3>1. PICK S : S = ArpSlotsOf(arp, arp[i].ip)
      OBVIOUS
    <3>2. i \in S /\ j \in S /\ S \in SUBSET (1 .. ArpSlots)
      BY <2>5, <3>1 DEF ArpSlotsOf
    <3>3. IsFiniteSet(S)
      <4>1. IsFiniteSet(1 .. ArpSlots)
        BY FS_Interval, ArpAssumption
      <4> QED
        BY <3>2, <4>1, FS_Subset, Zenon
    <3>4. Cardinality(S) = 1
      BY <2>2, <2>4, <2>5, <3>1
    <3>5. \E x : S = {x}
      BY <3>3, <3>4, FS_Singleton, Zenon
    <3> QED
      BY <3>2, <3>5
  <2>6. ArpOK(arp, told)
    BY <2>1, <2>2, <2>4, <2>5 DEF ArpOK
  <2> QED
    BY <1>1, <2>6 DEF ResolveInv
<1> QED
  BY <1>3, <1>4

LEMMA ResolveNext ==
  ASSUME ResolveInv, [TablesNext]_tableVars PROVE ResolveInv'
<1>1. ASSUME UNCHANGED <<routes, arp, told>> PROVE ResolveInv'
  BY <1>1 DEF ResolveInv, ArpOK
<1>2. ASSUME RouteStep, UNCHANGED arpVars PROVE ResolveInv'
  <2>1. routes' \in [1 .. RouteSlots -> RouteType]
    <3>1. CASE routing_add
      BY <3>1, RoutesTyped, RoutesAssumption DEF routing_add, ResolveInv
    <3>2. CASE routing_remove
      <4>1. PICK k : routes' = [routes EXCEPT ![k] = NoRoute]
        BY <3>2, Zenon DEF routing_remove
      <4> QED
        BY <4>1, NoRouteTyped, Zenon DEF ResolveInv
    <3>3. CASE routing_clear
      BY <3>3, NoRouteTyped DEF routing_clear
    <3> QED
      BY <1>2, <3>1, <3>2, <3>3 DEF RouteStep
  <2> QED
    BY <1>2, <2>1 DEF ResolveInv, ArpOK, arpVars
<1>3. ASSUME NEW ip \in ArpHosts, NEW mac, Learn(ip, mac), UNCHANGED routes PROVE ResolveInv'
  BY <1>3, InsertOK, Zenon DEF Learn, ResolveInv
<1>4. ASSUME NEW dest, arp' = tcp_resolve_mac(arp, dest).cache, UNCHANGED <<told, routes>>
      PROVE  ResolveInv'
  BY <1>4, ResolveOK DEF ResolveInv
<1>5. ASSUME arp_cache_age, UNCHANGED routes PROVE ResolveInv'
  BY <1>5, AgeOK DEF ResolveInv
<1>6. CASE network_poll_tick /\ UNCHANGED <<now, routes, rateVars>>
  <2>1. CASE arp_process_reply
    BY <1>3, <1>6, <2>1 DEF arp_process_reply
  <2>2. CASE ~ arp_process_reply
    <3>1. UNCHANGED arpVars
      BY <1>6, <2>2 DEF network_poll_tick, network_stack_process_udp_frame,
           network_stack_process_udp_frame_v6
    <3> QED
      BY <1>1, <1>6, <3>1 DEF arpVars
  <2> QED
    BY <2>1, <2>2
<1>7. CASE ArpStep /\ UNCHANGED <<now, routes, udpVars, ndpVars, rateVars>>
  <2>1. CASE arp_send_gratuitous
    BY <1>3, <1>7, <2>1, ArpAssumption DEF arp_send_gratuitous
  <2>2. CASE arp_cache_age
    BY <1>5, <1>7, <2>2
  <2>3. CASE ResolveMac
    BY <1>4, <1>7, <2>3 DEF ResolveMac
  <2> QED
    BY <1>7, <2>1, <2>2, <2>3 DEF ArpStep
<1>8. CASE UdpStep /\ UNCHANGED <<now, routes, ndpVars, rateVars>>
  <2>1. CASE network_stack_udp_send
    BY <1>4, <1>8, <2>1 DEF network_stack_udp_send
  <2>2. CASE network_stack_expire_udp_flows
    BY <1>1, <1>8, <2>2 DEF network_stack_expire_udp_flows, arpVars
  <2> QED
    BY <1>8, <2>1, <2>2 DEF UdpStep
<1>9. CASE UNCHANGED tableVars
  BY <1>1, <1>9 DEF tableVars, arpVars
<1>10. CASE TablesNext
  BY <1>1, <1>2, <1>6, <1>7, <1>8, <1>10 DEF TablesNext, arpVars
<1> QED
  BY <1>9, <1>10

(***************************************************************************)
(* ResolvesToNextHop for any table of routes and any cache: the next hop   *)
(* of a destination is a longest matching route's, and the MAC found for   *)
(* it the one announced last (routing_lookup, arp_cache_lookup,            *)
(* arp_cache_insert, arp_cache_age, tcp_resolve_mac).                      *)
(***************************************************************************)
THEOREM ResolutionIsNextHop == TablesSpec => []ResolvesToNextHop
<1>1. TablesInit => ResolveInv
  BY ResolveInit
<1>2. ResolveInv /\ [TablesNext]_tableVars => ResolveInv'
  BY ResolveNext
<1>3. ResolveInv => ResolvesToNextHop
  <2> SUFFICES ASSUME ResolveInv, NEW dest \in Addresses
               PROVE  /\ routing_lookup(routes, dest) \in NextHops(routes, dest)
                      /\ tcp_resolve_mac(arp, dest).mac # NoMac
                           => tcp_resolve_mac(arp, dest).mac = told[routing_lookup(routes, dest)]
    BY DEF ResolvesToNextHop
  <2>1. routing_lookup(routes, dest) \in NextHops(routes, dest)
    BY LookupIsNextHop DEF ResolveInv
  <2>2. tcp_resolve_mac(arp, dest).mac # NoMac
           => tcp_resolve_mac(arp, dest).mac = told[routing_lookup(routes, dest)]
    BY ResolveOK DEF ResolveInv
  <2> QED
    BY <2>1, <2>2
<1> QED
  BY <1>1, <1>2, <1>3, PTL DEF TablesSpec

-----------------------------------------------------------------------------
(* UDP flows: an active flow's buffer is in use and no other's.            *)
FlowOwns(u, p, i) ==
  u[i].active /\ u[i].remote # LocalIp /\ u[i].buf # 0 =>
    /\ u[i].buf \in 1 .. PoolBufs /\ p[u[i].buf].used
    /\ \A j \in 1 .. UdpSlots :
         u[j].active /\ u[j].remote # LocalIp /\ u[j].buf = u[i].buf => j = i
    /\ u[i].remote # {} =>
         \A k \in 1 .. Len(p[u[i].buf].data) : p[u[i].buf].data[k] = u[i].remote

FlowFields == {"active", "remote", "buf", "seen"}

PoolOK(p) ==
  /\ DOMAIN p = 1 .. PoolBufs
  /\ \A b \in 1 .. PoolBufs : /\ DOMAIN p[b] = {"used", "data"} /\ p[b].used \in BOOLEAN
                              /\ p[b].data \in Seq(ArpHosts \cup Peers6)

FlowsOK(u, p) ==
  /\ DOMAIN u = 1 .. UdpSlots
  /\ \A i \in 1 .. UdpSlots : /\ DOMAIN u[i] = FlowFields /\ u[i].active \in BOOLEAN
                              /\ FlowOwns(u, p, i)

LEMMA AllocFound ==
  ASSUME FlowsOK(udp, pool), PoolOK(pool), NEW remote, NEW f, f = alloc_udp_flow(remote),
         find_udp_flow(remote) # {}
  PROVE  /\ f.slot \in 1 .. UdpSlots /\ f.flow.active /\ f.flow.remote = remote
         /\ FlowsOK([udp EXCEPT ![f.slot] = f.flow], f.pool) /\ PoolOK(f.pool)
<1>1. PICK k : k = Least(find_udp_flow(remote))
  OBVIOUS
<1>2. k \in find_udp_flow(remote)
  <2>1. find_udp_flow(remote) \in SUBSET (1 .. UdpSlots)
    BY DEF find_udp_flow
  <2> QED
    BY <1>1, <2>1, LeastIn, UdpAssumption, Zenon
<1>3. k \in 1 .. UdpSlots /\ udp[k].active /\ udp[k].remote = remote
  BY <1>2 DEF find_udp_flow
<1>4. PICK fl : fl = [udp[k] EXCEPT !.seen = now]
  BY Zenon
<1>5. f.slot = k /\ f.flow = fl /\ f.pool = pool
  BY <1>1, <1>4 DEF alloc_udp_flow
<1>6. DOMAIN udp[k] = FlowFields
  BY <1>3 DEF FlowsOK
<1>7. /\ DOMAIN fl = FlowFields /\ fl.active = udp[k].active /\ fl.remote = udp[k].remote
      /\ fl.buf = udp[k].buf
  BY <1>4, <1>6 DEF FlowFields
<1>8. PICK u : u = [udp EXCEPT ![k] = fl]
  BY Zenon
<1>9. DOMAIN u = 1 .. UdpSlots
      /\ \A i \in 1 .. UdpSlots : /\ u[i].active = udp[i].active /\ u[i].remote = udp[i].remote
                                  /\ u[i].buf = udp[i].buf /\ DOMAIN u[i] = DOMAIN udp[i]
  BY <1>3, <1>6, <1>7, <1>8, Zenon DEF FlowsOK
<1>10. FlowsOK(u, pool)
  BY <1>9 DEF FlowsOK, FlowOwns
<1> QED
  BY <1>3, <1>5, <1>7, <1>8, <1>10

LEMMA AllocMade ==
  ASSUME FlowsOK(udp, pool), PoolOK(pool), NEW remote, NEW f, f = alloc_udp_flow(remote),
         f.slot # 0, find_udp_flow(remote) = {}
  PROVE  /\ f.slot \in 1 .. UdpSlots /\ f.flow.active /\ f.flow.remote = remote
         /\ FlowsOK([udp EXCEPT ![f.slot] = f.flow], f.pool) /\ PoolOK(f.pool)
<1>1. PICK free : free = {i \in 1 .. UdpSlots : ~ udp[i].active}
  BY Zenon
<1>2. free # {}
  BY <1>1 DEF alloc_udp_flow
<1>3. PICK k : k = Least(free)
  OBVIOUS
<1>4. k \in 1 .. UdpSlots /\ ~ udp[k].active
  <2>1. free \in SUBSET (1 .. UdpSlots)
    BY <1>1
  <2>2. k \in free
    BY <1>2, <1>3, <2>1, LeastIn, UdpAssumption
  <2> QED
    BY <1>1, <2>2
<1>5. PICK b : b = sockbuf_alloc(pool)
  OBVIOUS
<1>6. b = 0 \/ (b \in 1 .. PoolBufs /\ ~ pool[b].used)
  <2>1. PICK bufs : bufs = {x \in 1 .. PoolBufs : ~ pool[x].used}
    BY Zenon
  <2>2. CASE bufs = {}
    BY <1>5, <2>1, <2>2 DEF sockbuf_alloc
  <2>3. CASE bufs # {}
    <3>1. bufs \in SUBSET (1 .. PoolBufs) /\ b = Least(bufs)
      BY <1>5, <2>1, <2>3 DEF sockbuf_alloc
    <3>2. b \in bufs
      BY <2>3, <3>1, LeastIn, UdpAssumption
    <3> QED
      BY <2>1, <3>2
  <2> QED
    BY <2>2, <2>3
<1>7. PICK fl : fl = [active |-> TRUE, remote |-> remote, buf |-> b, seen |-> now]
  BY Zenon
<1>8. DOMAIN fl = FlowFields /\ fl.active = TRUE /\ fl.remote = remote /\ fl.buf = b
  BY <1>7 DEF FlowFields
<1>9. PICK e : e = [used |-> TRUE, data |-> <<>>]
  BY Zenon
<1>10. DOMAIN e = {"used", "data"} /\ e.used = TRUE /\ e.data = <<>>
  BY <1>9
<1>11. PICK p : p = IF b = 0 THEN pool ELSE [pool EXCEPT ![b] = e]
  BY Zenon
<1>12. f.slot = k /\ f.flow = fl /\ f.pool = p
  BY <1>1, <1>2, <1>3, <1>5, <1>7, <1>9, <1>11 DEF alloc_udp_flow
<1>13. /\ DOMAIN p = 1 .. PoolBufs
       /\ \A x \in 1 .. PoolBufs : x # b => p[x] = pool[x]
       /\ b # 0 => p[b] = e
  BY <1>6, <1>11 DEF PoolOK
<1>14. PoolOK(p)
  <2> SUFFICES ASSUME NEW x \in 1 .. PoolBufs
               PROVE  /\ DOMAIN p[x] = {"used", "data"} /\ p[x].used \in BOOLEAN
                      /\ p[x].data \in Seq(ArpHosts \cup Peers6)
    BY <1>13 DEF PoolOK
  <2>1. CASE x # b
    BY <1>13, <2>1 DEF PoolOK
  <2>2. CASE x = b
    <3>1. p[x] = e /\ << >> \in Seq(ArpHosts \cup Peers6)
      BY <1>13, <2>2
    <3> QED
      BY <1>10, <3>1, Zenon
  <2> QED
    BY <2>1, <2>2
<1>15. PICK u : u = [udp EXCEPT ![k] = fl]
  BY Zenon
<1>16. DOMAIN u = 1 .. UdpSlots /\ u[k] = fl
       /\ \A i \in 1 .. UdpSlots : i # k => u[i] = udp[i]
  BY <1>4, <1>15 DEF FlowsOK
<1>17. \A i \in 1 .. UdpSlots :
         udp[i].active /\ udp[i].remote # LocalIp /\ udp[i].buf # 0 => udp[i].buf # b
  BY <1>6 DEF FlowsOK, FlowOwns
<1>18. ASSUME NEW i \in 1 .. UdpSlots PROVE FlowOwns(u, p, i)
  <2>1. CASE i = k
    <3> SUFFICES ASSUME b # 0 PROVE FlowOwns(u, p, i)
      BY <1>8, <1>16, <2>1 DEF FlowOwns
    <3>1. b \in 1 .. PoolBufs /\ p[b].used /\ p[b].data = << >> /\ u[i] = fl
      BY <1>6, <1>10, <1>13, <1>16, <2>1
    <3>2. \A j \in 1 .. UdpSlots :
            u[j].active /\ u[j].remote # LocalIp /\ u[j].buf = b => j = k
      BY <1>16, <1>17
    <3>3. 1 .. Len(<< >>) = {}
      OBVIOUS
    <3> QED
      BY <1>8, <2>1, <3>1, <3>2, <3>3 DEF FlowOwns
  <2>2. CASE i # k
    <3> SUFFICES ASSUME udp[i].active, udp[i].remote # LocalIp, udp[i].buf # 0
                 PROVE  FlowOwns(u, p, i)
      BY <1>16, <2>2 DEF FlowOwns
    <3>1. FlowOwns(udp, pool, i) /\ udp[i].buf # b
      BY <1>17 DEF FlowsOK
    <3>2. udp[i].buf \in 1 .. PoolBufs /\ p[udp[i].buf] = pool[udp[i].buf]
      BY <1>13, <3>1 DEF FlowOwns
    <3>3. \A j \in 1 .. UdpSlots :
            u[j].active /\ u[j].remote # LocalIp /\ u[j].buf = udp[i].buf => j = i
      BY <1>8, <1>16, <3>1 DEF FlowOwns
    <3> QED
      BY <1>16, <2>2, <3>1, <3>2, <3>3 DEF FlowOwns
  <2> QED
    BY <2>1, <2>2
<1>19. FlowsOK(u, p)
  BY <1>8, <1>16, <1>18, Zenon DEF FlowsOK
<1> QED
  BY <1>4, <1>8, <1>12, <1>14, <1>15, <1>19

LEMMA WriteOK ==
  ASSUME NEW u, NEW p, FlowsOK(u, p), PoolOK(p), NEW s \in 1 .. UdpSlots, u[s].active,
         u[s].remote # LocalIp,
         NEW unit \in ArpHosts \cup Peers6, u[s].remote # {} => unit = u[s].remote
  PROVE  FlowsOK(u, sockbuf_write(p, u[s].buf, unit)) /\ PoolOK(sockbuf_write(p, u[s].buf, unit))
<1>1. CASE u[s].buf = 0
  BY <1>1 DEF sockbuf_write
<1>2. CASE u[s].buf # 0
  <2>1. PICK b : b = u[s].buf
    OBVIOUS
  <2>2. FlowOwns(u, p, s) /\ b \in 1 .. PoolBufs
    BY <1>2, <2>1 DEF FlowsOK, FlowOwns
  <2>3. PICK d : d = p[b].data
    OBVIOUS
  <2>4. d \in Seq(ArpHosts \cup Peers6) /\ DOMAIN p[b] = {"used", "data"} /\ DOMAIN p = 1 .. PoolBufs
    BY <2>2, <2>3 DEF PoolOK
  <2>5. PICK n : n = IF Len(d) < BufSize THEN Append(d, unit) ELSE d
    BY Zenon
  <2>6. PICK e : e = [p[b] EXCEPT !.data = n]
    BY Zenon
  <2>7. DOMAIN e = {"used", "data"} /\ e.used = p[b].used /\ e.data = n
    BY <2>4, <2>6
  <2>8. PICK q : q = [p EXCEPT ![b] = e]
    BY Zenon
  <2>9. q = sockbuf_write(p, u[s].buf, unit)
    BY <1>2, <2>1, <2>2, <2>3, <2>4, <2>5, <2>6, <2>8, Zenon DEF sockbuf_write
  <2>10. DOMAIN q = 1 .. PoolBufs /\ q[b] = e /\ \A x \in 1 .. PoolBufs : x # b => q[x] = p[x]
    BY <2>2, <2>4, <2>8
  <2>11. n \in Seq(ArpHosts \cup Peers6)
    BY <2>4, <2>5
  <2>12. PoolOK(q)
    <3> SUFFICES ASSUME NEW x \in 1 .. PoolBufs
                 PROVE  /\ DOMAIN q[x] = {"used", "data"} /\ q[x].used \in BOOLEAN
                        /\ q[x].data \in Seq(ArpHosts \cup Peers6)
      BY <2>10 DEF PoolOK
    <3>1. CASE x # b
      BY <2>10, <3>1 DEF PoolOK
    <3>2. CASE x = b
      <4>1. p[b].used \in BOOLEAN
        BY <2>2 DEF PoolOK
      <4> QED
        BY <2>7, <2>10, <2>11, <3>2, <4>1
    <3> QED
      BY <3>1, <3>2
  <2>13. u[s].remote # {} => \A k \in 1 .. Len(n) : n[k] = u[s].remote
    <3> SUFFICES ASSUME u[s].remote # {}, NEW k \in 1 .. Len(n) PROVE n[k] = u[s].remote
      OBVIOUS
    <3>1. \A m \in 1 .. Len(d) : d[m] = u[s].remote
      BY <1>2, <2>1, <2>2, <2>3 DEF FlowOwns
    <3>2. unit = u[s].remote
      OBVIOUS
    <3>3. CASE n = d
      BY <3>1, <3>3
    <3>4. CASE n = Append(d, unit)
      <4>1. Len(n) = Len(d) + 1 /\ Len(d) \in Nat
        BY <2>4, <3>4
      <4>2. CASE k = Len(d) + 1
        BY <2>4, <3>2, <3>4, <4>2
      <4>3. CASE k # Len(d) + 1
        <5>1. k \in 1 .. Len(d)
          BY <4>1, <4>3
        <5>2. n[k] = d[k]
          BY <2>4, <3>4, <5>1
        <5> QED
          BY <3>1, <5>1, <5>2
      <4> QED
        BY <4>2, <4>3
    <3> QED
      BY <2>5, <3>3, <3>4
  <2>14. ASSUME NEW i \in 1 .. UdpSlots PROVE FlowOwns(u, q, i)
    <3> SUFFICES ASSUME u[i].active, u[i].remote # LocalIp, u[i].buf # 0
                 PROVE  FlowOwns(u, q, i)
      BY DEF FlowOwns
    <3>1. FlowOwns(u, p, i)
      BY DEF FlowsOK
    <3>2. CASE i = s
      <4>1. q[u[i].buf].used /\ q[u[i].buf].data = n
        BY <2>1, <2>7, <2>10, <3>1, <3>2 DEF FlowOwns
      <4> QED
        BY <2>13, <3>1, <3>2, <4>1 DEF FlowOwns
    <3>3. CASE i # s
      <4>1. u[i].buf # b
        BY <2>1, <3>1, <3>3 DEF FlowOwns
      <4>2. q[u[i].buf] = p[u[i].buf]
        BY <2>10, <3>1, <4>1 DEF FlowOwns
      <4> QED
        BY <3>1, <4>2 DEF FlowOwns
    <3> QED
      BY <3>2, <3>3
  <2> QED
    BY <2>9, <2>12, <2>14 DEF FlowsOK
<1> QED
  BY <1>1, <1>2

UdpInv == FlowsOK(udp, pool) /\ PoolOK(pool)

LEMMA FrameOK ==
  ASSUME UdpInv, NEW remote, NEW unit \in ArpHosts \cup Peers6, remote # {} => unit = remote,
         remote # LocalIp,
         NEW f, f = alloc_udp_flow(remote), f.slot # 0,
         udp' = [udp EXCEPT ![f.slot] = f.flow],
         pool' = sockbuf_write(f.pool, f.flow.buf, unit)
  PROVE  UdpInv'
<1>1. /\ f.slot \in 1 .. UdpSlots /\ f.flow.active /\ f.flow.remote = remote
      /\ FlowsOK(udp', f.pool) /\ PoolOK(f.pool)
  BY AllocFound, AllocMade, Zenon DEF UdpInv
<1>2. udp'[f.slot] = f.flow
  BY <1>1 DEF UdpInv, FlowsOK
<1>3. PICK u, p, s : u = udp' /\ p = f.pool /\ s = f.slot
  OBVIOUS
<1>4. /\ FlowsOK(u, p) /\ PoolOK(p) /\ s \in 1 .. UdpSlots /\ u[s].active
      /\ u[s].remote # LocalIp
      /\ u[s].remote # {} => unit = u[s].remote
  BY <1>1, <1>2, <1>3
<1>5. FlowsOK(u, sockbuf_write(p, u[s].buf, unit)) /\ PoolOK(sockbuf_write(p, u[s].buf, unit))
  BY <1>4, WriteOK
<1>6. pool' = sockbuf_write(p, u[s].buf, unit)
  BY <1>2, <1>3
<1> QED
  BY <1>3, <1>5, <1>6 DEF UdpInv

LEMMA UdpInit ==
  ASSUME TablesInit PROVE UdpInv
<1>1. DOMAIN NoFlow = FlowFields /\ NoFlow.active = FALSE
  BY DEF NoFlow, FlowFields
<1>2. FlowsOK(udp, pool)
  <2>1. PICK l : l = [active |-> TRUE, remote |-> LocalIp, buf |-> 2, seen |-> 0]
    BY Zenon
  <2>2. DOMAIN l = FlowFields /\ l.active = TRUE /\ l.remote = LocalIp
    BY <2>1 DEF FlowFields
  <2>3. DOMAIN udp = 1 .. UdpSlots /\ \A i \in 1 .. UdpSlots : udp[i] \in {l, NoFlow}
    BY <2>1 DEF TablesInit, network_stack_self_test
  <2> QED
    BY <1>1, <2>2, <2>3, Zenon DEF FlowsOK, FlowOwns
<1>3. PICK e : e = [used |-> FALSE, data |-> << >>]
  BY Zenon
<1>4. DOMAIN e = {"used", "data"} /\ e.used = FALSE /\ e.data \in Seq(ArpHosts \cup Peers6)
  BY <1>3
<1>5. DOMAIN pool = 1 .. PoolBufs /\ \A b \in 1 .. PoolBufs : pool[b] = e
  BY <1>3 DEF TablesInit, sockbuf_pool_init
<1> QED
  BY <1>2, <1>4, <1>5, Zenon DEF UdpInv, PoolOK

LEMMA UdpNext ==
  ASSUME UdpInv, [TablesNext]_tableVars PROVE UdpInv'
<1>1. ASSUME UNCHANGED <<udp, pool>> PROVE UdpInv'
  BY <1>1 DEF UdpInv, FlowsOK, FlowOwns, PoolOK
<1>2. CASE network_stack_process_udp_frame
  <2>1. PICK peer \in ArpHosts \ {LocalIp} :
          /\ alloc_udp_flow(peer).slot # 0
          /\ udp' = [udp EXCEPT ![alloc_udp_flow(peer).slot] = alloc_udp_flow(peer).flow]
          /\ pool' = sockbuf_write(alloc_udp_flow(peer).pool, alloc_udp_flow(peer).flow.buf, peer)
    BY <1>2, Zenon DEF network_stack_process_udp_frame
  <2>2. PICK f : f = alloc_udp_flow(peer)
    OBVIOUS
  <2> QED
    BY <2>1, <2>2, FrameOK, Zenon
<1>3. CASE network_stack_process_udp_frame_v6
  <2>1. PICK peer \in Peers6 :
          /\ alloc_udp_flow({}).slot # 0
          /\ udp' = [udp EXCEPT ![alloc_udp_flow({}).slot] = alloc_udp_flow({}).flow]
          /\ pool' = sockbuf_write(alloc_udp_flow({}).pool, alloc_udp_flow({}).flow.buf, peer)
    BY <1>3 DEF network_stack_process_udp_frame_v6
  <2>2. PICK f : f = alloc_udp_flow({})
    OBVIOUS
  <2>3. {} # LocalIp
    BY ArpAssumption
  <2> QED
    BY <2>1, <2>2, <2>3, FrameOK, Zenon
<1>4. CASE network_stack_expire_udp_flows
  <2>1. DOMAIN NoFlow = FlowFields /\ NoFlow.active = FALSE
    BY DEF NoFlow, FlowFields
  <2>2. pool' = pool /\ DOMAIN udp' = 1 .. UdpSlots
        /\ \A i \in 1 .. UdpSlots : udp'[i] = NoFlow \/ udp'[i] = udp[i]
    BY <1>4 DEF network_stack_expire_udp_flows
  <2>3. ASSUME NEW i \in 1 .. UdpSlots
        PROVE  DOMAIN udp'[i] = FlowFields /\ udp'[i].active \in BOOLEAN
               /\ (udp'[i].active => udp'[i] = udp[i] /\ udp[i].active)
    BY <2>1, <2>2, Zenon DEF UdpInv, FlowsOK
  <2>4. ASSUME NEW i \in 1 .. UdpSlots PROVE FlowOwns(udp', pool', i)
    <3>1. FlowOwns(udp, pool, i)
      BY DEF UdpInv, FlowsOK
    <3> QED
      BY <2>2, <2>3, <3>1 DEF FlowOwns
  <2>5. PoolOK(pool')
    BY <2>2 DEF UdpInv
  <2> QED
    BY <2>2, <2>3, <2>4, <2>5 DEF UdpInv, FlowsOK
<1>5. CASE network_poll_tick
  BY <1>1, <1>2, <1>3, <1>5 DEF network_poll_tick, udpVars
<1>6. CASE UdpStep
  BY <1>1, <1>4, <1>6 DEF UdpStep, network_stack_udp_send
<1>7. CASE TablesNext
  BY <1>1, <1>5, <1>6, <1>7 DEF TablesNext, udpVars
<1> QED
  BY <1>1, <1>7 DEF tableVars, udpVars

(***************************************************************************)
(* BufferIsOwn for any number of flows and buffers of any size, whatever   *)
(* was received, sent and expired: an IPv4 flow's buffer holds only its    *)
(* own peer's datagrams (alloc_udp_flow, sockbuf_alloc, sockbuf_write,     *)
(* network_stack_expire_udp_flows).                                        *)
(***************************************************************************)
THEOREM FlowBuffersOwn == TablesSpec => []BufferIsOwn
<1>1. TablesInit => UdpInv
  BY UdpInit
<1>2. UdpInv /\ [TablesNext]_tableVars => UdpInv'
  BY UdpNext
<1>3. UdpInv => BufferIsOwn
  BY DEF UdpInv, FlowsOK, FlowOwns, BufferIsOwn
<1> QED
  BY <1>1, <1>2, <1>3, PTL DEF TablesSpec

=============================================================================
