-------------------------- MODULE NetLimitsProofs ---------------------------
(***************************************************************************)
(* Theorems about the IPv6 neighbour cache and the token buckets, for any  *)
(* number of entries, hosts, cells and any limits.                         *)
(***************************************************************************)
EXTENDS NetTables, WellFoundedInduction, TLAPS

USE SMTT(60), ZenonT(30)

(* The first of a set of entries.                                          *)
LEMMA LeastNat ==
  ASSUME NEW T \in SUBSET Nat, T # {}
  PROVE  \E n \in T : \A m \in T : n <= m
<1>1. PICK n \in T : \A m \in T : ~(<<m, n>> \in OpToRel(<, Nat))
  BY NatLessThanWellFounded, WFMin, Zenon
<1>2. \A m \in T : ~(m < n)
  BY <1>1, Zenon DEF OpToRel
<1> QED
  BY <1>2

LEMMA FirstIn ==
  ASSUME NEW N \in Nat, NEW S \in SUBSET (1 .. N), S # {}
  PROVE  First(S) \in S
<1>1. \E n \in S : \A m \in S : n <= m
  BY LeastNat
<1> QED
  BY <1>1, Zenon DEF First

-----------------------------------------------------------------------------
(* The neighbour cache.                                                    *)
NeighbourFields == {"active", "ip", "mac", "nud", "stamp", "last", "insert", "probes"}

\* What holds of an entry at the tick's time t.
EntryOK(e, tl, t) ==
  /\ DOMAIN e = NeighbourFields /\ e.active \in BOOLEAN /\ e.stamp \in Nat
  /\ e.active => /\ e.ip \in NdpHosts \cup {Tentative} /\ e.mac = tl[e.ip] /\ e.stamp <= t
                 /\ e.nud = "REACHABLE" => t - e.stamp < ReachableTime

OneEntry(c) ==
  \A i, j \in 1 .. NdpSlots : c[i].active /\ c[j].active /\ c[i].ip = c[j].ip => i = j

NdpOK(c, tl, t) ==
  /\ DOMAIN c = 1 .. NdpSlots /\ DOMAIN tl = NdpHosts \cup {Tentative}
  /\ \A i \in 1 .. NdpSlots : EntryOK(c[i], tl, t)
  /\ OneEntry(c)

NdpInv ==
  /\ now \in Nat /\ ndpTick \in Nat /\ ndpTick <= now
  /\ NdpOK(ndp, ndpTold, ndpTick)

\* The entry of a neighbour that has just announced itself.
Announces(r, ip, mac) ==
  /\ DOMAIN r = NeighbourFields /\ r.active = TRUE /\ r.ip = ip /\ r.mac = mac
  /\ r.nud = "REACHABLE" /\ r.stamp = ndpTick

LEMMA ReachableFields ==
  ASSUME NEW e, DOMAIN e = NeighbourFields, NEW ip, NEW mac
  PROVE  Announces(Reachable(e, ip, mac), ip, mac)
<1>1. PICK r : r = Reachable(e, ip, mac)
  OBVIOUS
<1>2. Announces(r, ip, mac)
  BY <1>1 DEF Reachable, NeighbourFields, Announces
<1> QED
  BY <1>1, <1>2

LEMMA NdpInsertOK ==
  ASSUME NdpInv, NEW ip \in NdpHosts \cup {Tentative}, NEW mac
  PROVE  NdpOK(ndp_cache_insert(ndp, ip, mac), [ndpTold EXCEPT ![ip] = mac], ndpTick)
<1>1. PICK own : own = Neighbour(ndp, ip)
  OBVIOUS
<1>2. \E k, r : /\ ndp_cache_insert(ndp, ip, mac) = [ndp EXCEPT ![k] = r]
                /\ \A i \in 1 .. NdpSlots : ndp[i].active /\ ndp[i].ip = ip => i = k
                /\ Announces(r, ip, mac)
  <2>1. CASE own # {}
    <3>1. PICK k : k = First(own)
      OBVIOUS
    <3>2. own \in SUBSET (1 .. NdpSlots)
      BY <1>1 DEF Neighbour
    <3>3. k \in own
      BY <2>1, <3>1, <3>2, FirstIn, NdpAssumption
    <3>4. k \in 1 .. NdpSlots /\ ndp[k].active /\ ndp[k].ip = ip
      BY <1>1, <3>3 DEF Neighbour
    <3>5. PICK r : r = Reachable(ndp[k], ip, mac)
      OBVIOUS
    <3>6. DOMAIN ndp[k] = NeighbourFields
      BY <3>4 DEF NdpInv, NdpOK, EntryOK
    <3>7. Announces(r, ip, mac)
      BY <3>5, <3>6, ReachableFields
    <3>8. ndp_cache_insert(ndp, ip, mac) = [ndp EXCEPT ![k] = r]
      BY <1>1, <2>1, <3>1, <3>4, <3>5 DEF ndp_cache_insert, NdpInv, NdpOK
    <3>9. \A i \in 1 .. NdpSlots : ndp[i].active /\ ndp[i].ip = ip => i = k
      BY <3>4 DEF NdpInv, NdpOK, OneEntry
    <3> QED
      BY <3>7, <3>8, <3>9, Zenon
  <2>2. CASE own = {}
    <3>1. PICK e : e = [expire_entry EXCEPT !.insert = ndpTick]
      BY Zenon
    <3>2. DOMAIN e = NeighbourFields
      BY <3>1 DEF expire_entry, NoNeighbour, NeighbourFields
    <3>3. PICK r : r = Reachable(e, ip, mac)
      OBVIOUS
    <3>4. Announces(r, ip, mac)
      BY <3>2, <3>3, ReachableFields
    <3>5. PICK k : ndp_cache_insert(ndp, ip, mac) = [ndp EXCEPT ![k] = r]
      BY <1>1, <2>2, <3>1, <3>3, Zenon DEF ndp_cache_insert
    <3>6. \A i \in 1 .. NdpSlots : ndp[i].active /\ ndp[i].ip = ip => i = k
      BY <1>1, <2>2 DEF Neighbour
    <3> QED
      BY <3>4, <3>5, <3>6, Zenon
  <2> QED
    BY <2>1, <2>2
<1>3. PICK k, r : /\ ndp_cache_insert(ndp, ip, mac) = [ndp EXCEPT ![k] = r]
                  /\ \A i \in 1 .. NdpSlots : ndp[i].active /\ ndp[i].ip = ip => i = k
                  /\ Announces(r, ip, mac)
  BY <1>2, Zenon
<1>4. PICK c, tl : c = [ndp EXCEPT ![k] = r] /\ tl = [ndpTold EXCEPT ![ip] = mac]
  BY Zenon
<1>5. /\ DOMAIN c = 1 .. NdpSlots /\ DOMAIN tl = NdpHosts \cup {Tentative} /\ tl[ip] = mac
      /\ \A a \in NdpHosts \cup {Tentative} : a # ip => tl[a] = ndpTold[a]
      /\ \A i \in 1 .. NdpSlots : c[i] = IF i = k THEN r ELSE ndp[i]
  BY <1>4 DEF NdpInv, NdpOK
<1>6. EntryOK(r, tl, ndpTick)
  <2>1. ndpTick \in Nat /\ ndpTick - ndpTick < ReachableTime
    BY NdpAssumption DEF NdpInv
  <2>2. r.stamp = ndpTick /\ r.ip = ip /\ r.mac = mac /\ DOMAIN r = NeighbourFields
        /\ r.active = TRUE
    BY <1>3 DEF Announces
  <2>3. r.stamp \in Nat /\ r.stamp <= ndpTick /\ ndpTick - r.stamp < ReachableTime
    BY <2>1, <2>2
  <2>4. r.mac = tl[r.ip] /\ r.ip \in NdpHosts \cup {Tentative}
    BY <1>5, <2>2
  <2> QED
    BY <2>2, <2>3, <2>4, Zenon DEF EntryOK
<1>7. ASSUME NEW i \in 1 .. NdpSlots, i # k PROVE EntryOK(ndp[i], tl, ndpTick)
  BY <1>3, <1>5, <1>7 DEF EntryOK, NdpInv, NdpOK
<1>8. OneEntry(c)
  BY <1>3, <1>5 DEF OneEntry, Announces, NdpInv, NdpOK
<1>9. NdpOK(c, tl, ndpTick)
  BY <1>5, <1>6, <1>7, <1>8 DEF NdpOK
<1> QED
  BY <1>3, <1>4, <1>9

\* What a step may do to one entry and the tick's time.
LEMMA EntryReplaced ==
  ASSUME NEW c, NEW tl, NEW t, NdpOK(c, tl, t), NEW d, NEW s, DOMAIN d = 1 .. NdpSlots,
         \A i \in 1 .. NdpSlots :
            EntryOK(d[i], tl, s) /\ (d[i].active => c[i].active /\ d[i].ip = c[i].ip)
  PROVE  NdpOK(d, tl, s)
<1>1. OneEntry(d)
  BY DEF NdpOK, OneEntry
<1> QED
  BY <1>1 DEF NdpOK

LEMMA LookupKeeps ==
  ASSUME NdpInv, NEW k, ndp' = [ndp EXCEPT ![k] = Used(ndp[k])]
  PROVE  NdpOK(ndp', ndpTold, ndpTick)
<1>1. CASE k \notin 1 .. NdpSlots
  BY <1>1 DEF NdpInv, NdpOK, OneEntry
<1>2. CASE k \in 1 .. NdpSlots
  <2>1. PICK e, r : e = ndp[k] /\ r = Used(e)
    OBVIOUS
  <2>2. EntryOK(e, ndpTold, ndpTick) /\ ndpTick \in Nat
    BY <1>2, <2>1 DEF NdpInv, NdpOK
  <2>3. /\ DOMAIN r = NeighbourFields /\ r.active = e.active /\ r.ip = e.ip /\ r.mac = e.mac
        /\ r.nud = "REACHABLE" => e.nud = "REACHABLE"
        /\ r.stamp = ndpTick \/ r.stamp = e.stamp
    BY <2>1, <2>2 DEF Used, EntryOK, NeighbourFields
  <2>4. r.stamp \in Nat /\ (r.active => r.stamp <= ndpTick)
        /\ (r.active /\ r.nud = "REACHABLE" => ndpTick - r.stamp < ReachableTime)
    BY <2>2, <2>3, NdpAssumption DEF EntryOK
  <2>5. EntryOK(r, ndpTold, ndpTick)
    BY <2>2, <2>3, <2>4 DEF EntryOK
  <2>6. DOMAIN ndp' = 1 .. NdpSlots
        /\ \A i \in 1 .. NdpSlots : ndp'[i] = IF i = k THEN r ELSE ndp[i]
    BY <2>1 DEF NdpInv, NdpOK
  <2>7. PICK d : d = ndp'
    OBVIOUS
  <2>8. \A i \in 1 .. NdpSlots : /\ EntryOK(d[i], ndpTold, ndpTick)
                                 /\ d[i].active => ndp[i].active /\ d[i].ip = ndp[i].ip
    BY <2>1, <2>3, <2>5, <2>6, <2>7 DEF NdpInv, NdpOK
  <2>9. NdpOK(ndp, ndpTold, ndpTick)
    BY DEF NdpInv
  <2> QED
    BY <2>6, <2>7, <2>8, <2>9, EntryReplaced, Zenon
<1> QED
  BY <1>1, <1>2

LEMMA FreeEntry ==
  ASSUME NEW e, e = NoNeighbour, NEW tl, NEW t
  PROVE  EntryOK(e, tl, t) /\ e.active = FALSE
<1>1. DOMAIN e = NeighbourFields /\ e.active = FALSE /\ e.stamp = 0
  BY DEF NoNeighbour, NeighbourFields
<1>2. e.stamp \in Nat
  BY <1>1
<1>3. e.active \in BOOLEAN /\ ~ e.active
  BY <1>1, Zenon
<1>4. EntryOK(e, tl, t)
  BY <1>1, <1>2, <1>3, Zenon DEF EntryOK
<1> QED
  BY <1>1, <1>4

LEMMA TickEntry ==
  ASSUME NEW e, NEW tl, NEW t \in Nat, EntryOK(e, tl, t), now \in Nat, t <= now
  PROVE  /\ EntryOK(ProbeStep(ndp_cache_age(e)), tl, now)
         /\ ProbeStep(ndp_cache_age(e)).active
              => e.active /\ ProbeStep(ndp_cache_age(e)).ip = e.ip
<1>1. PICK a : a = ndp_cache_age(e)
  OBVIOUS
<1>2. DOMAIN e = NeighbourFields /\ e.active \in BOOLEAN /\ e.stamp \in Nat
      /\ (e.active => e.stamp <= now)
  BY DEF EntryOK
<1>4. EntryOK(a, tl, now) /\ (a.active => e.active /\ a.ip = e.ip)
  <2>1. CASE e.active /\ e.nud = "REACHABLE" /\ now - e.stamp >= ReachableTime
    <3>1. a = [e EXCEPT !.nud = "STALE"]
      BY <1>1, <2>1 DEF ndp_cache_age
    <3>2. /\ DOMAIN a = NeighbourFields /\ a.active = e.active /\ a.ip = e.ip /\ a.mac = e.mac
          /\ a.stamp = e.stamp /\ a.nud = "STALE"
      BY <1>2, <3>1 DEF NeighbourFields
    <3>3. a.stamp \in Nat /\ (a.active => a.stamp <= now)
      BY <1>2, <3>2
    <3> QED
      BY <1>2, <3>2, <3>3 DEF EntryOK
  <2>2. CASE a = NoNeighbour
    BY <2>2, FreeEntry, Zenon
  <2>3. CASE ~ (e.active /\ e.nud = "REACHABLE" /\ now - e.stamp >= ReachableTime) /\ a = e
    <3>1. e.active /\ e.nud = "REACHABLE" => now - e.stamp < ReachableTime
      BY <1>2, <2>3, NdpAssumption
    <3> QED
      BY <1>2, <2>3, <3>1 DEF EntryOK
  <2> QED
    BY <1>1, <2>1, <2>2, <2>3 DEF ndp_cache_age, expire_entry
<1>5. PICK p : p = ProbeStep(a)
  OBVIOUS
<1>6. EntryOK(p, tl, now) /\ (p.active => a.active /\ p.ip = a.ip)
  <2>1. CASE p = [a EXCEPT !.nud = "PROBE", !.stamp = now, !.probes = 0]
    <3>1. DOMAIN a = NeighbourFields /\ a.active \in BOOLEAN
      BY <1>4 DEF EntryOK
    <3>2. /\ DOMAIN p = NeighbourFields /\ p.active = a.active /\ p.ip = a.ip /\ p.mac = a.mac
          /\ p.stamp = now /\ p.nud = "PROBE"
      BY <2>1, <3>1 DEF NeighbourFields
    <3> QED
      BY <1>4, <3>2 DEF EntryOK
  <2>2. CASE p = [a EXCEPT !.nud = "INCOMPLETE"]
    <3>1. DOMAIN a = NeighbourFields /\ a.active \in BOOLEAN
      BY <1>4 DEF EntryOK
    <3>2. /\ DOMAIN p = NeighbourFields /\ p.active = a.active /\ p.ip = a.ip /\ p.mac = a.mac
          /\ p.stamp = a.stamp /\ p.nud = "INCOMPLETE"
      BY <2>2, <3>1 DEF NeighbourFields
    <3> QED
      BY <1>4, <3>2 DEF EntryOK
  <2>3. CASE p = a
    BY <1>4, <2>3
  <2> QED
    BY <1>5, <2>1, <2>2, <2>3 DEF ProbeStep
<1> QED
  BY <1>1, <1>4, <1>5, <1>6

LEMMA NdpInit ==
  ASSUME TablesInit PROVE NdpInv
<1>1. \A i \in 1 .. NdpSlots : ndp[i] = NoNeighbour
  BY DEF TablesInit, ndp_init
<1>2. \A i \in 1 .. NdpSlots : EntryOK(ndp[i], ndpTold, ndpTick) /\ ndp[i].active = FALSE
  BY <1>1, FreeEntry, Zenon
<1>3. OneEntry(ndp)
  BY <1>2 DEF OneEntry
<1> QED
  BY <1>2, <1>3 DEF TablesInit, ndp_init, timer_init, NdpInv, NdpOK

LEMMA NdpNext ==
  ASSUME NdpInv, [TablesNext]_tableVars PROVE NdpInv'
<1>1. ASSUME UNCHANGED <<ndp, ndpTick, ndpTold>>, now' = now \/ now' = now + 1 PROVE NdpInv'
  <2>1. now' \in Nat /\ ndpTick <= now'
    BY <1>1 DEF NdpInv
  <2>2. NdpOK(ndp', ndpTold', ndpTick')
    BY <1>1 DEF NdpInv
  <2> QED
    BY <1>1, <2>1, <2>2 DEF NdpInv
<1>2. ASSUME NEW ip \in NdpHosts \cup {Tentative}, NEW mac, Announced(ip, mac),
             UNCHANGED <<ndpTick, now>>
      PROVE  NdpInv'
  <2>1. NdpOK(ndp', ndpTold', ndpTick)
    BY <1>2, NdpInsertOK, Zenon DEF Announced
  <2> QED
    BY <1>2, <2>1 DEF NdpInv
<1>3. ASSUME ndp_cache_lookup, UNCHANGED now PROVE NdpInv'
  <2>1. PICK k : ndp' = [ndp EXCEPT ![k] = Used(ndp[k])]
    BY <1>3, Zenon DEF ndp_cache_lookup
  <2>2. NdpOK(ndp', ndpTold, ndpTick)
    BY <2>1, LookupKeeps, Zenon
  <2> QED
    BY <1>3, <2>2 DEF NdpInv, ndp_cache_lookup
<1>4. ASSUME ndp_nud_tick, UNCHANGED now PROVE NdpInv'
  <2>1. PICK d : d = ndp'
    OBVIOUS
  <2>2. DOMAIN d = 1 .. NdpSlots
        /\ \A i \in 1 .. NdpSlots : d[i] = ProbeStep(ndp_cache_age(ndp[i]))
    BY <1>4, <2>1 DEF ndp_nud_tick
  <2>3. ASSUME NEW i \in 1 .. NdpSlots
        PROVE  EntryOK(d[i], ndpTold, now) /\ (d[i].active => ndp[i].active /\ d[i].ip = ndp[i].ip)
    <3>1. EntryOK(ndp[i], ndpTold, ndpTick) /\ now \in Nat /\ ndpTick \in Nat /\ ndpTick <= now
      BY DEF NdpInv, NdpOK
    <3> QED
      BY <2>2, <3>1, TickEntry
  <2>4. NdpOK(d, ndpTold, now)
    <3>1. NdpOK(ndp, ndpTold, ndpTick)
      BY DEF NdpInv
    <3> QED
      BY <2>2, <2>3, <3>1, EntryReplaced, Zenon
  <2> QED
    BY <1>4, <2>1, <2>4 DEF NdpInv, ndp_nud_tick
<1>5. CASE network_poll_tick /\ UNCHANGED now
  <2>1. CASE ndp_process_neighbor_advertisement
    BY <1>1, <1>2, <1>5, <2>1 DEF ndp_process_neighbor_advertisement
  <2>2. CASE ~ ndp_process_neighbor_advertisement
    BY <1>1, <1>5, <2>2 DEF network_poll_tick, ndpVars
  <2> QED
    BY <2>1, <2>2
<1>6. CASE NdpStep /\ UNCHANGED now
  <2>1. CASE ndp_process_neighbor_solicitation
    BY <1>2, <1>6, <2>1 DEF ndp_process_neighbor_solicitation
  <2>2. CASE ndp_process_router_advertisement
    BY <1>1, <1>2, <1>6, <2>2 DEF ndp_process_router_advertisement
  <2>3. CASE ndp_dad_init \/ ndp_dad_tick
    BY <1>1, <1>6, <2>3 DEF ndp_dad_init, ndp_dad_tick
  <2> QED
    BY <1>3, <1>4, <1>6, <2>1, <2>2, <2>3 DEF NdpStep
<1>7. CASE TablesNext
  BY <1>1, <1>5, <1>6, <1>7 DEF TablesNext, TimePasses, ndpVars
<1> QED
  BY <1>1, <1>7 DEF tableVars, ndpVars

(***************************************************************************)
(* NeighboursFresh for any cache and any times: a neighbour has one entry, *)
(* with the MAC it announced last, and one called REACHABLE was announced  *)
(* or used within the reachable time (ndp_cache_insert, ndp_cache_lookup,  *)
(* ndp_cache_age, ndp_nud_tick).                                           *)
(***************************************************************************)
THEOREM NeighboursStayFresh == TablesSpec => []NeighboursFresh
<1>1. TablesInit => NdpInv
  BY NdpInit
<1>2. NdpInv /\ [TablesNext]_tableVars => NdpInv'
  BY NdpNext
<1>3. NdpInv => NeighboursFresh
  <2> SUFFICES ASSUME NdpInv, NEW i \in 1 .. NdpSlots, ndp[i].active
               PROVE  /\ Neighbour(ndp, ndp[i].ip) = {i}
                      /\ ndp[i].mac = ndpTold[ndp[i].ip]
                      /\ ndp[i].nud = "REACHABLE" => ndpTick - ndp[i].stamp < ReachableTime
    BY DEF NeighboursFresh
  <2>1. Neighbour(ndp, ndp[i].ip) = {i}
    BY DEF NdpInv, NdpOK, OneEntry, Neighbour
  <2> QED
    BY <2>1 DEF NdpInv, NdpOK, EntryOK
<1> QED
  BY <1>1, <1>2, <1>3, PTL DEF TablesSpec

-----------------------------------------------------------------------------
(* Rate limits: products.                                                  *)
LEMMA Distributes ==
  ASSUME NEW a \in Int, NEW b \in Int, NEW c \in Int
  PROVE  /\ (a + b) * c = a * c + b * c /\ c * (a + b) = c * a + c * b
         /\ (a - b) * c = a * c - b * c /\ c * (a - b) = c * a - c * b
  OBVIOUS

LEMMA Monotone ==
  ASSUME NEW a \in Nat, NEW b \in Nat, NEW c \in Nat, a <= b
  PROVE  a * c <= b * c /\ c * a <= c * b
  OBVIOUS

LEMMA WordBelow ==
  ASSUME NEW x \in Nat, NEW w \in Nat \ {0}
  PROVE  x % w \in Nat /\ x % w <= x
  OBVIOUS

LEMMA WholeBelow ==
  ASSUME NEW x \in Nat, NEW s \in Nat \ {0}
  PROVE  x \div s \in Nat /\ (x \div s) * s <= x
  OBVIOUS

LimitOK(l) ==
  /\ DOMAIN l = {"active", "cap", "rate", "memory", "used"}
  /\ l.cap \in Nat /\ l.rate \in Nat /\ l.memory \in Nat /\ l.used \in Nat
  /\ l.used <= l.memory

\* What a bucket has let through and still holds, against what it earned up
\* to its last refill.
Earned(cap, rate, tokens, last, admitted, created) ==
  (admitted + tokens) * Second <= cap * Second + rate * (last - created)

BucketOK(l, b, g) ==
  /\ DOMAIN b = {"tokens", "last"} /\ DOMAIN g = {"admitted", "created"}
  /\ b.tokens \in Nat /\ b.last \in Nat /\ g.admitted \in Nat /\ g.created \in Nat
  /\ g.created <= b.last /\ b.last <= now
  /\ Earned(l.cap, l.rate, b.tokens, b.last, g.admitted, g.created)

RateInv ==
  /\ now \in Nat
  /\ DOMAIN limit = Cells /\ DOMAIN bucket = Cells \X Buckets /\ DOMAIN grant = Cells \X Buckets
  /\ \A c \in Cells : LimitOK(limit[c])
  /\ \A c \in Cells, k \in Buckets : BucketOK(limit[c], bucket[<<c, k>>], grant[<<c, k>>])

LEMMA RefillEarned ==
  ASSUME NEW cap \in Nat, NEW rate \in Nat, NEW tokens \in Nat, NEW last \in Nat,
         NEW admitted \in Nat, NEW created \in Nat, NEW t \in Nat, created <= last, last <= t,
         Earned(cap, rate, tokens, last, admitted, created),
         NEW new, new = (((t - last) * rate) % Word) \div Second,
         NEW sum \in Nat, sum <= tokens + new
  PROVE  new \in Nat /\ Earned(cap, rate, sum, t, admitted, created)
<1>1. PICK x : x = (t - last) * rate
  OBVIOUS
<1>2. x \in Nat
  <2>1. t - last \in Nat
    OBVIOUS
  <2> QED
    BY <1>1, <2>1
<1>3. PICK y : y = x % Word
  OBVIOUS
<1>4. y \in Nat /\ y <= x
  BY <1>2, <1>3, WordBelow, RateAssumption
<1>5. new \in Nat /\ new * Second <= y
  BY <1>1, <1>3, <1>4, WholeBelow, RateAssumption
<1>6. (admitted + sum) * Second <= (admitted + tokens + new) * Second
  <2>1. admitted + sum \in Nat /\ admitted + tokens + new \in Nat /\ Second \in Nat
        /\ admitted + sum <= admitted + tokens + new
    BY <1>5, RateAssumption
  <2> QED
    BY <2>1, Monotone
<1>7. (admitted + tokens + new) * Second = (admitted + tokens) * Second + new * Second
  <2>1. admitted + tokens \in Int /\ new \in Int /\ Second \in Int
    BY <1>5, RateAssumption
  <2> QED
    BY <2>1, Distributes
<1>8. rate * (t - created) = rate * (last - created) + x
  <2>1. rate * ((last - created) + (t - last)) = rate * (last - created) + rate * (t - last)
    <3>1. last - created \in Int /\ t - last \in Int /\ rate \in Int
      OBVIOUS
    <3> QED
      BY <3>1, Distributes
  <2>2. (last - created) + (t - last) = t - created /\ rate * (t - last) = x
    BY <1>1
  <2> QED
    BY <2>1, <2>2
<1>9. PICK p, q, r, u, v, w :
          /\ p = (admitted + sum) * Second /\ q = (admitted + tokens) * Second
          /\ r = new * Second /\ u = cap * Second /\ v = rate * (last - created)
          /\ w = rate * (t - created)
  OBVIOUS
<1>10. p \in Int /\ q \in Int /\ r \in Int /\ u \in Int /\ v \in Int /\ w \in Int
  BY <1>5, <1>9, RateAssumption
<1>11. p <= q + r /\ r <= x /\ q <= u + v /\ w = v + x
  <2>1. p <= q + r
    BY <1>6, <1>7, <1>9
  <2>2. r <= y
    BY <1>5, <1>9
  <2>3. r <= x
    BY <1>2, <1>4, <1>10, <2>2
  <2>4. q <= u + v
    BY <1>9 DEF Earned
  <2>5. w = v + x
    BY <1>8, <1>9
  <2> QED
    BY <2>1, <2>3, <2>4, <2>5
<1>12. p <= u + w
  BY <1>2, <1>10, <1>11
<1> QED
  BY <1>5, <1>9, <1>12 DEF Earned

LEMMA RefillOK ==
  ASSUME NEW l, LimitOK(l), NEW b, NEW g, BucketOK(l, b, g), now \in Nat,
         NEW f, f = bucket_refill(b, l)
  PROVE  BucketOK(l, f, g)
<1>1. PICK new : new = (((now - b.last) * l.rate) % Word) \div Second
  OBVIOUS
<1>2. CASE now <= b.last \/ new = 0
  <2>1. f = b
    BY <1>1, <1>2 DEF bucket_refill
  <2> QED
    BY <2>1
<1>3. CASE ~ (now <= b.last \/ new = 0)
  <2>0. PICK total : total = (b.tokens + new) % Word
    OBVIOUS
  <2>1. PICK sum : sum = IF total > l.cap THEN l.cap ELSE total
    OBVIOUS
  <2>2. f = [tokens |-> sum, last |-> now]
    BY <1>1, <1>3, <2>0, <2>1 DEF bucket_refill
  <2>3. /\ l.cap \in Nat /\ l.rate \in Nat /\ b.tokens \in Nat /\ b.last \in Nat
        /\ g.admitted \in Nat /\ g.created \in Nat /\ g.created <= b.last /\ b.last <= now
        /\ Earned(l.cap, l.rate, b.tokens, b.last, g.admitted, g.created)
    BY DEF LimitOK, BucketOK
  <2>4. new \in Nat
    <3>1. now - b.last \in Nat
      BY <2>3
    <3>2. (now - b.last) * l.rate \in Nat
      BY <2>3, <3>1
    <3>3. ((now - b.last) * l.rate) % Word \in Nat
      BY <3>2, WordBelow, RateAssumption
    <3> QED
      BY <1>1, <3>3, WholeBelow, RateAssumption
  <2>5. sum \in Nat /\ sum <= b.tokens + new
    <3>1. b.tokens + new \in Nat
      BY <2>3, <2>4
    <3>2. total \in Nat /\ total <= b.tokens + new
      BY <2>0, <3>1, WordBelow, RateAssumption
    <3> QED
      BY <2>1, <2>3, <3>1, <3>2
  <2>6. Earned(l.cap, l.rate, sum, now, g.admitted, g.created)
    BY <1>1, <2>3, <2>5, RefillEarned, Zenon
  <2>7. DOMAIN f = {"tokens", "last"} /\ f.tokens = sum /\ f.last = now
    BY <2>2
  <2>8. g.created <= now
    BY <2>3
  <2> QED
    BY <2>3, <2>5, <2>6, <2>7, <2>8 DEF BucketOK
<1> QED
  BY <1>2, <1>3

LEMMA ConsumeOK ==
  ASSUME NEW l, LimitOK(l), NEW b, NEW g, BucketOK(l, b, g), now \in Nat, NEW n \in Nat,
         b.tokens >= n
  PROVE  BucketOK(l, [b EXCEPT !.tokens = @ - n], [g EXCEPT !.admitted = @ + n])
<1>1. PICK c, h : c = [b EXCEPT !.tokens = @ - n] /\ h = [g EXCEPT !.admitted = @ + n]
  BY Zenon
<1>2. DOMAIN b = {"tokens", "last"} /\ DOMAIN g = {"admitted", "created"}
  BY DEF BucketOK
<1>3. /\ DOMAIN c = {"tokens", "last"} /\ DOMAIN h = {"admitted", "created"}
      /\ c.tokens = b.tokens - n /\ c.last = b.last
      /\ h.admitted = g.admitted + n /\ h.created = g.created
  BY <1>1, <1>2
<1>4. b.tokens \in Nat /\ g.admitted \in Nat
  BY DEF BucketOK
<1>5. c.tokens \in Nat /\ h.admitted \in Nat /\ h.admitted + c.tokens = g.admitted + b.tokens
  BY <1>3, <1>4
<1>6. Earned(l.cap, l.rate, c.tokens, c.last, h.admitted, h.created)
  BY <1>3, <1>5 DEF Earned, BucketOK
<1>7. BucketOK(l, c, h)
  BY <1>3, <1>5, <1>6 DEF BucketOK
<1> QED
  BY <1>1, <1>7

LEMMA RateInit ==
  ASSUME TablesInit PROVE RateInv
<1>1. /\ DOMAIN NoLimits = {"active", "cap", "rate", "memory", "used"}
      /\ NoLimits.cap = 0 /\ NoLimits.rate = 0 /\ NoLimits.memory = 0 /\ NoLimits.used = 0
  BY DEF NoLimits
<1>2. LimitOK(NoLimits)
  BY <1>1 DEF LimitOK
<1>3. PICK b, g : b = [tokens |-> 0, last |-> 0] /\ g = [admitted |-> 0, created |-> 0]
  BY Zenon
<1>4. /\ DOMAIN b = {"tokens", "last"} /\ DOMAIN g = {"admitted", "created"}
      /\ b.tokens = 0 /\ b.last = 0 /\ g.admitted = 0 /\ g.created = 0
  BY <1>3
<1>5. Earned(0, 0, 0, 0, 0, 0)
  BY RateAssumption DEF Earned
<1>6. BucketOK(NoLimits, b, g)
  BY <1>1, <1>4, <1>5 DEF BucketOK, TablesInit, timer_init
<1>7. \A c \in Cells, k \in Buckets : bucket[<<c, k>>] = b /\ grant[<<c, k>>] = g
                                      /\ limit[c] = NoLimits
  BY <1>3 DEF TablesInit, rate_limit_init
<1> QED
  BY <1>2, <1>6, <1>7 DEF RateInv, TablesInit, timer_init, rate_limit_init

LEMMA LimitCreated ==
  ASSUME RateInv, rate_limit_create, UNCHANGED now PROVE RateInv'
<1>1. PICK c \in Cells, l \in Limits :
        /\ limit' = [limit EXCEPT ![c] = [active |-> TRUE, cap |-> l.cap, rate |-> l.rate,
                                          memory |-> l.memory, used |-> 0]]
        /\ bucket' = [b \in DOMAIN bucket |->
                         IF b[1] = c THEN [tokens |-> l.cap, last |-> now] ELSE bucket[b]]
        /\ grant' = [b \in DOMAIN grant |->
                        IF b[1] = c THEN [admitted |-> 0, created |-> now] ELSE grant[b]]
  BY Zenon DEF rate_limit_create
<1>2. l.cap \in Nat /\ l.rate \in Nat /\ l.memory \in Nat
  BY RateAssumption
<1>3. PICK m, b, g : /\ m = [active |-> TRUE, cap |-> l.cap, rate |-> l.rate,
                             memory |-> l.memory, used |-> 0]
                     /\ b = [tokens |-> l.cap, last |-> now]
                     /\ g = [admitted |-> 0, created |-> now]
  BY Zenon
<1>4. /\ DOMAIN m = {"active", "cap", "rate", "memory", "used"}
      /\ m.cap = l.cap /\ m.rate = l.rate /\ m.memory = l.memory /\ m.used = 0
      /\ DOMAIN b = {"tokens", "last"} /\ DOMAIN g = {"admitted", "created"}
      /\ b.tokens = l.cap /\ b.last = now /\ g.admitted = 0 /\ g.created = now
  BY <1>3
<1>5. LimitOK(m)
  BY <1>2, <1>4 DEF LimitOK
<1>6. Earned(l.cap, l.rate, l.cap, now, 0, now)
  <2>1. now - now = 0 /\ l.rate * 0 = 0 /\ 0 + l.cap = l.cap
    BY <1>2 DEF RateInv
  <2>2. l.cap * Second \in Nat
    BY <1>2, RateAssumption
  <2> QED
    BY <2>1, <2>2 DEF Earned
<1>7. BucketOK(m, b, g)
  BY <1>2, <1>4, <1>6 DEF BucketOK, RateInv
<1>8. /\ DOMAIN limit' = Cells /\ limit'[c] = m
      /\ \A d \in Cells : d # c => limit'[d] = limit[d]
  BY <1>1, <1>3 DEF RateInv
<1>9. /\ DOMAIN bucket' = Cells \X Buckets /\ DOMAIN grant' = Cells \X Buckets
      /\ \A k \in Buckets : bucket'[<<c, k>>] = b /\ grant'[<<c, k>>] = g
      /\ \A d \in Cells, k \in Buckets :
            d # c => bucket'[<<d, k>>] = bucket[<<d, k>>] /\ grant'[<<d, k>>] = grant[<<d, k>>]
  BY <1>1, <1>3 DEF RateInv
<1>10. \A d \in Cells : LimitOK(limit'[d])
  BY <1>5, <1>8 DEF RateInv
<1>11. \A d \in Cells, k \in Buckets : BucketOK(limit'[d], bucket'[<<d, k>>], grant'[<<d, k>>])
  BY <1>7, <1>8, <1>9, ZenonT(60) DEF RateInv
<1> QED
  BY <1>8, <1>9, <1>10, <1>11 DEF RateInv, BucketOK

\* A step that changes no capacity and no rate and keeps memory in its cap.
LEMMA LimitChanged ==
  ASSUME RateInv, NEW c \in Cells, NEW m, limit' = [limit EXCEPT ![c] = m],
         DOMAIN m = DOMAIN limit[c], m.cap = limit[c].cap, m.rate = limit[c].rate,
         m.memory = limit[c].memory, m.used \in Nat, m.used <= m.memory,
         UNCHANGED <<bucket, grant, now>>
  PROVE  RateInv'
<1>1. /\ DOMAIN limit' = Cells /\ limit'[c] = m
      /\ \A d \in Cells : d # c => limit'[d] = limit[d]
  BY DEF RateInv
<1>2. LimitOK(m)
  BY DEF RateInv, LimitOK
<1>3. \A d \in Cells : LimitOK(limit'[d])
  BY <1>1, <1>2 DEF RateInv
<1>4. \A d \in Cells : limit'[d].cap = limit[d].cap /\ limit'[d].rate = limit[d].rate
  BY <1>1
<1>5. ASSUME NEW d \in Cells, NEW k \in Buckets
      PROVE  BucketOK(limit[d], bucket[<<d, k>>], grant[<<d, k>>])'
  <2>1. BucketOK(limit[d], bucket[<<d, k>>], grant[<<d, k>>])
    BY DEF RateInv
  <2>2. limit'[d].cap = limit[d].cap /\ limit'[d].rate = limit[d].rate
    BY <1>4
  <2> QED
    BY <2>1, <2>2 DEF BucketOK
<1> QED
  BY <1>1, <1>3, <1>5 DEF RateInv

LEMMA BucketChanged ==
  ASSUME RateInv, NEW c \in Cells, NEW k \in Buckets, NEW n \in Amounts,
         bucket_consume(<<c, k>>, n), UNCHANGED now
  PROVE  RateInv'
<1>1. PICK l, b, g, f : /\ l = limit[c] /\ b = bucket[<<c, k>>] /\ g = grant[<<c, k>>]
                        /\ f = bucket_refill(b, l)
  OBVIOUS
<1>2. LimitOK(l) /\ BucketOK(l, b, g) /\ now \in Nat /\ n \in Nat
  BY <1>1, RateAssumption DEF RateInv
<1>3. BucketOK(l, f, g)
  BY <1>1, <1>2, RefillOK
<1>4. PICK e, h : /\ e = [f EXCEPT !.tokens = IF f.tokens >= n THEN f.tokens - n ELSE f.tokens]
                  /\ h = [g EXCEPT !.admitted = IF f.tokens >= n THEN g.admitted + n ELSE g.admitted]
  BY Zenon
<1>5. BucketOK(l, e, h)
  <2>1. CASE f.tokens >= n
    BY <1>2, <1>3, <1>4, <2>1, ConsumeOK
  <2>2. CASE ~ (f.tokens >= n)
    <3>1. DOMAIN f = {"tokens", "last"} /\ DOMAIN g = {"admitted", "created"}
      BY <1>3 DEF BucketOK
    <3>2. /\ DOMAIN e = {"tokens", "last"} /\ DOMAIN h = {"admitted", "created"}
          /\ e.tokens = f.tokens /\ e.last = f.last
          /\ h.admitted = g.admitted /\ h.created = g.created
      BY <1>4, <2>2, <3>1
    <3> QED
      BY <1>3, <3>2 DEF BucketOK
  <2> QED
    BY <2>1, <2>2
<1>6. /\ <<c, k>> \in DOMAIN bucket /\ <<c, k>> \in DOMAIN grant /\ <<c, k>>[1] = c
  BY DEF RateInv
<1>7. bucket' = [bucket EXCEPT ![<<c, k>>] = e] /\ grant' = [grant EXCEPT ![<<c, k>>] = h]
      /\ limit' = limit
  BY <1>1, <1>4, <1>6 DEF bucket_consume
<1>8. /\ DOMAIN bucket' = Cells \X Buckets /\ DOMAIN grant' = Cells \X Buckets
      /\ bucket'[<<c, k>>] = e /\ grant'[<<c, k>>] = h
      /\ \A d \in Cells, j \in Buckets : <<d, j>> # <<c, k>> =>
            bucket'[<<d, j>>] = bucket[<<d, j>>] /\ grant'[<<d, j>>] = grant[<<d, j>>]
  BY <1>6, <1>7 DEF RateInv
<1>9. \A d \in Cells, j \in Buckets : BucketOK(limit[d], bucket'[<<d, j>>], grant'[<<d, j>>])
  BY <1>1, <1>5, <1>8, ZenonT(60) DEF RateInv
<1> QED
  BY <1>7, <1>8, <1>9 DEF RateInv, BucketOK

LEMMA RateNext ==
  ASSUME RateInv, [TablesNext]_tableVars PROVE RateInv'
<1>1. ASSUME UNCHANGED <<limit, bucket, grant>>, now' = now \/ now' = now + 1 PROVE RateInv'
  <2>1. now \in Nat /\ now' \in Nat /\ now <= now'
    BY <1>1 DEF RateInv
  <2>2. ASSUME NEW c \in Cells, NEW k \in Buckets
        PROVE  BucketOK(limit[c], bucket[<<c, k>>], grant[<<c, k>>])'
    <3>1. BucketOK(limit[c], bucket[<<c, k>>], grant[<<c, k>>])
      BY DEF RateInv
    <3>2. bucket[<<c, k>>].last <= now'
      BY <2>1, <3>1 DEF BucketOK
    <3> QED
      BY <1>1, <3>1, <3>2 DEF BucketOK
  <2> QED
    BY <1>1, <2>1, <2>2 DEF RateInv
<1>2. CASE RateStep /\ UNCHANGED now
  <2>1. CASE rate_limit_create
    BY <1>2, <2>1, LimitCreated
  <2>2. CASE rate_limit_destroy
    <3>1. PICK c \in Cells : /\ limit' = [limit EXCEPT ![c].active = FALSE, ![c].used = 0]
                             /\ UNCHANGED <<bucket, grant>>
      BY <2>2, Zenon DEF rate_limit_destroy
    <3>2. PICK m : m = [limit[c] EXCEPT !.active = FALSE, !.used = 0]
      OBVIOUS
    <3>3. LimitOK(limit[c]) /\ c \in DOMAIN limit
      BY DEF RateInv
    <3>4. limit' = [limit EXCEPT ![c] = m]
      BY <3>1, <3>2, <3>3, Zenon
    <3>5. /\ DOMAIN m = DOMAIN limit[c] /\ m.cap = limit[c].cap /\ m.rate = limit[c].rate
          /\ m.memory = limit[c].memory /\ m.used = 0
      BY <3>2, <3>3 DEF LimitOK
    <3>6. m.used \in Nat /\ m.used <= m.memory
      BY <3>3, <3>5 DEF LimitOK
    <3> QED
      BY <1>2, <3>1, <3>4, <3>5, <3>6, LimitChanged, Zenon
  <2>3. CASE rate_limit_cpu_consume
    <3>1. PICK c \in Cells, n \in Amounts : bucket_consume(<<c, "cpu">>, n)
      BY <2>3 DEF rate_limit_cpu_consume
    <3>2. "cpu" \in Buckets
      BY DEF Buckets
    <3> QED
      BY <1>2, <3>1, <3>2, BucketChanged
  <2>4. CASE rate_limit_check_network
    <3>1. PICK c \in Cells, k \in {"rx", "tx"}, n \in Amounts : bucket_consume(<<c, k>>, n)
      BY <2>4 DEF rate_limit_check_network
    <3>2. k \in Buckets
      BY DEF Buckets
    <3> QED
      BY <1>2, <3>1, <3>2, BucketChanged
  <2>5. ASSUME NEW c \in Cells, NEW u \in Nat, limit' = [limit EXCEPT ![c].used = u],
               u <= limit[c].memory, UNCHANGED <<bucket, grant>>
        PROVE  RateInv'
    <3>1. PICK m : m = [limit[c] EXCEPT !.used = u]
      BY Zenon
    <3>2. LimitOK(limit[c]) /\ c \in DOMAIN limit
      BY DEF RateInv
    <3>3. limit' = [limit EXCEPT ![c] = m]
      BY <2>5, <3>1, <3>2
    <3>4. /\ DOMAIN m = DOMAIN limit[c] /\ m.cap = limit[c].cap /\ m.rate = limit[c].rate
          /\ m.memory = limit[c].memory /\ m.used = u
      BY <3>1, <3>2 DEF LimitOK
    <3>5. m.used \in Nat /\ m.used <= m.memory
      BY <2>5, <3>4
    <3> QED
      BY <1>2, <2>5, <3>3, <3>4, <3>5, LimitChanged, Zenon
  <2>6. CASE rate_limit_memory_commit
    <3>1. PICK c \in Cells, n \in Amounts :
            /\ (limit[c].used + n) % Word <= limit[c].memory
            /\ limit' = [limit EXCEPT ![c].used = (limit[c].used + n) % Word]
            /\ UNCHANGED <<bucket, grant>>
      BY <2>6, Zenon DEF rate_limit_memory_commit, RateInv
    <3>2. limit[c].used \in Nat /\ n \in Nat
      BY RateAssumption DEF RateInv, LimitOK
    <3>3. limit[c].used + n \in Nat
      BY <3>2
    <3>4. (limit[c].used + n) % Word \in Nat
      BY <3>3, WordBelow, RateAssumption
    <3> QED
      BY <2>5, <3>1, <3>4, Zenon
  <2>7. CASE rate_limit_memory_release
    <3>1. PICK c \in Cells, n \in Amounts :
            /\ limit' = [limit EXCEPT ![c].used =
                            IF n > limit[c].used THEN 0 ELSE limit[c].used - n]
            /\ UNCHANGED <<bucket, grant>>
      BY <2>7, Zenon DEF rate_limit_memory_release, RateInv
    <3>2. LimitOK(limit[c]) /\ n \in Nat
      BY RateAssumption DEF RateInv
    <3>3. PICK u : u = IF n > limit[c].used THEN 0 ELSE limit[c].used - n
      OBVIOUS
    <3>4. u \in Nat /\ u <= limit[c].memory
      BY <3>2, <3>3 DEF LimitOK
    <3> QED
      BY <2>5, <3>1, <3>3, <3>4, Zenon
  <2> QED
    BY <1>2, <2>1, <2>2, <2>3, <2>4, <2>6, <2>7 DEF RateStep
<1>3. CASE TablesNext
  BY <1>1, <1>2, <1>3 DEF TablesNext, TimePasses, rateVars
<1> QED
  BY <1>1, <1>3 DEF tableVars, rateVars

(***************************************************************************)
(* AdmittedWithinRate for any limits, amounts, clock and word: a bucket    *)
(* lets through no more than its capacity and what its rate earned since   *)
(* it was created, also when the product of a refill wraps, and memory     *)
(* charged stays within its cap (bucket_refill, bucket_consume,            *)
(* rate_limit_check_memory, rate_limit_memory_release).                    *)
(***************************************************************************)
THEOREM BucketsWithinRate == TablesSpec => []AdmittedWithinRate
<1>1. TablesInit => RateInv
  BY RateInit
<1>2. RateInv /\ [TablesNext]_tableVars => RateInv'
  BY RateNext
<1>3. RateInv => AdmittedWithinRate
  <2> SUFFICES ASSUME RateInv PROVE AdmittedWithinRate
    OBVIOUS
  <2>1. ASSUME NEW cap \in Nat, NEW rate \in Nat, NEW tokens \in Nat, NEW last \in Nat,
               NEW admitted \in Nat, NEW created \in Nat, NEW t \in Nat, created <= last, last <= t,
               Earned(cap, rate, tokens, last, admitted, created)
        PROVE  admitted * Second <= cap * Second + rate * (t - created)
    <3>1. admitted * Second <= (admitted + tokens) * Second
      <4>1. admitted + tokens \in Nat /\ admitted <= admitted + tokens
        OBVIOUS
      <4> QED
        BY <4>1, Monotone, RateAssumption
    <3>2. rate * (last - created) <= rate * (t - created)
      <4>1. last - created \in Nat /\ t - created \in Nat /\ last - created <= t - created
        BY <2>1
      <4> QED
        BY <4>1, Monotone
    <3>3. PICK p, q, u, v, w :
            /\ p = admitted * Second /\ q = (admitted + tokens) * Second /\ u = cap * Second
            /\ v = rate * (last - created) /\ w = rate * (t - created)
      OBVIOUS
    <3>4. p \in Int /\ q \in Int /\ u \in Int /\ v \in Int /\ w \in Int
      BY <3>3, RateAssumption
    <3>5. q <= u + v
      BY <2>1, <3>3 DEF Earned
    <3>6. p <= q /\ v <= w
      BY <3>1, <3>2, <3>3
    <3>7. p <= u + w
      BY <3>4, <3>5, <3>6
    <3> QED
      BY <3>3, <3>7
  <2>2. ASSUME NEW c \in Cells, NEW k \in Buckets
        PROVE  grant[<<c, k>>].admitted * Second
                 <= limit[c].cap * Second + limit[c].rate * (now - grant[<<c, k>>].created)
    <3>1. LimitOK(limit[c]) /\ BucketOK(limit[c], bucket[<<c, k>>], grant[<<c, k>>]) /\ now \in Nat
      BY DEF RateInv
    <3> QED
      BY <2>1, <3>1, Zenon DEF LimitOK, BucketOK
  <2>3. \A b \in DOMAIN bucket : LET l == limit[b[1]] IN l.active =>
          grant[b].admitted * Second <= l.cap * Second + l.rate * (now - grant[b].created)
    <3> SUFFICES ASSUME NEW b \in DOMAIN bucket
                 PROVE  grant[b].admitted * Second
                          <= limit[b[1]].cap * Second + limit[b[1]].rate * (now - grant[b].created)
      OBVIOUS
    <3>1. PICK c \in Cells, k \in Buckets : b = <<c, k>>
      BY DEF RateInv
    <3> QED
      BY <2>2, <3>1
  <2> QED
    BY <2>3 DEF AdmittedWithinRate, RateInv, LimitOK
<1> QED
  BY <1>1, <1>2, <1>3, PTL DEF TablesSpec
=============================================================================
