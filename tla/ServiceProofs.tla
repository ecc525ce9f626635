--------------------------- MODULE ServiceProofs ----------------------------
(***************************************************************************)
(* Theorems about the system's services, for any values of the constants.  *)
(*                                                                         *)
(* The SSH server, with any number of connections, channels and addresses: *)
(* a connection serves only a user who proved who they are, the count of   *)
(* connections is exact, an address that the table knows is banned at the  *)
(* limit of failures.                                                      *)
(*                                                                         *)
(* The update manager and the service supervisor on one filesystem, with   *)
(* any services, limits, chunks, signatures, ring sizes and bounds: the    *)
(* records under /state are true, updates have their own way back, and     *)
(* crashes and restarts are accounted for.                                 *)
(***************************************************************************)
EXTENDS Sshd, ServiceManager, FiniteSetTheorems, TLAPS

USE SMTT(60), ZenonT(30)

-----------------------------------------------------------------------------
(* The SSH server.                                                         *)
ConnFields == {"state", "addr", "version", "attempts", "crypto", "proved", "age", "idle", "due"}

Open == {"INIT", "KEX", "KEX_SENT", "NEWKEYS", "AUTH", "AUTHENTICATED", "CHANNEL"}

(* What holds of one slot of the pool: a connection has an address, its    *)
(* keys are in use from authentication on, and its user is proved when it  *)
(* serves channels.                                                        *)
ConnOK(r) ==
  /\ DOMAIN r = ConnFields
  /\ r.state \in Open \cup {"free"}
  /\ r.state # "free" => r.addr \in Addrs
  /\ r.state \in {"AUTH", "AUTHENTICATED", "CHANNEL"} => r.crypto = TRUE
  /\ r.state \in {"AUTHENTICATED", "CHANNEL"} => r.proved = TRUE

PoolInv ==
  /\ DOMAIN conns = Conns
  /\ \A c \in Conns : ConnOK(conns[c])
  /\ active = Cardinality(Live)

(* What holds of an address: one that is not known has no failures, and    *)
(* the last failure allowed starts a ban.                                  *)
LimitOK(l) ==
  /\ DOMAIN l = {"known", "failures", "ban"}
  /\ l.known \in BOOLEAN
  /\ l.failures \in 0 .. MaxFailures
  /\ l.ban \in {"none", "on", "over"}
  /\ l.failures = MaxFailures => l.ban # "none"

(* The table counts every failure of an address it knows; an address it    *)
(* does not know has none, or first failed when the table was full.        *)
TallyOK(l, n, full) ==
  /\ n \in 0 .. MaxFailures + 1
  /\ l.known => n = l.failures
  /\ ~ l.known => l.ban = "none" /\ (n = 0 \/ full)

Full == Cardinality(Known) >= RateEntries

LimitsInv ==
  /\ DOMAIN limits = Addrs /\ \A a \in Addrs : LimitOK(limits[a])
  /\ DOMAIN failed = Addrs /\ \A a \in Addrs : TallyOK(limits[a], failed[a], Full)
  /\ IsFiniteSet(Known)

SshInv == PoolInv /\ LimitsInv

-----------------------------------------------------------------------------
(* The pool.  A slot that stays in use, or stays free, keeps the count.    *)
LEMMA SlotKept ==
  ASSUME PoolInv, NEW c \in Conns, NEW r, ConnOK(r), conns' = [conns EXCEPT ![c] = r],
         (r.state = "free") = (conns[c].state = "free"), active' = active
  PROVE  PoolInv'
<1>1. DOMAIN conns' = Conns /\ \A d \in Conns : conns'[d] = IF d = c THEN r ELSE conns[d]
  BY DEF PoolInv
<1>2. \A d \in Conns : ConnOK(conns'[d])
  BY <1>1 DEF PoolInv
<1>3. Live' = Live
  BY <1>1 DEF Live
<1> QED
  BY <1>1, <1>2, <1>3 DEF PoolInv

(* sshd's accept loop takes a free slot.                                   *)
LEMMA SlotTaken ==
  ASSUME PoolInv, NEW c \in Conns \ Live, NEW r, ConnOK(r), conns' = [conns EXCEPT ![c] = r],
         r.state # "free", active' = active + 1
  PROVE  PoolInv'
<1>1. DOMAIN conns' = Conns /\ \A d \in Conns : conns'[d] = IF d = c THEN r ELSE conns[d]
  BY DEF PoolInv
<1>2. \A d \in Conns : ConnOK(conns'[d])
  BY <1>1 DEF PoolInv
<1>3. Live' = Live \cup {c} /\ c \notin Live
  BY <1>1 DEF Live
<1>4. IsFiniteSet(Live)
  BY FS_Subset, SshdAssumption DEF Live
<1>5. Cardinality(Live') = Cardinality(Live) + 1
  BY <1>3, <1>4, FS_AddElement, Zenon
<1> QED
  BY <1>1, <1>2, <1>5 DEF PoolInv

(* Closing a connection frees its slot.                                    *)
LEMMA SlotFreed ==
  ASSUME PoolInv, NEW c \in Conns, c \in Live, conns' = [conns EXCEPT ![c] = FreeConn],
         active' = active - 1
  PROVE  PoolInv'
<1>1. DOMAIN conns' = Conns /\ \A d \in Conns : conns'[d] = IF d = c THEN FreeConn ELSE conns[d]
  BY DEF PoolInv
<1>2. ConnOK(FreeConn) /\ FreeConn.state = "free"
  BY DEF FreeConn, ConnOK, ConnFields, Open
<1>3. \A d \in Conns : ConnOK(conns'[d])
  BY <1>1, <1>2 DEF PoolInv
<1>4. Live' = Live \ {c}
  BY <1>1, <1>2 DEF Live
<1>5. IsFiniteSet(Live)
  BY FS_Subset, SshdAssumption DEF Live
<1>6. Cardinality(Live') = Cardinality(Live) - 1
  BY <1>4, <1>5, FS_RemoveElement
<1> QED
  BY <1>1, <1>3, <1>6 DEF PoolInv

LEMMA CloseKeeps ==
  ASSUME PoolInv, NEW c \in Conns, c \in Live, CloseConn(c)
  PROVE  PoolInv' /\ limits' = limits /\ failed' = failed
BY SlotFreed, Zenon DEF CloseConn

(* The pool does not depend on the rest.                                   *)
LEMMA PoolSame ==
  ASSUME PoolInv, conns' = conns, active' = active
  PROVE  PoolInv'
<1>1. Live' = Live
  BY DEF Live
<1> QED
  BY <1>1 DEF PoolInv

-----------------------------------------------------------------------------
(* The table of addresses.                                                 *)
LEMMA LimitsSame == ASSUME LimitsInv, limits' = limits, failed' = failed PROVE LimitsInv'
<1>1. Known' = Known
  BY DEF Known
<1> QED
  BY <1>1 DEF LimitsInv, Full

(* A table over the addresses that differs from another in one entry.      *)
Only(new, old, a, v) ==
  DOMAIN new = Addrs /\ \A b \in Addrs : new[b] = IF b = a THEN v ELSE old[b]

(* A table in which one address changed and is as well known as before.    *)
LEMMA EntryKept ==
  ASSUME LimitsInv, NEW a \in Addrs, NEW l, NEW n,
         Only(limits', limits, a, l), Only(failed', failed, a, n),
         LimitOK(l), TallyOK(l, n, Full), l.known = limits[a].known
  PROVE  LimitsInv'
<1>1. /\ DOMAIN limits' = Addrs /\ DOMAIN failed' = Addrs
      /\ \A b \in Addrs : limits'[b] = IF b = a THEN l ELSE limits[b]
      /\ \A b \in Addrs : failed'[b] = IF b = a THEN n ELSE failed[b]
  BY DEF Only
<1>2. Known' = Known
  BY <1>1 DEF Known
<1>3. Full' = Full
  BY <1>2 DEF Full
<1>4. \A b \in Addrs : LimitOK(limits'[b]) /\ TallyOK(limits'[b], failed'[b], Full)
  BY <1>1 DEF LimitsInv
<1> QED
  BY <1>1, <1>2, <1>3, <1>4 DEF LimitsInv

(* What check_rate_limit leaves of the entry of an address.                *)
LEMMA CheckedOK ==
  ASSUME LimitsInv, NEW a \in Addrs
  PROVE  \E l, n : /\ Only(Checked(a), limits, a, l) /\ Only(Tally(a), failed, a, n)
                   /\ LimitOK(l) /\ TallyOK(l, n, Full) /\ l.known = limits[a].known
                   /\ limits[a].ban # "on" => l.ban = "none"
<1>1. LimitOK(limits[a]) /\ TallyOK(limits[a], failed[a], Full)
  BY DEF LimitsInv
<1>2. CASE limits[a].ban = "over"
  <2>1. PICK l : l = [limits[a] EXCEPT !.failures = 0, !.ban = "none"]
    BY Zenon
  <2>2. Only(Checked(a), limits, a, l) /\ Only(Tally(a), failed, a, 0)
    <3>1. Checked(a) = [limits EXCEPT ![a] = l] /\ Tally(a) = [failed EXCEPT ![a] = 0]
      BY <1>2, <2>1, Zenon DEF Checked, Tally
    <3> QED
      BY <3>1 DEF LimitsInv, Only
  <2>3. DOMAIN l = DOMAIN limits[a] /\ l.failures = 0 /\ l.ban = "none" /\ l.known = limits[a].known
    BY <1>1, <2>1 DEF LimitOK
  <2>4. LimitOK(l)
    BY <1>1, <2>3, SshdAssumption DEF LimitOK
  <2>5. TallyOK(l, 0, Full)
    BY <2>3, SshdAssumption DEF TallyOK
  <2> QED
    BY <2>2, <2>3, <2>4, <2>5, Zenon
<1>3. CASE limits[a].ban # "over"
  <2>1. Only(Checked(a), limits, a, limits[a]) /\ Only(Tally(a), failed, a, failed[a])
    BY <1>3 DEF Checked, Tally, LimitsInv, Only
  <2>2. limits[a].ban # "on" => limits[a].ban = "none"
    BY <1>1, <1>3 DEF LimitOK
  <2> QED
    BY <1>1, <2>1, <2>2, Zenon
<1> QED
  BY <1>2, <1>3

(* A failure is counted only while the address is not banned, so the count *)
(* stops at the limit, which bans the address.  A new address is entered   *)
(* if there is room.                                                       *)
LEMMA FailureOK ==
  ASSUME LimitsInv, NEW a \in Addrs, limits[a].ban # "on", RecordsFailure(a)
  PROVE  LimitsInv'
<1>1. PICK k, m : /\ Only(Checked(a), limits, a, k) /\ Only(Tally(a), failed, a, m)
                  /\ LimitOK(k) /\ TallyOK(k, m, Full) /\ k.known = limits[a].known
                  /\ k.ban = "none"
  BY CheckedOK, Zenon
<1>2. PICK n : n = IF m > MaxFailures THEN m ELSE m + 1
  OBVIOUS
<1>3. Checked(a)[a] = k /\ Tally(a)[a] = m
  BY <1>1 DEF Only
<1>4. Only(failed', failed, a, n)
  <2>1. failed' = [Tally(a) EXCEPT ![a] = n]
    BY <1>2, <1>3, Zenon DEF RecordsFailure, Counted
  <2> QED
    BY <1>1, <2>1 DEF Only
<1>5. k.failures \in 0 .. MaxFailures - 1 /\ k.known \in BOOLEAN
  BY <1>1, SshdAssumption DEF LimitOK
<1>6. CASE k.known
  <2>1. PICK l : l = [k EXCEPT !.failures = k.failures + 1,
                               !.ban = IF k.failures + 1 >= MaxFailures THEN "on" ELSE @]
    BY Zenon
  <2>2. limits' = [Checked(a) EXCEPT ![a] = l]
    BY <1>3, <1>6, <2>1, Zenon DEF RecordsFailure, record_auth_failure
  <2>3. Only(limits', limits, a, l)
    BY <1>1, <2>2 DEF Only
  <2>4. /\ DOMAIN l = DOMAIN k /\ l.known = k.known /\ l.failures = k.failures + 1
        /\ l.ban = IF k.failures + 1 >= MaxFailures THEN "on" ELSE "none"
    BY <1>1, <2>1 DEF LimitOK
  <2>5. LimitOK(l)
    BY <1>1, <1>5, <2>4, SshdAssumption DEF LimitOK
  <2>6. n = l.failures
    BY <1>1, <1>2, <1>5, <1>6, <2>4, SshdAssumption DEF TallyOK
  <2>7. TallyOK(l, n, Full)
    BY <1>5, <1>6, <2>4, <2>6, SshdAssumption DEF TallyOK
  <2> QED
    BY <1>1, <1>4, <2>3, <2>4, <2>5, <2>7, EntryKept, Zenon
<1>7. CASE ~ k.known /\ Full
  <2>1. Only(limits', limits, a, k)
    <3>1. ~ (Cardinality(Known) < RateEntries)
      BY <1>7, FS_CardinalityType, SshdAssumption DEF Full, LimitsInv
    <3>2. limits' = Checked(a)
      BY <1>3, <1>7, <3>1, Zenon DEF RecordsFailure, record_auth_failure
    <3> QED
      BY <1>1, <3>2, Zenon
  <2>2. TallyOK(k, n, Full)
    BY <1>1, <1>2, <1>7, SshdAssumption DEF TallyOK
  <2> QED
    BY <1>1, <1>4, <2>1, <2>2, EntryKept, Zenon
<1>8. CASE ~ k.known /\ ~ Full
  <2>1. PICK l : l = [known |-> TRUE, failures |-> 1, ban |-> "none"]
    BY Zenon
  <2>2. Cardinality(Known) \in Nat /\ Cardinality(Known) < RateEntries
    BY <1>8, FS_CardinalityType, SshdAssumption DEF Full, LimitsInv
  <2>3. Only(limits', limits, a, l)
    <3>1. limits' = [Checked(a) EXCEPT ![a] = l]
      BY <1>3, <1>8, <2>1, <2>2, Zenon DEF RecordsFailure, record_auth_failure
    <3> QED
      BY <1>1, <3>1 DEF Only
  <2>4. DOMAIN l = {"known", "failures", "ban"} /\ l.known = TRUE /\ l.failures = 1 /\ l.ban = "none"
    BY <2>1
  <2>5. LimitOK(l)
    <3>1. l.known \in BOOLEAN /\ l.ban \in {"none", "on", "over"}
      BY <2>4, Zenon
    <3>2. l.failures \in 0 .. MaxFailures /\ l.failures # MaxFailures
      BY <2>4, SshdAssumption
    <3> QED
      BY <2>4, <3>1, <3>2, Zenon DEF LimitOK
  <2>6. n = 1
    BY <1>1, <1>2, <1>8, SshdAssumption DEF TallyOK
  <2>7. /\ DOMAIN limits' = Addrs /\ DOMAIN failed' = Addrs
        /\ \A b \in Addrs : limits'[b] = IF b = a THEN l ELSE limits[b]
        /\ \A b \in Addrs : failed'[b] = IF b = a THEN n ELSE failed[b]
    BY <1>4, <2>3 DEF Only
  <2>8. Known' = Known \cup {a} /\ a \notin Known
    BY <1>1, <1>8, <2>4, <2>7 DEF Known
  <2>9. IsFiniteSet(Known')
    BY <2>8, FS_AddElement, Zenon DEF LimitsInv
  <2>10. \A b \in Addrs : LimitOK(limits'[b])
    BY <2>5, <2>7 DEF LimitsInv
  <2>11. \A b \in Addrs : TallyOK(limits'[b], failed'[b], Full')
    BY <1>8, <2>4, <2>6, <2>7, SshdAssumption DEF LimitsInv, TallyOK
  <2> QED
    BY <2>7, <2>9, <2>10, <2>11 DEF LimitsInv
<1> QED
  BY <1>5, <1>6, <1>7, <1>8

LEMMA SuccessOK ==
  ASSUME LimitsInv, NEW a \in Addrs, limits' = record_auth_success(Checked(a), a),
         failed' = [failed EXCEPT ![a] = 0]
  PROVE  LimitsInv'
<1>1. PICK k, m : /\ Only(Checked(a), limits, a, k) /\ Only(Tally(a), failed, a, m)
                  /\ LimitOK(k) /\ TallyOK(k, m, Full) /\ k.known = limits[a].known
  BY CheckedOK, Zenon
<1>2. Checked(a)[a] = k /\ Only(failed', failed, a, 0)
  BY <1>1 DEF LimitsInv, Only
<1>3. CASE k.known
  <2>1. PICK l : l = [k EXCEPT !.failures = 0, !.ban = "none"]
    BY Zenon
  <2>2. limits' = [Checked(a) EXCEPT ![a] = l]
    BY <1>2, <1>3, <2>1, Zenon DEF record_auth_success
  <2>3. Only(limits', limits, a, l)
    BY <1>1, <2>2 DEF Only
  <2>4. DOMAIN l = DOMAIN k /\ l.known = k.known /\ l.failures = 0 /\ l.ban = "none"
    BY <1>1, <2>1 DEF LimitOK
  <2>5. LimitOK(l)
    BY <1>1, <2>4, SshdAssumption DEF LimitOK
  <2>6. TallyOK(l, 0, Full)
    BY <2>4, SshdAssumption DEF TallyOK
  <2> QED
    BY <1>1, <1>2, <2>3, <2>4, <2>5, <2>6, EntryKept, Zenon
<1>4. CASE ~ k.known
  <2>1. Only(limits', limits, a, k)
    BY <1>1, <1>2, <1>4, Zenon DEF record_auth_success
  <2>2. TallyOK(k, 0, Full)
    BY <1>1, <1>4, SshdAssumption DEF TallyOK
  <2> QED
    BY <1>1, <1>2, <2>1, <2>2, EntryKept, Zenon
<1> QED
  BY <1>3, <1>4

-----------------------------------------------------------------------------
(* The turns.  Only the fields that the invariant reads matter.            *)
LEMMA FieldsKept ==
  ASSUME PoolInv, NEW c \in Live, NEW r, conns' = [conns EXCEPT ![c] = r], active' = active,
         DOMAIN r = ConnFields, r.addr = conns[c].addr, r.state \in Open,
         r.state \in {"AUTH", "AUTHENTICATED", "CHANNEL"} => r.crypto = TRUE,
         r.state \in {"AUTHENTICATED", "CHANNEL"} => r.proved = TRUE
  PROVE  PoolInv'
<1>1. c \in Conns /\ conns[c].state # "free" /\ ConnOK(conns[c])
  BY DEF Live, PoolInv
<1>2. ConnOK(r) /\ r.state # "free"
  BY <1>1 DEF ConnOK, Open
<1> QED
  BY <1>1, <1>2, SlotKept, Zenon

LEMMA AcceptStep == ASSUME SshInv, Accept PROVE SshInv'
<1>1. PoolInv /\ LimitsInv
  BY DEF SshInv
<1>2. CASE UNCHANGED sshVars
  BY <1>1, <1>2, PoolSame, LimitsSame DEF SshInv, sshVars
<1>3. CASE ~ UNCHANGED sshVars
  <2>1. PICK a \in Addrs, c \in Conns \ Live :
           /\ conns' = [conns EXCEPT ![c] = [FreeConn EXCEPT !.state = "INIT", !.addr = a]]
           /\ active' = active + 1
           /\ limits' = limits /\ failed' = failed
    BY <1>3, Zenon DEF Accept
  <2> DEFINE r == [FreeConn EXCEPT !.state = "INIT", !.addr = a]
  <2>2. ConnOK(r) /\ r.state # "free"
    BY DEF FreeConn, ConnOK, ConnFields, Open
  <2> HIDE DEF r
  <2>3. PoolInv'
    BY <1>1, <2>1, <2>2, SlotTaken, Zenon DEF r
  <2> QED
    BY <1>1, <2>1, <2>3, LimitsSame DEF SshInv
<1> QED
  BY <1>2, <1>3

(* The key exchange and the renewal of the keys.                           *)
LEMMA KeyStep ==
  ASSUME SshInv, NEW c \in Conns,
         \/ SendVersion(c) \/ ReceiveVersion(c) \/ ReceiveKexInit(c) \/ ReceiveKey(c) \/ Rekey(c)
  PROVE  SshInv'
<1>1. PoolInv /\ LimitsInv /\ c \in Live
  BY Zenon DEF SshInv, SendVersion, ReceiveVersion, ReceiveKexInit, ReceiveKey, Rekey, Serving, Turn
<1>2. ConnOK(conns[c]) /\ conns[c].state # "free" /\ DOMAIN conns = Conns
  BY <1>1 DEF PoolInv, Live
<1>3. CASE Close(c)
  BY <1>1, <1>3, CloseKeeps, LimitsSame DEF Close, SshInv
<1>4. CASE Stay(c)
  BY <1>1, <1>4, PoolSame, LimitsSame DEF Stay, KeepTables, SshInv
<1>5. CASE \E s \in {"KEX", "NEWKEYS"} : Become(c, s)
  <2>1. PICK s \in {"KEX", "NEWKEYS"} : Become(c, s)
    BY <1>5
  <2> DEFINE r == [conns[c] EXCEPT !["state"] = s]
  <2>2. conns' = [conns EXCEPT ![c] = r] /\ active' = active /\ limits' = limits /\ failed' = failed
    BY <1>1, <1>2, <2>1 DEF Become, Set, KeepTables
  <2>3. DOMAIN r = ConnFields /\ r.addr = conns[c].addr /\ r.state = s
    BY <1>2 DEF ConnOK, ConnFields
  <2> HIDE DEF r
  <2>4. PoolInv'
    BY <1>1, <2>2, <2>3, FieldsKept, Zenon DEF Open
  <2> QED
    BY <1>1, <2>2, <2>4, LimitsSame DEF SshInv
<1>6. CASE ReceiveVersion(c) /\ ~ Stay(c) /\ ~ Close(c)
  <2> DEFINE r == [conns[c] EXCEPT !.version = TRUE, !.state = "KEX_SENT"]
  <2>2. conns' = [conns EXCEPT ![c] = r] /\ active' = active /\ limits' = limits /\ failed' = failed
    BY <1>1, <1>2, <1>6, Zenon DEF ReceiveVersion, KeepTables
  <2>3. DOMAIN r = ConnFields /\ r.addr = conns[c].addr /\ r.state = "KEX_SENT"
    BY <1>2 DEF ConnOK, ConnFields
  <2> HIDE DEF r
  <2>4. PoolInv'
    BY <1>1, <2>2, <2>3, FieldsKept, Zenon DEF Open
  <2> QED
    BY <1>1, <2>2, <2>4, LimitsSame DEF SshInv
<1>7. CASE ReceiveKey(c) /\ ~ Stay(c) /\ ~ Close(c)
  <2> DEFINE r == [conns[c] EXCEPT !.state = "AUTH", !.crypto = TRUE]
  <2>2. conns' = [conns EXCEPT ![c] = r] /\ active' = active /\ limits' = limits /\ failed' = failed
    BY <1>1, <1>2, <1>7, Zenon DEF ReceiveKey, KeepTables
  <2>3. DOMAIN r = ConnFields /\ r.addr = conns[c].addr /\ r.state = "AUTH" /\ r.crypto = TRUE
    BY <1>2 DEF ConnOK, ConnFields
  <2> HIDE DEF r
  <2>4. PoolInv'
    BY <1>1, <2>2, <2>3, FieldsKept, Zenon DEF Open
  <2> QED
    BY <1>1, <2>2, <2>4, LimitsSame DEF SshInv
<1>8. CASE Rekey(c)
  <2>1. PICK age \in {conns[c].age, "old"} :
           conns' = [conns EXCEPT ![c].state = "KEX", ![c].crypto = FALSE,
                                  ![c].due = FALSE, ![c].proved = FALSE, ![c].age = age]
    BY <1>8, Zenon DEF Rekey
  <2> DEFINE r == [conns[c] EXCEPT !.state = "KEX", !.crypto = FALSE, !.due = FALSE,
                                   !.proved = FALSE, !.age = age]
  <2>2. conns' = [conns EXCEPT ![c] = r] /\ active' = active /\ limits' = limits /\ failed' = failed
    BY <1>1, <1>2, <1>8, <2>1, Zenon DEF Rekey, KeepTables
  <2>3. DOMAIN r = ConnFields /\ r.addr = conns[c].addr /\ r.state = "KEX"
    BY <1>2 DEF ConnOK, ConnFields
  <2> HIDE DEF r
  <2>4. PoolInv'
    BY <1>1, <2>2, <2>3, FieldsKept, Zenon DEF Open
  <2> QED
    BY <1>1, <2>2, <2>4, LimitsSame DEF SshInv
<1> QED
  BY <1>3, <1>4, <1>5, <1>6, <1>7, <1>8, Zenon DEF SendVersion, ReceiveVersion, ReceiveKexInit, ReceiveKey

(* Authentication: the pool changes as one slot, the table of addresses as *)
(* the failure or the success says.                                        *)
LEMMA AuthStep ==
  ASSUME SshInv, NEW c \in Conns,
         AuthOther(c) \/ AuthRejected(c) \/ AuthPassword(c) \/ AuthPublicKey(c)
  PROVE  SshInv'
<1> DEFINE a == conns[c].addr
<1>1. PoolInv /\ LimitsInv /\ c \in Live /\ conns[c].state = "AUTH" /\ active' = active
  BY DEF SshInv, AuthOther, AuthRejected, AuthPassword, AuthPublicKey, Admitted, Asks, Turn
<1>2. ConnOK(conns[c]) /\ DOMAIN conns = Conns
  BY <1>1 DEF PoolInv
<1>3. a \in Addrs /\ conns[c].crypto = TRUE
  BY <1>1, <1>2 DEF ConnOK
<1> HIDE DEF a
<1>4. ASSUME UNCHANGED <<limits, failed>> PROVE LimitsInv'
  BY <1>1, <1>4, LimitsSame
<1>5. ASSUME ClearsBan(a) PROVE LimitsInv'
  BY <1>1, <1>3, <1>5, CheckedOK, EntryKept, Zenon DEF ClearsBan
<1>6. ASSUME limits[a].ban # "on", RecordsFailure(a) PROVE LimitsInv'
  BY <1>1, <1>3, <1>6, FailureOK
<1>7. ASSUME limits' = record_auth_success(Checked(a), a), failed' = [failed EXCEPT ![a] = 0]
      PROVE  LimitsInv'
  BY <1>1, <1>3, <1>7, SuccessOK
<1>8. CASE AuthOther(c) \/ AuthRejected(c)
  <2>1. conns' = conns
    BY <1>8 DEF AuthOther, AuthRejected
  <2>2. LimitsInv'
    BY <1>4, <1>5, <1>6, <1>8, Zenon DEF AuthOther, AuthRejected, Banned, a
  <2> QED
    BY <1>1, <2>1, <2>2, PoolSame DEF SshInv
<1>9. CASE Succeeds(c)
  <2> DEFINE r == [conns[c] EXCEPT !.state = "AUTHENTICATED", !.attempts = 0, !.proved = TRUE]
  <2>2. conns' = [conns EXCEPT ![c] = r]
    BY <1>1, <1>2, <1>9, Zenon DEF Succeeds
  <2>3. /\ DOMAIN r = ConnFields /\ r.addr = conns[c].addr /\ r.state = "AUTHENTICATED"
        /\ r.crypto = TRUE /\ r.proved = TRUE
    BY <1>2, <1>3 DEF ConnOK, ConnFields
  <2> HIDE DEF r
  <2>4. PoolInv'
    BY <1>1, <2>2, <2>3, FieldsKept, Zenon DEF Open
  <2> QED
    BY <1>7, <1>9, <2>4 DEF SshInv, Succeeds, a
<1>10. CASE Fails(c) /\ Admitted(c)
  <2> DEFINE r == [conns[c] EXCEPT !.attempts = @ + 1]
  <2>2. conns' = [conns EXCEPT ![c] = r]
    BY <1>1, <1>2, <1>10 DEF Fails
  <2>3. DOMAIN r = ConnFields /\ r.addr = conns[c].addr /\ r.state = "AUTH" /\ r.crypto = TRUE
    BY <1>1, <1>2, <1>3 DEF ConnOK, ConnFields
  <2> HIDE DEF r
  <2>4. PoolInv'
    BY <1>1, <2>2, <2>3, FieldsKept, Zenon DEF Open
  <2> QED
    BY <1>6, <1>10, <2>4 DEF SshInv, Fails, Admitted, Banned, a
<1>11. CASE conns' = conns /\ ClearsBan(a)
  BY <1>1, <1>5, <1>11, PoolSame DEF SshInv
<1> QED
  BY <1>8, <1>9, <1>10, <1>11 DEF AuthPassword, AuthPublicKey, a

(* A turn that serves channels leaves the connection serving, or closes it.*)
LEMMA ServeStep ==
  ASSUME SshInv, NEW c \in Conns, Serving(c),
         \/ \E s : Hears(c, s)
         \/ CloseConn(c) \/ Become(c, "CHANNEL")
  PROVE  SshInv'
<1>1. PoolInv /\ LimitsInv /\ c \in Live /\ conns[c].state \in {"AUTHENTICATED", "CHANNEL"}
  BY DEF SshInv, Serving, Turn
<1>2. /\ ConnOK(conns[c]) /\ DOMAIN conns = Conns /\ conns[c].crypto = TRUE
      /\ conns[c].proved = TRUE
  BY <1>1 DEF PoolInv, ConnOK
<1>3. CASE CloseConn(c)
  BY <1>1, <1>3, CloseKeeps, LimitsSame DEF SshInv
<1>4. CASE \E s : Hears(c, s)
  <2> DEFINE r == [conns[c] EXCEPT !.state = "CHANNEL", !.idle = FALSE]
  <2>2. conns' = [conns EXCEPT ![c] = r] /\ active' = active /\ limits' = limits /\ failed' = failed
    BY <1>1, <1>2, <1>4, Zenon DEF Hears
  <2>3. /\ DOMAIN r = ConnFields /\ r.addr = conns[c].addr /\ r.state = "CHANNEL"
        /\ r.crypto = TRUE /\ r.proved = TRUE
    BY <1>2 DEF ConnOK, ConnFields
  <2> HIDE DEF r
  <2>4. PoolInv'
    BY <1>1, <2>2, <2>3, FieldsKept, Zenon DEF Open
  <2> QED
    BY <1>1, <2>2, <2>4, LimitsSame DEF SshInv
<1>5. CASE Become(c, "CHANNEL")
  <2> DEFINE r == [conns[c] EXCEPT !["state"] = "CHANNEL"]
  <2>2. conns' = [conns EXCEPT ![c] = r] /\ active' = active /\ limits' = limits /\ failed' = failed
    BY <1>1, <1>2, <1>5 DEF Become, Set, KeepTables
  <2>3. /\ DOMAIN r = ConnFields /\ r.addr = conns[c].addr /\ r.state = "CHANNEL"
        /\ r.crypto = TRUE /\ r.proved = TRUE
    BY <1>2 DEF ConnOK, ConnFields
  <2> HIDE DEF r
  <2>4. PoolInv'
    BY <1>1, <2>2, <2>3, FieldsKept, Zenon DEF Open
  <2> QED
    BY <1>1, <2>2, <2>4, LimitsSame DEF SshInv
<1> QED
  BY <1>3, <1>4, <1>5

(* The clock.  Handshakes age; keys fall due and bans run out.             *)
LEMMA TimeStep ==
  ASSUME SshInv, TimePasses \/ \E c \in Conns : Ages(c)
  PROVE  SshInv'
<1>1. PoolInv /\ LimitsInv /\ DOMAIN conns = Conns /\ DOMAIN limits = Addrs
  BY DEF SshInv, PoolInv, LimitsInv
<1>2. ASSUME NEW c \in Live, NEW f \in {"age", "idle", "due"}, NEW v, conns' = Set(c, f, v),
             active' = active, limits' = limits /\ failed' = failed
      PROVE  SshInv'
  <2> DEFINE r == [conns[c] EXCEPT ![f] = v]
  <2>1. c \in Conns /\ conns[c].state # "free" /\ ConnOK(conns[c])
    BY <1>1 DEF PoolInv, Live
  <2>2. conns' = [conns EXCEPT ![c] = r]
    BY <1>1, <1>2, <2>1 DEF Set
  <2>3. /\ DOMAIN r = ConnFields /\ r.addr = conns[c].addr /\ r.state = conns[c].state
        /\ r.crypto = conns[c].crypto /\ r.proved = conns[c].proved
    BY <2>1 DEF ConnOK, ConnFields
  <2> HIDE DEF r
  <2>4. PoolInv'
    BY <1>1, <1>2, <2>1, <2>2, <2>3, FieldsKept, Zenon DEF ConnOK
  <2> QED
    BY <1>1, <1>2, <2>4, LimitsSame DEF SshInv
<1>3. ASSUME NEW c \in Conns, Ages(c) PROVE SshInv'
  <2>1. c \in Live
    BY <1>3 DEF Ages, Live, Handshake
  <2>2. \E age : conns' = Set(c, "age", age)
    BY <1>3 DEF Ages
  <2> QED
    BY <1>2, <1>3, <2>1, <2>2 DEF Ages, KeepTables
<1>4. ASSUME NEW c \in Live, conns' = Set(c, "idle", TRUE) \/ conns' = Set(c, "due", TRUE), KeepTables
      PROVE  SshInv'
  BY <1>2, <1>4, Zenon DEF KeepTables
<1>5. ASSUME NEW a \in Addrs, limits[a].ban = "on", limits' = [limits EXCEPT ![a].ban = "over"],
             UNCHANGED <<conns, active, failed, channels, session>>
      PROVE  SshInv'
  <2> DEFINE l == [limits[a] EXCEPT !.ban = "over"]
  <2>1. limits' = [limits EXCEPT ![a] = l]
    BY <1>1, <1>5
  <2>2. LimitOK(l) /\ l.known = limits[a].known /\ TallyOK(l, failed[a], Full)
    <3>1. LimitOK(limits[a]) /\ TallyOK(limits[a], failed[a], Full)
      BY <1>1 DEF LimitsInv
    <3>2. /\ DOMAIN l = DOMAIN limits[a] /\ l.known = limits[a].known
          /\ l.failures = limits[a].failures /\ l.ban = "over"
      BY <3>1 DEF LimitOK
    <3> HIDE DEF l
    <3>3. LimitOK(l)
      BY <3>1, <3>2 DEF LimitOK
    <3> QED
      BY <1>5, <3>1, <3>2, <3>3 DEF TallyOK
  <2> HIDE DEF l
  <2>3. LimitsInv'
    <3>1. Only(failed', failed, a, failed[a])
      BY <1>1, <1>5 DEF LimitsInv, Only
    <3>2. Only(limits', limits, a, l)
      BY <1>1, <2>1 DEF Only
    <3> QED
      BY <1>1, <1>5, <2>2, <3>1, <3>2, EntryKept, Zenon
  <2> QED
    BY <1>1, <1>5, <2>3, PoolSame DEF SshInv
<1> QED
  BY <1>3, <1>4, <1>5, Zenon DEF TimePasses

LEMMA SshInitOK == SshInit => SshInv
<1> SUFFICES ASSUME SshInit PROVE SshInv
  OBVIOUS
<1>1. ConnOK(FreeConn) /\ FreeConn.state = "free"
  BY DEF ConnOK, FreeConn, ConnFields, Open
<1>2. LimitOK(NoLimit)
  BY SshdAssumption DEF LimitOK, NoLimit
<1>3. Live = {} /\ Cardinality(Live) = 0
  BY <1>1, FS_EmptySet DEF SshInit, Live
<1>4. TallyOK(NoLimit, 0, Full)
  BY SshdAssumption DEF TallyOK, NoLimit
<1>5. IsFiniteSet(Known)
  <2>1. Known = {}
    BY DEF Known, SshInit, NoLimit
  <2> QED
    BY <2>1, FS_EmptySet
<1> QED
  BY <1>1, <1>2, <1>3, <1>4, <1>5 DEF SshInit, SshInv, PoolInv, LimitsInv

LEMMA SshStep == SshInv /\ [SshNext]_sshVars => SshInv'
<1> SUFFICES ASSUME SshInv, [SshNext]_sshVars PROVE SshInv'
  OBVIOUS
<1>1. CASE UNCHANGED sshVars
  BY <1>1, PoolSame, LimitsSame DEF SshInv, sshVars
<1>2. CASE Accept
  BY <1>2, AcceptStep
<1>3. CASE TimePasses \/ \E c \in Conns : Ages(c)
  BY <1>3, TimeStep
<1>4. ASSUME NEW c \in Conns, QuietTurn(c) PROVE SshInv'
  <2>1. CASE Timeout(c)
    <3>1. c \in Live /\ CloseConn(c)
      BY <2>1 DEF Timeout, TimedOut, Close, Live
    <3> QED
      BY <3>1, CloseKeeps, LimitsSame DEF SshInv
  <2>2. CASE \/ SendVersion(c) \/ ReceiveVersion(c) \/ ReceiveKexInit(c) \/ ReceiveKey(c)
             \/ Rekey(c)
    BY <2>2, KeyStep
  <2>3. CASE AuthOther(c) \/ AuthRejected(c) \/ AuthPassword(c) \/ AuthPublicKey(c)
    BY <2>3, AuthStep
  <2>4. CASE IdleTimeout(c) \/ Nothing(c) \/ Ignored(c) \/ Disconnect(c)
    BY <2>4, ServeStep DEF IdleTimeout, Nothing, Ignored, Disconnect, Reads, Close, Heard
  <2>5. ASSUME NEW id \in RemoteIds, ChannelOpen(c, id) \/ ChannelClose(c, id) \/ ChannelRequest(c, id)
        PROVE  SshInv'
    BY <2>5, ServeStep DEF ChannelOpen, ChannelClose, ChannelRequest, CloseChannel, Reads, Close, Heard
  <2> QED
    BY <1>4, <2>1, <2>2, <2>3, <2>4, <2>5 DEF QuietTurn
<1>5. ASSUME NEW c \in Conns, NEW id \in RemoteIds, RunsCommand(c, id) PROVE SshInv'
  BY <1>5, ServeStep DEF RunsCommand, CloseChannel, Reads, Heard
<1>6. CASE SessionEnds
  BY <1>6, PoolSame, LimitsSame DEF SshInv, SessionEnds
<1> QED
  BY <1>1, <1>2, <1>3, <1>4, <1>5, <1>6 DEF SshNext, SshQuiet

-----------------------------------------------------------------------------
(* process_connection serves channels only for a user who proved who they  *)
(* are over keys in use: through the renewal of the keys, failed attempts, *)
(* bans and the other connections' turns.                                  *)
THEOREM SshServesProvedUsers == SshSpec => []ServesProvedUsers
<1>1. SshInv => ServesProvedUsers
  BY DEF SshInv, PoolInv, ConnOK, Live, ServesProvedUsers
<1> QED
  BY <1>1, SshInitOK, SshStep, PTL DEF SshSpec

(* The accept loop's count is the number of connections, and an address    *)
(* that failed MaxFailures times is banned, whatever the interleaving of   *)
(* its connections -- or it is one of those that record_auth_failure could *)
(* not enter because the table was full.                                   *)
THEOREM SshAdmissionExact == SshSpec => []AdmissionExact
<1>1. SshInv => AdmissionExact
  BY SshdAssumption DEF SshInv, PoolInv, LimitsInv, LimitOK, TallyOK, Full, AdmissionExact
<1> QED
  BY <1>1, SshInitOK, SshStep, PTL DEF SshSpec

-----------------------------------------------------------------------------
(* The calls of the filesystem.                                            *)
FsOK(f) ==
  /\ DOMAIN f = {"live", "snap", "faults"}
  /\ DOMAIN f.live = Paths /\ DOMAIN f.snap = Paths

\* g is f but for the live entry of p.
But(f, g, p) == g.snap = f.snap /\ \A q \in Paths \ {p} : g.live[q] = f.live[q]

LEMMA PathsKnown ==
  /\ {UpdateDir, StagingPath, UpdateRecord, ServiceRecord} = Paths
  /\ UpdateRecord # UpdateDir /\ UpdateRecord # StagingPath /\ UpdateRecord # ServiceRecord
  /\ ServiceRecord # UpdateDir /\ ServiceRecord # StagingPath
  BY DEF Paths, UpdateDir, StagingPath, UpdateRecord, ServiceRecord

LEMMA FaultKeeps ==
  ASSUME NEW g, FsOK(g), NEW h, h = [g EXCEPT !.faults = @ + 1]
  PROVE  FsOK(h) /\ h.live = g.live /\ h.snap = g.snap
  BY DEF FsOK

LEMMA OutcomeOf ==
  ASSUME NEW f, NEW good, FsOK(good), NEW bad, \A g \in bad : FsOK(g),
         NEW o, o \in Outcomes(f, good, bad)
  PROVE  /\ FsOK(o.fs) /\ o.ok \in BOOLEAN
         /\ o.ok => o.fs = good
         /\ ~o.ok => \E g \in bad : o.fs.live = g.live /\ o.fs.snap = g.snap
<1>1. CASE o = [ok |-> TRUE, fs |-> good]
  BY <1>1
<1>2. ASSUME NEW g \in bad, o = [ok |-> FALSE, fs |-> [g EXCEPT !.faults = @ + 1]]
      PROVE  FsOK(o.fs) /\ o.ok = FALSE /\ o.fs.live = g.live /\ o.fs.snap = g.snap
  BY <1>2, FaultKeeps
<1> QED
  BY <1>1, <1>2, Zenon DEF Outcomes

LEMMA LiveSet ==
  ASSUME NEW f, FsOK(f), NEW p \in Paths, NEW e, NEW g, g = [f EXCEPT !.live[p] = e]
  PROVE  FsOK(g) /\ But(f, g, p) /\ g.live[p] = e
  BY DEF FsOK, But

(* A write sets one entry, or leaves the tree as it is.                    *)
Wrote(f, p, c, o) ==
  /\ FsOK(o.fs) /\ But(f, o.fs, p) /\ o.ok \in BOOLEAN
  /\ o.ok => o.fs.live[p] = FS!File(c)

LEMMA WriteFile ==
  ASSUME NEW f, FsOK(f), NEW p \in Paths, NEW c, NEW o \in write_file(f, p, c)
  PROVE  Wrote(f, p, c, o)
<1>1. CASE ~(ParentOf[p] = "/" \/ f.live[ParentOf[p]] = FS!Dir)
  <2>1. o = [ok |-> FALSE, fs |-> f]
    BY <1>1 DEF write_file
  <2> QED
    BY <2>1 DEF Wrote, But
<1>2. CASE ParentOf[p] = "/" \/ f.live[ParentOf[p]] = FS!Dir
  <2>1. PICK g : g = [f EXCEPT !.live[p] = FS!File(c)]
    BY Zenon
  <2>2. o \in Outcomes(f, g, {f})
    BY <1>2, <2>1 DEF write_file
  <2>3. FsOK(g) /\ But(f, g, p) /\ g.live[p] = FS!File(c)
    BY <2>1, LiveSet
  <2>4. /\ FsOK(o.fs) /\ o.ok \in BOOLEAN /\ (o.ok => o.fs = g)
        /\ ~o.ok => o.fs.live = f.live /\ o.fs.snap = f.snap
    BY <2>2, <2>3, OutcomeOf
  <2> QED
    BY <2>3, <2>4 DEF Wrote, But
<1> QED
  BY <1>1, <1>2

LEMMA MakeDir ==
  ASSUME NEW f, FsOK(f), NEW p \in Paths, NEW o \in mutable_fs_mkdir(f, p)
  PROVE  FsOK(o.fs) /\ But(f, o.fs, p)
<1>1. CASE f.live[p] # FS!Absent
  BY <1>1 DEF mutable_fs_mkdir, But
<1>2. CASE f.live[p] = FS!Absent
  <2>1. PICK g : g = [f EXCEPT !.live[p] = FS!Dir]
    BY Zenon
  <2>2. o \in Outcomes(f, g, {f})
    BY <1>2, <2>1 DEF mutable_fs_mkdir
  <2>3. FsOK(g) /\ But(f, g, p)
    BY <2>1, LiveSet
  <2>4. /\ FsOK(o.fs) /\ o.ok \in BOOLEAN /\ (o.ok => o.fs = g)
        /\ ~o.ok => o.fs.live = f.live /\ o.fs.snap = f.snap
    BY <2>2, <2>3, OutcomeOf
  <2> QED
    BY <2>3, <2>4 DEF But
<1> QED
  BY <1>1, <1>2

LEMMA PartlyTree ==
  ASSUME NEW from, NEW to, NEW t \in Partly(from, to)
  PROVE  DOMAIN t = Paths
  BY DEF Partly

LEMMA Commit ==
  ASSUME NEW f, FsOK(f), NEW o \in mutable_fs_commit(f)
  PROVE  FsOK(o.fs) /\ o.fs.live = f.live /\ o.ok \in BOOLEAN /\ (o.ok => o.fs.snap = f.live)
<1>1. PICK good : good = [f EXCEPT !.snap = f.live]
  BY Zenon
<1>2. PICK bad : bad = {[f EXCEPT !.snap = t] : t \in Partly(f.live, f.snap)}
  BY Zenon
<1>3. o \in Outcomes(f, good, bad)
  BY <1>1, <1>2 DEF mutable_fs_commit
<1>4. FsOK(good) /\ good.live = f.live /\ good.snap = f.live
  BY <1>1 DEF FsOK
<1>5. ASSUME NEW g \in bad PROVE FsOK(g) /\ g.live = f.live
  <2>1. PICK t \in Partly(f.live, f.snap) : g = [f EXCEPT !.snap = t]
    BY <1>2
  <2> QED
    BY <2>1, PartlyTree DEF FsOK
<1>6. /\ FsOK(o.fs) /\ o.ok \in BOOLEAN /\ (o.ok => o.fs = good)
      /\ ~o.ok => \E g \in bad : o.fs.live = g.live /\ o.fs.snap = g.snap
  BY <1>3, <1>4, <1>5, OutcomeOf
<1> QED
  BY <1>4, <1>5, <1>6

LEMMA Rollback ==
  ASSUME NEW f, FsOK(f), NEW o \in mutable_fs_rollback(f)
  PROVE  FsOK(o.fs) /\ o.fs.snap = f.snap /\ o.ok \in BOOLEAN
<1>1. PICK good : good = [f EXCEPT !.live = f.snap]
  BY Zenon
<1>2. PICK bad : bad = {[f EXCEPT !.live = t] : t \in Partly(f.snap, f.live)}
  BY Zenon
<1>3. o \in Outcomes(f, good, bad)
  BY <1>1, <1>2 DEF mutable_fs_rollback
<1>4. FsOK(good) /\ good.snap = f.snap
  BY <1>1 DEF FsOK
<1>5. ASSUME NEW g \in bad PROVE FsOK(g) /\ g.snap = f.snap
  <2>1. PICK t \in Partly(f.snap, f.live) : g = [f EXCEPT !.live = t]
    BY <1>2
  <2> QED
    BY <2>1, PartlyTree DEF FsOK
<1>6. /\ FsOK(o.fs) /\ o.ok \in BOOLEAN /\ (o.ok => o.fs = good)
      /\ ~o.ok => \E g \in bad : o.fs.live = g.live /\ o.fs.snap = g.snap
  BY <1>3, <1>4, <1>5, OutcomeOf
<1> QED
  BY <1>4, <1>5, <1>6

LEMMA Staged ==
  ASSUME NEW f, FsOK(f), NEW chunk, NEW o \in WriteStaging(f, chunk)
  PROVE  FsOK(o.fs) /\ But(f, o.fs, StagingPath)
<1>1. StagingPath \in Paths
  BY DEF Paths
<1>2. PICK opened : opened = IF f.live[StagingPath] = FS!Absent
                             THEN write_file(f, StagingPath, <<>>)
                             ELSE {[ok |-> TRUE, fs |-> f]}
  BY Zenon
<1>3. PICK w \in opened :
        o \in OrFailed(w, IF w.fs.live[StagingPath] = FS!Broken
                          THEN {[ok |-> FALSE, fs |-> w.fs]}
                          ELSE write_file(w.fs, StagingPath,
                                          Overwritten(w.fs.live[StagingPath][2], chunk)))
  BY <1>2, Zenon DEF WriteStaging
<1>4. FsOK(w.fs) /\ But(f, w.fs, StagingPath)
  <2>1. CASE w \in write_file(f, StagingPath, <<>>)
    BY <1>1, <2>1, WriteFile DEF Wrote
  <2>2. CASE w = [ok |-> TRUE, fs |-> f]
    BY <2>2 DEF But
  <2> QED
    BY <1>2, <2>1, <2>2
<1>5. \/ o = w \/ o = [ok |-> FALSE, fs |-> w.fs]
      \/ \E c : o \in write_file(w.fs, StagingPath, c)
  BY <1>3 DEF OrFailed
<1>6. ASSUME NEW c, o \in write_file(w.fs, StagingPath, c)
      PROVE  FsOK(o.fs) /\ But(w.fs, o.fs, StagingPath)
  BY <1>1, <1>4, <1>6, WriteFile DEF Wrote
<1> QED
  BY <1>4, <1>5, <1>6 DEF But

-----------------------------------------------------------------------------
(* The update manager.  While a transaction is active its rollback point   *)
(* is the last snapshot of the registry: nobody else makes any.            *)
TxOK ==
  /\ FsOK(fs)
  /\ DOMAIN tx = {"active", "generation", "state"} /\ tx.active \in BOOLEAN

Kinds == {"boot-config", "service", "workspace", "sandbox", "update"}

RegistryOK ==
  /\ snapshots \in Seq([kind : Kinds, owner : Nat, generation : Nat])
  /\ \A i \in DOMAIN snapshots : snapshots[i].generation = i
  /\ tx.active => /\ point = Len(snapshots) /\ Len(snapshots) > 0
                  /\ snapshots[point].kind = "update" /\ snapshots[point].owner = 0

SignaturesOK ==
  /\ accepted \in Seq(Nat) /\ last_generation \in Nat
  /\ \A i \in 1 .. Len(accepted) : accepted[i] <= last_generation
  /\ GenerationsGrow

RecordsOK == RecordMatches /\ SnapshotKnowsTransaction

UpdateInv == TxOK /\ RegistryOK /\ SignaturesOK /\ RecordsOK

LEMMA PointFound == RegistryOK => OwnRollbackPoint
<1>1. SUFFICES ASSUME RegistryOK, tx.active PROVE find_snapshot("update", 0) = {point}
  BY DEF OwnRollbackPoint
<1>2. DOMAIN snapshots = 1 .. Len(snapshots) /\ Len(snapshots) \in Nat
  BY <1>1 DEF RegistryOK
<1>3. point \in DOMAIN snapshots /\ \A j \in DOMAIN snapshots : j <= point
  BY <1>1, <1>2 DEF RegistryOK
<1>4. point \in find_snapshot("update", 0)
  BY <1>1, <1>3 DEF RegistryOK, find_snapshot
<1>5. ASSUME NEW i \in find_snapshot("update", 0) PROVE i = point
  <2>1. i \in DOMAIN snapshots /\ snapshots[point].generation <= snapshots[i].generation
    BY <1>1, <1>3 DEF RegistryOK, find_snapshot
  <2> QED
    BY <1>1, <1>2, <1>3, <2>1 DEF RegistryOK
<1> QED
  BY <1>4, <1>5

(* Steps that leave the transaction alone.                                 *)
LEMMA TxKept ==
  ASSUME TxOK, RecordsOK, UNCHANGED <<tx, clean>>, FsOK(fs'),
         fs'.live[UpdateRecord] = fs.live[UpdateRecord],
         fs'.snap[UpdateRecord] = fs.snap[UpdateRecord]
  PROVE  TxOK' /\ RecordsOK'
  BY DEF TxOK, RecordsOK, RecordMatches, SnapshotKnowsTransaction

LEMMA ButKeeps ==
  ASSUME NEW f, NEW g, NEW p, p # UpdateRecord, But(f, g, p)
  PROVE  g.live[UpdateRecord] = f.live[UpdateRecord] /\ g.snap[UpdateRecord] = f.snap[UpdateRecord]
  BY DEF But, Paths

LEMMA RegistryKept ==
  ASSUME RegistryOK, UNCHANGED <<snapshots, point>>, tx'.active => tx.active
  PROVE  RegistryOK'
  BY DEF RegistryOK

LEMMA SignaturesKept ==
  ASSUME SignaturesOK, UNCHANGED <<accepted, last_generation>>
  PROVE  SignaturesOK'
  BY DEF SignaturesOK, GenerationsGrow

LEMMA SignatureUsed ==
  ASSUME SignaturesOK, NEW s \in Signatures, security_authorize_update_signature(s)
  PROVE  SignaturesOK'
<1>1. s \in Nat /\ s > last_generation /\ last_generation' = s /\ accepted' = Append(accepted, s)
  BY UpdateAssumption DEF security_authorize_update_signature, UseGeneration
<1>2. /\ accepted' \in Seq(Nat) /\ Len(accepted') = Len(accepted) + 1 /\ Len(accepted) \in Nat
      /\ accepted'[Len(accepted) + 1] = s
      /\ \A i \in 1 .. Len(accepted) : accepted'[i] = accepted[i] /\ accepted[i] \in Nat
  BY <1>1 DEF SignaturesOK
<1>3. \A i \in 1 .. Len(accepted') : accepted'[i] <= last_generation'
  BY <1>1, <1>2 DEF SignaturesOK
<1>4. GenerationsGrow'
  <2>1. SUFFICES ASSUME NEW i \in 1 .. (Len(accepted') - 1)
                 PROVE  accepted'[i] < accepted'[i + 1]
    BY DEF GenerationsGrow
  <2>2. CASE i = Len(accepted)
    BY <1>1, <1>2, <2>2 DEF SignaturesOK
  <2>3. CASE i < Len(accepted)
    <3>1. i \in 1 .. (Len(accepted) - 1) /\ i \in 1 .. Len(accepted) /\ i + 1 \in 1 .. Len(accepted)
      BY <1>2, <2>3
    <3>2. accepted[i] < accepted[i + 1]
      BY <3>1 DEF SignaturesOK, GenerationsGrow
    <3> QED
      BY <1>2, <3>1, <3>2
  <2>4. i \in Int /\ (i = Len(accepted) \/ i < Len(accepted))
    BY <1>2, <2>1
  <2> QED
    BY <2>2, <2>3, <2>4
<1> QED
  BY <1>1, <1>2, <1>3, <1>4 DEF SignaturesOK

(* A call that records the state of the transaction, last.                 *)
LEMMA Recorded ==
  ASSUME NEW f, FsOK(f), NEW t, NEW o \in persist_update_state(f, t)
  PROVE  /\ FsOK(o.fs) /\ But(f, o.fs, UpdateRecord) /\ o.ok \in BOOLEAN
         /\ o.ok => o.fs.live[UpdateRecord] = FS!File(<<t.generation, t.state>>)
<1>1. UpdateRecord \in Paths
  BY DEF Paths
<1> QED
  BY <1>1, WriteFile DEF persist_update_state, Wrote

LEMMA Advanced ==
  ASSUME TxOK, NEW s, Advance(s)
  PROVE  /\ DOMAIN tx' = {"active", "generation", "state"} /\ tx'.active = tx.active
         /\ tx'.state = s /\ tx'.generation = tx.generation
  BY DEF TxOK, Advance

LEMMA RecordedOnly ==
  ASSUME TxOK, Advance("failed"), \E o \in Record(fs) : fs' = o.fs /\ clean' = o.ok
  PROVE  TxOK' /\ RecordsOK' /\ But(fs, fs', UpdateRecord)
<1>1. PICK o \in persist_update_state(fs, tx') : fs' = o.fs /\ clean' = o.ok
  BY DEF Record
<1>2. /\ FsOK(fs') /\ But(fs, fs', UpdateRecord)
      /\ clean' => fs'.live[UpdateRecord] = FS!File(<<tx'.generation, tx'.state>>)
  BY <1>1, Recorded, Zenon DEF TxOK
<1>3. DOMAIN tx' = {"active", "generation", "state"} /\ tx'.active \in BOOLEAN /\ tx'.state = "failed"
  BY Advanced DEF TxOK
<1> QED
  BY <1>2, <1>3, Zenon DEF TxOK, RecordsOK, RecordMatches, SnapshotKnowsTransaction

LEMMA RecordedAndCommitted ==
  ASSUME TxOK, NEW s, Advance(s), RecordAndCommit
  PROVE  /\ TxOK' /\ RecordsOK'
         /\ \A q \in Paths \ {UpdateRecord} : fs'.live[q] = fs.live[q]
<1>1. PICK o \in persist_update_state(fs, tx') :
        \E c \in OrFailed(o, mutable_fs_commit(o.fs)) : fs' = c.fs /\ clean' = c.ok
  BY DEF RecordAndCommit, Record
<1>2. PICK c \in OrFailed(o, mutable_fs_commit(o.fs)) : fs' = c.fs /\ clean' = c.ok
  BY <1>1
<1>3. /\ FsOK(o.fs) /\ But(fs, o.fs, UpdateRecord) /\ o.ok \in BOOLEAN
      /\ o.ok => o.fs.live[UpdateRecord] = FS!File(<<tx'.generation, tx'.state>>)
  BY <1>1, Recorded DEF TxOK
<1>4. DOMAIN tx' = {"active", "generation", "state"} /\ tx'.active \in BOOLEAN
  BY Advanced, Zenon DEF TxOK
<1>5. CASE ~o.ok
  <2>1. c = o
    BY <1>2, <1>5 DEF OrFailed
  <2> QED
    BY <1>2, <1>3, <1>4, <1>5, <2>1, Zenon DEF TxOK, RecordsOK, RecordMatches, SnapshotKnowsTransaction, But
<1>6. CASE o.ok
  <2>1. /\ FsOK(c.fs) /\ c.fs.live = o.fs.live /\ (c.ok => c.fs.snap = o.fs.live)
    BY <1>2, <1>3, <1>6, Commit, Zenon DEF OrFailed
  <2> QED
    BY <1>2, <1>3, <1>4, <1>6, <2>1, Zenon DEF TxOK, RecordsOK, RecordMatches, SnapshotKnowsTransaction, But
<1> QED
  BY <1>3, <1>5, <1>6, Zenon

(* Going back: only a rollback that succeeds is recorded, and its record   *)
(* ends the transaction.                                                   *)
LEMMA Undone ==
  ASSUME TxOK, tx.active, NEW s \in {"recovered", "rolled-back"}, Undo(s)
  PROVE  TxOK' /\ RecordsOK'
<1>1. PICK r \in mutable_fs_rollback(fs) :
        \/ ~r.ok /\ fs' = r.fs /\ clean' = FALSE /\ UNCHANGED tx
        \/ /\ r.ok
           /\ \E o \in persist_update_state(r.fs, [tx EXCEPT !.state = s]) :
                /\ fs' = o.fs /\ clean' = o.ok
                /\ tx' = [tx EXCEPT !.state = s, !.active = ~o.ok]
  BY Zenon DEF Undo
<1>2. FsOK(r.fs)
  BY Rollback DEF TxOK
<1>3. CASE ~r.ok /\ fs' = r.fs /\ clean' = FALSE /\ UNCHANGED tx
  BY <1>2, <1>3, Zenon DEF TxOK, RecordsOK, RecordMatches, SnapshotKnowsTransaction
<1>4. ASSUME NEW o \in persist_update_state(r.fs, [tx EXCEPT !.state = s]),
             fs' = o.fs, clean' = o.ok, tx' = [tx EXCEPT !.state = s, !.active = ~o.ok]
      PROVE  TxOK' /\ RecordsOK'
  <2>1. FsOK(fs') /\ o.ok \in BOOLEAN
    BY <1>2, <1>4, Recorded, Zenon
  <2>2. DOMAIN tx' = {"active", "generation", "state"} /\ tx'.active = ~o.ok
    BY <1>4 DEF TxOK
  <2> QED
    BY <1>4, <2>1, <2>2, Zenon DEF TxOK, RecordsOK, RecordMatches, SnapshotKnowsTransaction
<1> QED
  BY <1>1, <1>3, <1>4, ZenonT(60)

LEMMA ChildKept ==
  ASSUME NEW f, NEW g, NEW p, p # ServiceRecord, But(f, g, p)
  PROVE  g.live[ServiceRecord] = f.live[ServiceRecord]
  BY DEF But, Paths

KeepsChild == fs'.live[ServiceRecord] = fs.live[ServiceRecord]

LEMMA InitStep ==
  ASSUME UpdateInv, update_runtime_init
  PROVE  UpdateInv' /\ KeepsChild
<1>1. PICK o \in mutable_fs_mkdir(fs, UpdateDir) : fs' = o.fs
  BY DEF update_runtime_init
<1>2. FsOK(fs') /\ But(fs, fs', UpdateDir)
  BY <1>1, MakeDir, PathsKnown DEF UpdateInv, TxOK
<1>3. DOMAIN tx' = {"active", "generation", "state"} /\ tx'.active = FALSE
  BY DEF update_runtime_init, Idle
<1>4. TxOK' /\ RecordsOK'
  BY <1>2, <1>3, Zenon DEF TxOK, RecordsOK, RecordMatches, SnapshotKnowsTransaction
<1>5. RegistryOK' /\ SignaturesOK'
  BY <1>3, RegistryKept, SignaturesKept DEF UpdateInv, update_runtime_init
<1> QED
  BY <1>2, <1>4, <1>5, ChildKept, PathsKnown, Zenon DEF UpdateInv, KeepsChild

LEMMA RegistryGrows ==
  ASSUME RegistryOK, NEW new, Len(snapshots) < MaxSnapshots,
         new = persistence_snapshot_create("update", 0)
  PROVE  /\ new \in Seq([kind : Kinds, owner : Nat, generation : Nat])
         /\ Len(new) = Len(snapshots) + 1 /\ Len(new) > 0
         /\ new[Len(new)].kind = "update" /\ new[Len(new)].owner = 0
         /\ \A i \in DOMAIN new : new[i].generation = i
<1>1. PICK r : r = Snapshot("update", 0)
  OBVIOUS
<1>2. Len(snapshots) \in Nat
  BY DEF RegistryOK
<1>3. /\ r \in [kind : Kinds, owner : Nat, generation : Nat]
      /\ r.kind = "update" /\ r.owner = 0 /\ r.generation = Len(snapshots) + 1
  <2>1. r = [kind |-> "update", owner |-> 0, generation |-> Len(snapshots) + 1]
    BY <1>1 DEF Snapshot
  <2>2. 0 \in Nat /\ Len(snapshots) + 1 \in Nat
    BY <1>2
  <2>3. "update" \in Kinds
    BY DEF Kinds
  <2> QED
    BY <2>1, <2>2, <2>3
<1>4. new = Append(snapshots, r)
  BY <1>1 DEF persistence_snapshot_create
<1>5. PICK S : S = [kind : Kinds, owner : Nat, generation : Nat]
  BY ZenonT(60)
<1>6. /\ new \in Seq(S) /\ Len(new) = Len(snapshots) + 1
      /\ new[Len(snapshots) + 1] = r /\ DOMAIN new = 1 .. (Len(snapshots) + 1)
      /\ DOMAIN snapshots = 1 .. Len(snapshots)
      /\ \A i \in 1 .. Len(snapshots) : new[i] = snapshots[i]
  <2>1. snapshots \in Seq(S) /\ r \in S
    BY <1>3, <1>5 DEF RegistryOK
  <2> QED
    BY <1>4, <2>1
<1>7. ASSUME NEW i \in DOMAIN new PROVE new[i].generation = i
  <2>1. CASE i = Len(snapshots) + 1
    BY <1>3, <1>6, <2>1
  <2>2. CASE i \in 1 .. Len(snapshots)
    BY <1>6, <2>2 DEF RegistryOK
  <2> QED
    BY <1>2, <1>6, <2>1, <2>2
<1>8. new[Len(new)] = r /\ Len(new) > 0
  BY <1>2, <1>6
<1>9. new \in Seq([kind : Kinds, owner : Nat, generation : Nat])
  BY <1>5, <1>6, Zenon
<1> QED
  BY <1>3, <1>6, <1>7, <1>8, <1>9

LEMMA BeginStep ==
  ASSUME UpdateInv, NEW g \in Generations, NEW s \in Signatures, update_begin(g, s)
  PROVE  UpdateInv' /\ KeepsChild
<1>1. PICK t : t = [active |-> TRUE, generation |-> g, state |-> "pending"]
  BY Zenon
<1>2. /\ snapshots' = persistence_snapshot_create("update", 0)
      /\ \/ Len(snapshots) >= MaxSnapshots /\ tx' = Idle /\ UNCHANGED <<fs, point>>
         \/ /\ ~(Len(snapshots) >= MaxSnapshots) /\ point' = Len(snapshots')
            /\ \E o \in persist_update_state(fs, t) :
                 fs' = o.fs /\ tx' = IF o.ok THEN t ELSE Idle
      /\ clean' = TRUE
  BY <1>1, Zenon DEF update_begin
<1>3. SignaturesOK'
  BY SignatureUsed DEF UpdateInv, update_begin
<1>4. /\ DOMAIN Idle = {"active", "generation", "state"} /\ Idle.active = FALSE
      /\ DOMAIN t = {"active", "generation", "state"} /\ t.active = TRUE /\ t.state = "pending"
  BY <1>1 DEF Idle
<1>5. CASE Len(snapshots) >= MaxSnapshots /\ tx' = Idle /\ UNCHANGED <<fs, point>>
  <2>1. snapshots' = snapshots
    BY <1>2, <1>5, UpdateAssumption DEF persistence_snapshot_create, UpdateInv, RegistryOK
  <2>2. RegistryOK'
    BY <1>4, <1>5, <2>1, RegistryKept DEF UpdateInv
  <2>3. TxOK' /\ RecordsOK'
    BY <1>4, <1>5, Zenon DEF UpdateInv, TxOK, RecordsOK, RecordMatches, SnapshotKnowsTransaction
  <2> QED
    BY <1>3, <1>5, <2>2, <2>3 DEF UpdateInv, KeepsChild
<1>6. ASSUME ~(Len(snapshots) >= MaxSnapshots), point' = Len(snapshots'),
             NEW o \in persist_update_state(fs, t), fs' = o.fs,
             tx' = IF o.ok THEN t ELSE Idle
      PROVE  UpdateInv' /\ KeepsChild
  <2>1. Len(snapshots) < MaxSnapshots
    BY <1>6, UpdateAssumption DEF UpdateInv, RegistryOK
  <2>2. RegistryOK'
    BY <1>2, <1>6, <2>1, RegistryGrows, Zenon DEF UpdateInv, RegistryOK
  <2>3. /\ FsOK(fs') /\ But(fs, fs', UpdateRecord) /\ o.ok \in BOOLEAN
        /\ o.ok => fs'.live[UpdateRecord] = FS!File(<<t.generation, t.state>>)
    BY <1>6, Recorded, Zenon DEF UpdateInv, TxOK
  <2>4. TxOK' /\ RecordsOK'
    BY <1>4, <1>6, <2>3, Zenon DEF TxOK, RecordsOK, RecordMatches, SnapshotKnowsTransaction
  <2> QED
    BY <1>3, <2>2, <2>3, <2>4, ChildKept, PathsKnown, Zenon DEF UpdateInv, KeepsChild
<1> QED
  BY <1>2, <1>5, <1>6

(* The steps inside a transaction.                                         *)
LEMMA InsideKeeps ==
  ASSUME UpdateInv, TxOK', RecordsOK', tx'.active => tx.active,
         UNCHANGED <<snapshots, point, accepted, last_generation>>
  PROVE  UpdateInv'
  BY RegistryKept, SignaturesKept DEF UpdateInv

LEMMA AdvanceStep ==
  ASSUME UpdateInv, NEW s, Advance(s),
         RecordAndCommit \/ (s = "failed" /\ \E o \in Record(fs) : fs' = o.fs /\ clean' = o.ok),
         UNCHANGED <<snapshots, point, accepted, last_generation>>
  PROVE  UpdateInv' /\ KeepsChild
<1>1. TxOK' /\ RecordsOK' /\ \A q \in Paths \ {UpdateRecord} : fs'.live[q] = fs.live[q]
  BY RecordedOnly, RecordedAndCommitted, Zenon DEF UpdateInv, But
<1>2. tx'.active = tx.active
  BY Advanced, Zenon DEF UpdateInv
<1> QED
  BY <1>1, <1>2, InsideKeeps, PathsKnown DEF KeepsChild

LEMMA ChunkStep ==
  ASSUME UpdateInv, NEW c \in Chunks, update_stage_chunk(c)
  PROVE  UpdateInv' /\ KeepsChild
<1>1. PICK o \in WriteStaging(fs, c) : fs' = o.fs
  BY DEF update_stage_chunk
<1>2. FsOK(fs') /\ But(fs, fs', StagingPath)
  BY <1>1, Staged DEF UpdateInv, TxOK
<1>3. TxOK' /\ RecordsOK'
  BY <1>2, TxKept, ButKeeps, PathsKnown DEF UpdateInv, update_stage_chunk
<1> QED
  BY <1>2, <1>3, InsideKeeps, ChildKept, PathsKnown DEF KeepsChild, update_stage_chunk

LEMMA UpdateStep ==
  ASSUME UpdateInv, UpdateNext
  PROVE  UpdateInv' /\ KeepsChild
<1>1. CASE update_runtime_init
  BY <1>1, InitStep
<1>2. ASSUME NEW g \in Generations, NEW s \in Signatures, update_begin(g, s)
      PROVE  UpdateInv' /\ KeepsChild
  BY <1>2, BeginStep
<1>3. CASE update_stage
  BY <1>3, AdvanceStep DEF update_stage
<1>4. CASE update_commit
  BY <1>4, AdvanceStep DEF update_commit
<1>5. CASE update_fail
  BY <1>5, AdvanceStep DEF update_fail
<1>6. ASSUME NEW c \in Chunks, update_stage_chunk(c) PROVE UpdateInv' /\ KeepsChild
  BY <1>6, ChunkStep
<1>7. ASSUME NEW match \in BOOLEAN, update_verify_hash(match) PROVE UpdateInv' /\ KeepsChild
  BY <1>7, AdvanceStep DEF update_verify_hash
<1>8. ASSUME NEW n \in Sizes, update_parse_manifest(n) PROVE UpdateInv' /\ KeepsChild
  <2>1. TxOK' /\ RecordsOK'
    BY <1>8, TxKept DEF update_parse_manifest, UpdateInv, TxOK
  <2> QED
    BY <1>8, <2>1, InsideKeeps DEF update_parse_manifest, KeepsChild
<1> QED
  BY <1>1, <1>2, <1>3, <1>4, <1>5, <1>6, <1>7, <1>8 DEF UpdateNext

LEMMA UndoStep ==
  ASSUME UpdateInv, UndoNext
  PROVE  UpdateInv'
<1>1. PICK s \in {"recovered", "rolled-back"} : tx.active /\ Undo(s)
  BY DEF UndoNext, update_recover_boot, update_rollback
<1>2. TxOK' /\ RecordsOK'
  BY <1>1, Undone DEF UpdateInv
<1> QED
  BY <1>1, <1>2, InsideKeeps, Zenon DEF Undo

-----------------------------------------------------------------------------
(* The supervisor.  A restart is granted only after an attempt was counted *)
(* and found within the budget, so the attempts bound what was granted.    *)
LimitValues == Nat \cup {Unlimited}

ServiceFields == {"known", "state", "late", "policy", "limit", "starts", "attempts"}

ServiceOK(s) ==
  DOMAIN s = ServiceFields /\ s.starts \in Nat /\ s.attempts \in Nat /\ s.limit \in LimitValues

BudgetOK(s, g) ==
  g \in Nat /\ g <= s.attempts /\ (s.limit # Unlimited => g <= s.limit)

SavedOK == saved.limit \in LimitValues /\ saved.starts \in Nat /\ saved.attempts \in Nat

ServicesOK ==
  /\ bound \in Bounds /\ SavedOK
  /\ DOMAIN services = Names /\ \A n \in Names : ServiceOK(services[n])

GrantsOK == DOMAIN granted = Names /\ \A n \in Names : BudgetOK(services[n], granted[n])

RingOK ==
  /\ DOMAIN dumps = 0 .. (DumpMax - 1) /\ crashes \in Seq(Names \X Nat)
  /\ DumpsAreLatest

ServiceInv == ServicesOK /\ GrantsOK /\ RingOK /\ ChildRecordMatches

Inv == UpdateInv /\ ServiceInv

-----------------------------------------------------------------------------
(* The ring of crash dumps.                                                *)
LEMMA NoMultiple ==
  ASSUME NEW M \in Nat \ {0}, NEW q \in Int, NEW r \in Int
  PROVE  q * M - r * M <= 0 \/ q * M - r * M >= M
<1>1. PICK d \in Int : d = q - r
  OBVIOUS
<1>2. q * M - r * M = d * M
  BY <1>1
<1>3. CASE d <= 0
  <2>1. d * M <= 0
    BY <1>3
  <2> QED
    BY <1>2, <2>1
<1>4. CASE d >= 1
  <2>1. d * M >= M
    BY <1>4
  <2> QED
    BY <1>2, <2>1
<1> QED
  BY <1>3, <1>4

LEMMA DivMod ==
  ASSUME NEW x \in Nat, NEW M \in Nat \ {0}
  PROVE  x = (x \div M) * M + (x % M) /\ x \div M \in Int /\ x % M \in 0 .. (M - 1)
<1>1. x = (x \div M) * M + (x % M)
  OBVIOUS
<1>2. x \div M \in Int /\ x % M \in 0 .. (M - 1)
  OBVIOUS
<1> QED
  BY <1>1, <1>2

LEMMA SlotsDiffer ==
  ASSUME NEW M \in Nat \ {0}, NEW a \in Nat, NEW b \in Nat, a < b, b - a < M
  PROVE  a % M # b % M
<1>1. SUFFICES ASSUME a % M = b % M PROVE FALSE
  OBVIOUS
<1>2. PICK q \in Int, m \in Int : q = b \div M /\ m = b % M /\ b = q * M + m
  BY DivMod
<1>3. PICK r \in Int : r = a \div M /\ a = r * M + m
  BY <1>1, <1>2, DivMod, ZenonT(60)
<1>4. q * M \in Int /\ r * M \in Int
  OBVIOUS
<1>5. b - a = q * M - r * M
  BY <1>2, <1>3, <1>4
<1> QED
  BY <1>4, <1>5, NoMultiple

LEMMA SlotRange ==
  ASSUME NEW M \in Nat \ {0}, NEW a \in Nat
  PROVE  a % M \in 0 .. (M - 1)
  OBVIOUS

\* Of the crashes that fall into the slot of a recent one, it is the last.
LEMMA LastInSlot ==
  ASSUME NEW M \in Nat \ {0}, NEW L \in Nat, NEW K \in Nat, NEW k \in 1 .. (L + K),
         k > L + K - M, NEW i \in 1 .. K, (L + i - 1) % M = (k - 1) % M
  PROVE  L + i <= k
<1>1. k - 1 \in Nat /\ L + i - 1 \in Nat /\ k \in Nat /\ i \in Nat
  OBVIOUS
<1>2. SUFFICES ASSUME L + i > k PROVE FALSE
  BY <1>1
<1>3. k - 1 < L + i - 1 /\ (L + i - 1) - (k - 1) < M
  BY <1>1, <1>2
<1> QED
  BY <1>1, <1>3, SlotsDiffer, Zenon

LEMMA RingGrows ==
  ASSUME RingOK, NEW new \in Seq(Names \X Nat), Dump(new)
  PROVE  RingOK'
<1> DEFINE L == Len(crashes)
           K == Len(new)
           M == DumpMax
           into(j) == {i \in DOMAIN new : (L + i - 1) % M = j}
           last(S) == CHOOSE i \in S : \A k \in S : k <= i
<1>1. L \in Nat /\ K \in Nat /\ M \in Nat \ {0}
  BY ServiceAssumption DEF RingOK
<1>2. /\ DOMAIN new = 1 .. K
      /\ Len(crashes') = L + K /\ crashes' \in Seq(Names \X Nat)
      /\ \A k \in 1 .. L : crashes'[k] = crashes[k]
      /\ \A i \in 1 .. K : crashes'[L + i] = new[i]
  <2>1. PICK S : S = Names \X Nat
    BY Zenon
  <2>2. crashes \in Seq(S) /\ new \in Seq(S)
    BY <2>1 DEF RingOK
  <2>3. crashes \o new \in Seq(S)
    BY <2>2
  <2>4. /\ DOMAIN new = 1 .. K
        /\ Len(crashes \o new) = L + K
        /\ \A k \in 1 .. L : (crashes \o new)[k] = crashes[k]
        /\ \A i \in 1 .. K : (crashes \o new)[L + i] = new[i]
    BY <2>2
  <2>5. crashes' = crashes \o new
    BY DEF Dump
  <2> QED
    BY <2>1, <2>3, <2>4, <2>5
<1>3. dumps' = [j \in 0..(M - 1) |-> IF into(j) = {} THEN dumps[j] ELSE new[last(into(j))]]
  BY Zenon DEF Dump
<1> HIDE DEF L, K, M
<1>4. ASSUME NEW k \in 1 .. (L + K), k > L + K - M
      PROVE  dumps'[(k - 1) % M] = crashes'[k]
  <2>1. PICK j : j = (k - 1) % M
    OBVIOUS
  <2>2. k \in Nat /\ k - 1 \in Nat
    BY <1>1
  <2>3. j \in 0 .. (M - 1)
    BY <1>1, <2>1, <2>2, SlotRange
  <2>4. ASSUME NEW i \in into(j) PROVE i \in 1 .. K /\ L + i <= k
    BY <1>1, <1>2, <1>4, <2>1, LastInSlot, Zenon
  <2>5. dumps'[j] = IF into(j) = {} THEN dumps[j] ELSE new[last(into(j))]
    BY <1>3, <2>3
  <2> HIDE DEF into, last
  <2>6. CASE k > L
    <3>1. PICK i \in 1 .. K : L + i = k
      <4>1. k - L \in 1 .. K /\ L + (k - L) = k
        BY <1>1, <2>2, <2>6
      <4> QED
        BY <4>1
    <3>2. i \in into(j)
      <4>1. L + i - 1 = k - 1
        BY <1>1, <3>1
      <4> QED
        BY <1>2, <2>1, <3>1, <4>1 DEF into
    <3>3. \A h \in into(j) : h \in Nat /\ h <= i
      BY <1>1, <2>4, <3>1
    <3>4. last(into(j)) \in into(j) /\ \A h \in into(j) : h <= last(into(j))
      BY <3>2, <3>3, Zenon DEF last
    <3>5. last(into(j)) = i
      <4>1. PICK h \in into(j) : h = last(into(j))
        BY <3>4
      <4>2. h \in Nat /\ h <= i /\ i <= h /\ i \in Nat
        BY <3>2, <3>3, <3>4, <4>1
      <4> QED
        BY <4>1, <4>2
    <3> QED
      BY <1>2, <2>1, <2>5, <3>1, <3>2, <3>5, Zenon
  <2>7. CASE k <= L
    <3>1. ASSUME NEW i \in into(j) PROVE FALSE
      BY <1>1, <2>2, <2>4, <2>7, <3>1
    <3>2. dumps'[j] = dumps[j]
      BY <2>5, <3>1
    <3>3. k \in 1 .. L /\ k > L - M
      BY <1>1, <1>4, <2>2, <2>7
    <3> QED
      BY <1>2, <2>1, <3>2, <3>3, Zenon DEF RingOK, DumpsAreLatest, L, M
  <2> QED
    BY <1>1, <2>2, <2>6, <2>7
<1>5. DumpsAreLatest'
  <2>1. SUFFICES ASSUME NEW k \in 1 .. Len(crashes'), k > Len(crashes') - DumpMax
                 PROVE  dumps'[(k - 1) % DumpMax] = crashes'[k]
    BY DEF DumpsAreLatest
  <2>2. k \in 1 .. (L + K) /\ k > L + K - M
    <3>1. Len(crashes') = L + K /\ M = DumpMax
      BY <1>2 DEF M
    <3> QED
      BY <1>1, <2>1, <3>1
  <2>3. dumps'[(k - 1) % M] = crashes'[k]
    BY <1>4, <2>2
  <2> QED
    BY <2>3 DEF M
<1>6. DOMAIN dumps' = 0 .. (DumpMax - 1)
  BY <1>3 DEF M
<1> QED
  BY <1>2, <1>5, <1>6 DEF RingOK

-----------------------------------------------------------------------------
(* The transitions of one service.                                         *)
LEMMA Started ==
  ASSUME NEW s, ServiceOK(s), NEW t, t = start_service(s)
  PROVE  /\ ServiceOK(t) /\ t.state = "running" /\ t.late = FALSE /\ t.starts = s.starts + 1
         /\ t.attempts = s.attempts /\ t.limit = s.limit
  BY DEF ServiceOK, ServiceFields, start_service

LEMMA AttemptCounted ==
  ASSUME NEW s, ServiceOK(s), NEW t, t = [s EXCEPT !.attempts = @ + 1]
  PROVE  /\ ServiceOK(t) /\ t.attempts = s.attempts + 1 /\ t.limit = s.limit
         /\ t.state = s.state /\ t.starts = s.starts
  BY DEF ServiceOK, ServiceFields

LEMMA Stopped ==
  ASSUME NEW s, ServiceOK(s), NEW v, NEW t, t = [s EXCEPT !.state = v]
  PROVE  /\ ServiceOK(t) /\ t.attempts = s.attempts /\ t.limit = s.limit /\ t.state = v
         /\ t.starts = s.starts
  BY DEF ServiceOK, ServiceFields

\* An attempt that is within the budget pays for one restart.
LEMMA AttemptPays ==
  ASSUME NEW s, ServiceOK(s), NEW g, BudgetOK(s, g), NEW t, ServiceOK(t),
         t.attempts = s.attempts + 1, t.limit = s.limit
  PROVE  BudgetOK(t, g) /\ (~OverBudget(t) => BudgetOK(t, g + 1))
<1>1. /\ s.attempts \in Nat /\ g \in Nat /\ g <= s.attempts
      /\ t.attempts = s.attempts + 1 /\ t.limit = s.limit
      /\ s.limit = Unlimited \/ s.limit \in Nat
      /\ s.limit # Unlimited => g <= s.limit
  BY DEF ServiceOK, BudgetOK, LimitValues
<1>2. BudgetOK(t, g)
  BY <1>1 DEF BudgetOK
<1>3. ASSUME ~OverBudget(t) PROVE BudgetOK(t, g + 1)
  BY <1>1, <1>3 DEF BudgetOK, OverBudget
<1> QED
  BY <1>2, <1>3

\* A service that was started again is within its budget, and its heartbeat
\* is new.
RestartOK(s, g, t) ==
  /\ ServiceOK(t) /\ BudgetOK(t, g)
  /\ t.state = "running" => BudgetOK(t, g + 1) /\ t.late = FALSE

LEMMA CrashRestarts ==
  ASSUME NEW s, ServiceOK(s), NEW g, BudgetOK(s, g), NEW supervised \in BOOLEAN,
         NEW t, t = Crashed(s, supervised)
  PROVE  RestartOK(s, g, t) /\ t.state \in {"failed", "running"}
<1>1. PICK e : e = [s EXCEPT !.state = "failed"]
  BY Zenon
<1>2. /\ ServiceOK(e) /\ e.attempts = s.attempts /\ e.limit = s.limit /\ e.state = "failed"
  BY <1>1, Stopped
<1>3. BudgetOK(e, g)
  BY <1>2 DEF BudgetOK
<1>4. t = IF supervised THEN supervisor_restart_failed_child(e) ELSE e
  BY <1>1 DEF Crashed, Exited
<1>5. CASE t = e
  BY <1>2, <1>3, <1>5 DEF RestartOK
<1>6. CASE t # e
  <2>1. PICK u : u = [e EXCEPT !.attempts = @ + 1]
    BY Zenon
  <2>2. /\ ServiceOK(u) /\ u.attempts = e.attempts + 1 /\ u.limit = e.limit /\ u.state = "failed"
    BY <1>2, <2>1, AttemptCounted
  <2>3. t = IF OverBudget(u) THEN u ELSE start_service([u EXCEPT !.state = "stopped"])
    BY <1>4, <1>6, <2>1 DEF supervisor_restart_failed_child
  <2>4. BudgetOK(u, g) /\ (~OverBudget(u) => BudgetOK(u, g + 1))
    BY <1>2, <1>3, <2>2, AttemptPays
  <2>5. CASE OverBudget(u)
    BY <2>2, <2>3, <2>4, <2>5 DEF RestartOK
  <2>6. CASE ~OverBudget(u)
    <3>1. PICK w : w = [u EXCEPT !.state = "stopped"]
      BY Zenon
    <3>2. ServiceOK(w) /\ w.attempts = u.attempts /\ w.limit = u.limit
      BY <2>2, <3>1, Stopped
    <3>3. /\ ServiceOK(t) /\ t.state = "running" /\ t.late = FALSE
          /\ t.attempts = w.attempts /\ t.limit = w.limit
      BY <2>3, <2>6, <3>1, <3>2, Started, ZenonT(60)
    <3> QED
      BY <2>4, <2>6, <3>2, <3>3, Zenon DEF RestartOK, BudgetOK
  <2> QED
    BY <2>5, <2>6
<1> QED
  BY <1>5, <1>6

LEMMA OperatorRestarts ==
  ASSUME NEW s, ServiceOK(s), NEW g, BudgetOK(s, g), NEW t, t = Restarted(s)
  PROVE  /\ ServiceOK(t) /\ BudgetOK(t, g)
         /\ t.starts > s.starts => BudgetOK(t, g + 1) /\ t.state = "running"
         /\ ~(t.starts > s.starts) => t.state = s.state
<1>1. PICK u : u = [s EXCEPT !.attempts = @ + 1]
  BY Zenon
<1>2. /\ ServiceOK(u) /\ u.attempts = s.attempts + 1 /\ u.limit = s.limit
      /\ u.state = s.state /\ u.starts = s.starts
  BY <1>1, AttemptCounted
<1>3. t = IF s.policy = "never" \/ OverBudget(u) THEN u
          ELSE start_service([u EXCEPT !.state = "stopped"])
  BY <1>1 DEF Restarted
<1>4. BudgetOK(u, g) /\ (~OverBudget(u) => BudgetOK(u, g + 1))
  BY <1>2, AttemptPays
<1>5. s.starts \in Nat
  BY DEF ServiceOK
<1>6. CASE s.policy = "never" \/ OverBudget(u)
  BY <1>2, <1>3, <1>4, <1>5, <1>6
<1>7. CASE ~(s.policy = "never" \/ OverBudget(u))
  <2>1. PICK w : w = [u EXCEPT !.state = "stopped"]
    BY Zenon
  <2>2. ServiceOK(w) /\ w.attempts = u.attempts /\ w.limit = u.limit /\ w.starts = u.starts
    BY <1>2, <2>1, Stopped
  <2>3. /\ ServiceOK(t) /\ t.state = "running" /\ t.starts = w.starts + 1
        /\ t.attempts = w.attempts /\ t.limit = w.limit
    BY <1>3, <1>7, <2>1, <2>2, Started, ZenonT(60)
  <2> QED
    BY <1>2, <1>4, <1>5, <1>7, <2>2, <2>3 DEF BudgetOK
<1> QED
  BY <1>6, <1>7
-----------------------------------------------------------------------------
(* The child's record.                                                     *)
LEMMA RecordWritten ==
  ASSUME NEW f, FsOK(f), NEW v, NEW o \in write_file(f, ServiceRecord, v)
  PROVE  /\ FsOK(o.fs) /\ But(f, o.fs, ServiceRecord)
         /\ o.ok => o.fs.live[ServiceRecord] = FS!File(v)
  BY WriteFile, PathsKnown, Zenon DEF Wrote, Paths

\* One or two states are written, v is the last of them.
Ends(states, v) == states = <<v>> \/ \E x : states = <<x, v>>

LEMMA Persisted ==
  ASSUME NEW f, FsOK(f), NEW states, NEW v, Ends(states, v), NEW o \in PersistAll(f, states)
  PROVE  /\ FsOK(o.fs) /\ But(f, o.fs, ServiceRecord)
         /\ o.ok => o.fs.live[ServiceRecord] = FS!File(v)
<1>1. CASE states = <<v>>
  <2>1. Len(states) = 1 /\ states[1] = v
    BY <1>1
  <2> QED
    BY <2>1, RecordWritten DEF PersistAll
<1>2. ASSUME NEW x, states = <<x, v>> PROVE /\ FsOK(o.fs) /\ But(f, o.fs, ServiceRecord)
                                            /\ o.ok => o.fs.live[ServiceRecord] = FS!File(v)
  <2>1. Len(states) = 2 /\ states[1] = x /\ states[2] = v
    BY <1>2
  <2>2. PICK w \in write_file(f, ServiceRecord, x) : o \in write_file(w.fs, ServiceRecord, v)
    BY <2>1 DEF PersistAll
  <2>3. FsOK(w.fs) /\ But(f, w.fs, ServiceRecord)
    BY <2>2, RecordWritten
  <2>4. /\ FsOK(o.fs) /\ But(w.fs, o.fs, ServiceRecord)
        /\ o.ok => o.fs.live[ServiceRecord] = FS!File(v)
    BY <2>2, <2>3, RecordWritten, Zenon
  <2> QED
    BY <2>3, <2>4, Zenon DEF But
<1> QED
  BY <1>1, <1>2 DEF Ends

LEMMA ChildRecorded ==
  ASSUME FsOK(fs), ChildRecordMatches, NEW n, NEW states, Persist(n, states),
         n # Child \/ states = <<>> => services'[Child].state = services[Child].state,
         n = Child => states = <<>> \/ Ends(states, services'[Child].state)
  PROVE  FsOK(fs') /\ But(fs, fs', ServiceRecord) /\ ChildRecordMatches'
<1>1. CASE n # Child \/ states = <<>>
  BY <1>1, Zenon DEF Persist, But, ChildRecordMatches
<1>2. CASE n = Child /\ states # <<>>
  <2>1. PICK o \in PersistAll(fs, states) : fs' = o.fs /\ recorded' = o.ok
    BY <1>2, Zenon DEF Persist
  <2> QED
    BY <1>2, <2>1, Persisted DEF ChildRecordMatches
<1> QED
  BY <1>1, <1>2, Zenon

SameUpdates == UNCHANGED <<tx, snapshots, last_generation, clean, point, accepted, bound>>

LEMMA UpdatesKept ==
  ASSUME UpdateInv, SameUpdates, FsOK(fs'), But(fs, fs', ServiceRecord)
  PROVE  UpdateInv'
<1>1. TxOK' /\ RecordsOK'
  BY TxKept, ButKeeps, PathsKnown, Zenon DEF UpdateInv, SameUpdates
<1> QED
  BY <1>1, InsideKeeps DEF SameUpdates

(* One service becomes t, with g restarts granted so far.                  *)
Becomes(n, t, g) ==
  /\ ServiceOK(t) /\ BudgetOK(t, g)
  /\ DOMAIN services' = Names /\ services'[n] = t
  /\ DOMAIN granted' = Names /\ granted'[n] = g
  /\ \A m \in Names \ {n} : services'[m] = services[m] /\ granted'[m] = granted[m]

LEMMA BecomesOK ==
  ASSUME ServicesOK, GrantsOK, NEW n \in Names, NEW t, NEW g, Becomes(n, t, g),
         bound' = bound, SavedOK'
  PROVE  ServicesOK' /\ GrantsOK'
<1>1. ServicesOK'
  BY Zenon DEF ServicesOK, Becomes
<1>2. GrantsOK'
  BY DEF GrantsOK, Becomes
<1> QED
  BY <1>1, <1>2

LEMMA RingKept ==
  ASSUME RingOK, UNCHANGED <<dumps, crashes>>
  PROVE  RingOK'
  BY DEF RingOK, DumpsAreLatest

\* A service that runs on, with the record of its last state.
LEMMA RanOK ==
  ASSUME Inv, SameUpdates, NEW n \in Names, NEW t, NEW g, Becomes(n, t, g), RingOK',
         saved' = saved, NEW states, Persist(n, states),
         \/ states = <<>> /\ t.state = services[n].state
         \/ Ends(states, t.state)
  PROVE  Inv'
<1>1. /\ ServicesOK' /\ GrantsOK' /\ services'[n] = t
      /\ \A m \in Names \ {n} : services'[m] = services[m]
  <2>1. SavedOK'
    BY Zenon DEF Inv, ServiceInv, ServicesOK, SavedOK
  <2> QED
    BY <2>1, BecomesOK, Zenon DEF Inv, ServiceInv, SameUpdates, Becomes
<1>2. Child \in Names
  BY ServiceAssumption, Zenon
<1>3. states # <<>> \/ services'[n].state = services[n].state
  BY <1>1 DEF Ends
<1>4. FsOK(fs') /\ But(fs, fs', ServiceRecord) /\ ChildRecordMatches'
  BY <1>1, <1>2, <1>3, ChildRecorded, Zenon DEF Inv, ServiceInv, UpdateInv, TxOK
<1>5. UpdateInv'
  BY <1>4, UpdatesKept, Zenon DEF Inv
<1> QED
  BY <1>1, <1>4, <1>5, Zenon DEF Inv, ServiceInv

LEMMA SetOne ==
  ASSUME ServicesOK, GrantsOK, NEW n \in Names, NEW t, NEW g, ServiceOK(t), BudgetOK(t, g),
         services' = [services EXCEPT ![n] = t],
         \/ granted' = [granted EXCEPT ![n] = g]
         \/ granted' = granted /\ g = granted[n]
  PROVE  Becomes(n, t, g)
  BY Zenon DEF ServicesOK, GrantsOK, Becomes

LEMMA ServiceKnown ==
  ASSUME Inv, NEW n \in Names
  PROVE  ServiceOK(services[n]) /\ BudgetOK(services[n], granted[n])
  BY Zenon DEF Inv, ServiceInv, ServicesOK, GrantsOK

LEMMA StartStep ==
  ASSUME Inv, SameUpdates, NEW n \in Names, service_start(n)
  PROVE  Inv'
<1>1. PICK t : t = start_service(services[n])
  OBVIOUS
<1>2. ServiceOK(t) /\ t.state = "running" /\ BudgetOK(t, granted[n])
  BY <1>1, Started, ServiceKnown, ZenonT(60) DEF BudgetOK
<1>3. Becomes(n, t, granted[n])
  BY <1>1, <1>2, SetOne, Zenon DEF service_start, Ran, Inv, ServiceInv
<1>4. Persist(n, <<"running">>) /\ Ends(<<"running">>, t.state)
  BY <1>2, Zenon DEF service_start, Ran, Ends
<1> QED
  BY <1>3, <1>4, RanOK, RingKept, Zenon DEF service_start, Inv, ServiceInv

LEMMA StopStep ==
  ASSUME Inv, SameUpdates, NEW n \in Names, service_stop(n)
  PROVE  Inv'
<1>1. PICK t : t = [services[n] EXCEPT !.state = "exited"]
  BY Zenon
<1>2. ServiceOK(t) /\ t.state = "exited" /\ BudgetOK(t, granted[n])
  BY <1>1, Stopped, ServiceKnown DEF BudgetOK
<1>3. Becomes(n, t, granted[n])
  BY <1>1, <1>2, SetOne, Zenon DEF service_stop, Exited, Ran, Inv, ServiceInv
<1>4. Persist(n, <<"exited">>) /\ Ends(<<"exited">>, t.state)
  BY <1>2, Zenon DEF service_stop, Ran, Ends
<1> QED
  BY <1>3, <1>4, RanOK, RingKept, Zenon DEF service_stop, Inv, ServiceInv

LEMMA WrittenEnds ==
  ASSUME NEW t, t.state \in {"failed", "running"}
  PROVE  Ends(Written(t), t.state)
  BY DEF Ends, Written

LEMMA CrashStep ==
  ASSUME Inv, SameUpdates, NEW n \in Names, NEW supervised \in BOOLEAN,
         service_crash(n, supervised)
  PROVE  Inv'
<1>1. PICK t : t = Crashed(services[n], supervised)
  OBVIOUS
<1>2. /\ services' = [services EXCEPT ![n] = t] /\ Persist(n, Written(t))
      /\ granted' = [granted EXCEPT ![n] = IF t.state = "running" THEN @ + 1 ELSE @]
      /\ Dump(<<Crash(n)>>) /\ saved' = saved
  BY <1>1, Zenon DEF service_crash, Ran, Grant
<1>3. RestartOK(services[n], granted[n], t) /\ t.state \in {"failed", "running"}
  BY <1>1, CrashRestarts, ServiceKnown, Zenon
<1>4. PICK g : g = IF t.state = "running" THEN granted[n] + 1 ELSE granted[n]
  OBVIOUS
<1>5. granted' = [granted EXCEPT ![n] = g]
  BY <1>2, <1>4, Zenon
<1>6. Becomes(n, t, g)
  BY <1>2, <1>3, <1>4, <1>5, SetOne, Zenon DEF RestartOK, Inv, ServiceInv
<1>7. <<Crash(n)>> \in Seq(Names \X Nat)
  <2>1. services[n].attempts \in Nat
    BY ServiceKnown, Zenon DEF ServiceOK
  <2>2. Crash(n) \in Names \X Nat
    BY <2>1, Zenon DEF Crash
  <2> QED
    BY <2>2
<1>8. RingOK'
  BY <1>2, <1>7, RingGrows, Zenon DEF Inv, ServiceInv
<1> QED
  BY <1>2, <1>3, <1>6, <1>8, WrittenEnds, RanOK

LEMMA RestartStep ==
  ASSUME Inv, SameUpdates, NEW n \in Names, handle_restart(n)
  PROVE  Inv'
<1>1. PICK t : t = Restarted(services[n])
  BY Zenon
<1>2. PICK allowed : allowed = (t.starts > services[n].starts)
  OBVIOUS
<1>3. /\ services' = [services EXCEPT ![n] = t]
      /\ Persist(n, IF allowed THEN <<"running">> ELSE <<>>)
      /\ granted' = [granted EXCEPT ![n] = IF allowed THEN @ + 1 ELSE @]
      /\ UNCHANGED <<saved, dumps, crashes>>
  BY <1>1, <1>2, Zenon DEF handle_restart, Ran, Grant
<1>4. /\ ServiceOK(t) /\ BudgetOK(t, granted[n])
      /\ allowed => BudgetOK(t, granted[n] + 1) /\ t.state = "running"
      /\ ~allowed => t.state = services[n].state
  BY <1>1, <1>2, OperatorRestarts, ServiceKnown, ZenonT(60)
<1>5. PICK g : g = IF allowed THEN granted[n] + 1 ELSE granted[n]
  OBVIOUS
<1>6. granted' = [granted EXCEPT ![n] = g]
  BY <1>3, <1>5
<1>7. Becomes(n, t, g)
  BY <1>3, <1>4, <1>5, <1>6, SetOne, ZenonT(60) DEF Inv, ServiceInv
<1>8. RingOK'
  BY <1>3, RingKept DEF Inv, ServiceInv
<1>9. CASE allowed
  <2>1. Persist(n, <<"running">>) /\ Ends(<<"running">>, t.state)
    BY <1>3, <1>4, <1>9, Zenon DEF Ends
  <2> QED
    BY <1>3, <1>7, <1>8, <2>1, RanOK, Zenon
<1>10. CASE ~allowed
  <2>1. Persist(n, <<>>) /\ t.state = services[n].state
    BY <1>3, <1>4, <1>10, Zenon
  <2> QED
    BY <1>3, <1>7, <1>8, <2>1, RanOK
<1> QED
  BY <1>9, <1>10

\* Steps that write no record.
LEMMA QuietOK ==
  ASSUME Inv, SameUpdates, NEW n \in Names, NEW t, NEW g, Becomes(n, t, g), SavedOK',
         UNCHANGED <<fs, dumps, crashes>>,
         recorded' => recorded /\ t.state = services[n].state
  PROVE  Inv'
<1>1. ServicesOK' /\ GrantsOK'
  BY BecomesOK, Zenon DEF Inv, ServiceInv, SameUpdates
<1>2. RingOK'
  BY RingKept DEF Inv, ServiceInv
<1>3. ChildRecordMatches'
  <2>1. Child \in Names
    BY ServiceAssumption, Zenon
  <2> QED
    BY <2>1, Zenon DEF Becomes, Inv, ServiceInv, ChildRecordMatches
<1>4. UpdateInv'
  <2>1. FsOK(fs') /\ But(fs, fs', ServiceRecord)
    BY Zenon DEF Inv, UpdateInv, TxOK, But
  <2> QED
    BY <2>1, UpdatesKept, Zenon DEF Inv
<1> QED
  BY <1>1, <1>2, <1>3, <1>4, Zenon DEF Inv, ServiceInv

LEMMA FreshBudget ==
  ASSUME NEW t, ServiceOK(t)
  PROVE  BudgetOK(t, 0)
  BY DEF ServiceOK, BudgetOK, LimitValues

LEMMA Captured ==
  ASSUME NEW s, ServiceOK(s), saved' = service_snapshot_capture(s)
  PROVE  SavedOK'
  BY DEF ServiceOK, SavedOK, service_snapshot_capture

LEMMA ConfigureStep ==
  ASSUME Inv, SameUpdates, NEW n \in Names, NEW p, NEW l \in Limits, configure_service(n, p, l)
  PROVE  Inv'
<1>1. PICK t : t = [services[n] EXCEPT !.policy = p, !.limit = l]
  OBVIOUS
<1>2. l \in LimitValues
  BY ServiceAssumption, Zenon DEF LimitValues
<1>3. ServiceOK(t) /\ t.state = services[n].state
  BY <1>1, <1>2, ServiceKnown DEF ServiceOK, ServiceFields
<1>4. Becomes(n, t, 0)
  BY <1>1, <1>3, FreshBudget, SetOne, Zenon DEF configure_service, Inv, ServiceInv
<1>5. SavedOK'
  <2>1. saved' = service_snapshot_capture(t) \/ saved' = saved
    BY <1>1 DEF configure_service
  <2> QED
    BY <1>3, <2>1, Captured, Zenon DEF Inv, ServiceInv, ServicesOK, SavedOK
<1> QED
  BY <1>3, <1>4, <1>5, QuietOK DEF configure_service

LEMMA DefineStep ==
  ASSUME Inv, SameUpdates, NEW p, handle_define(p)
  PROVE  Inv'
<1>1. PICK t : t = reset_service(TRUE, p)
  BY Zenon
<1>2. ServiceOK(t)
  BY <1>1, Zenon DEF reset_service, ServiceOK, ServiceFields, LimitValues
<1>3. Child \in Names
  BY ServiceAssumption
<1>4. Becomes(Child, t, 0)
  BY <1>1, <1>2, <1>3, FreshBudget, SetOne, Zenon DEF handle_define, Inv, ServiceInv
<1>5. SavedOK'
  BY DEF handle_define, Inv, ServiceInv, ServicesOK, SavedOK
<1> QED
  BY <1>3, <1>4, <1>5, QuietOK, Zenon DEF handle_define

LEMMA RollbackStep ==
  ASSUME Inv, SameUpdates, handle_rollback
  PROVE  Inv'
<1>1. InitService \in Names
  BY ServiceAssumption
<1>2. PICK t : t = service_snapshot_restore(services[InitService])
  OBVIOUS
<1>3. ServiceOK(t) /\ t.state = services[InitService].state
  BY <1>1, <1>2, ServiceKnown DEF Inv, ServiceInv, ServicesOK, SavedOK, service_snapshot_restore,
     ServiceOK, ServiceFields
<1>4. services' = [services EXCEPT ![InitService] = t]
  BY <1>2 DEF handle_rollback
<1>5. Becomes(InitService, t, 0)
  BY <1>1, <1>3, <1>4, FreshBudget, SetOne, Zenon DEF handle_rollback, Inv, ServiceInv
<1>6. SavedOK'
  BY DEF handle_rollback, Inv, ServiceInv, ServicesOK, SavedOK
<1> QED
  BY <1>1, <1>3, <1>5, <1>6, QuietOK, Zenon DEF handle_rollback

LEMMA HeartbeatStep ==
  ASSUME Inv, SameUpdates, NEW n \in Names, NEW late \in BOOLEAN,
         services' = [services EXCEPT ![n].late = late],
         UNCHANGED <<fs, saved, dumps, crashes, recorded, granted>>
  PROVE  Inv'
<1>1. PICK t : t = [services[n] EXCEPT !.late = late]
  BY Zenon
<1>2. ServiceOK(t) /\ t.state = services[n].state /\ BudgetOK(t, granted[n])
  BY <1>1, ServiceKnown DEF ServiceOK, ServiceFields, BudgetOK
<1>3. services' = [services EXCEPT ![n] = t]
  BY <1>1
<1>4. Becomes(n, t, granted[n])
  BY <1>2, <1>3, SetOne, ZenonT(60) DEF Inv, ServiceInv
<1>5. SavedOK'
  BY DEF Inv, ServiceInv, ServicesOK, SavedOK
<1> QED
  BY <1>2, <1>4, <1>5, QuietOK
-----------------------------------------------------------------------------
(* The watchdog: every expired service crashes and is restarted within its *)
(* budget, in one pass.                                                    *)
After(n) == IF Expired(n) THEN Crashed(services[n], TRUE) ELSE services[n]

LEMMA PassDone ==
  ASSUME Inv, service_watchdog_check
  PROVE  /\ DOMAIN services' = Names /\ \A n \in Names : services'[n] = After(n)
         /\ Persist(Child, IF Expired(Child) THEN Written(services'[Child]) ELSE <<>>)
         /\ DOMAIN granted' = Names /\ saved' = saved
         /\ \A n \in Names : granted'[n] = granted[n] + IF Expired(n) /\ After(n).state = "running"
                                                        THEN 1 ELSE 0
         /\ \E new \in Seq(Names \X Nat) : Dump(new)
<1>1. PICK after : after = [n \in Names |-> After(n)]
  BY Zenon
<1>2. PICK k \in DOMAIN Services : \E at \in [1..k -> DOMAIN Services] :
        /\ services' = after
        /\ Persist(Child, IF Expired(Child) THEN Written(after[Child]) ELSE <<>>)
        /\ granted' = [n \in Names |-> granted[n] + IF Expired(n) /\ after[n].state = "running"
                                                    THEN 1 ELSE 0]
        /\ Dump([i \in 1..k |-> Crash(Services[at[i]])])
        /\ UNCHANGED saved
  BY <1>1, Zenon DEF service_watchdog_check, After
<1>3. PICK at \in [1..k -> DOMAIN Services] :
        /\ services' = after
        /\ Persist(Child, IF Expired(Child) THEN Written(after[Child]) ELSE <<>>)
        /\ granted' = [n \in Names |-> granted[n] + IF Expired(n) /\ after[n].state = "running"
                                                    THEN 1 ELSE 0]
        /\ Dump([i \in 1..k |-> Crash(Services[at[i]])])
        /\ UNCHANGED saved
  BY <1>2, Zenon
<1>4. [i \in 1..k |-> Crash(Services[at[i]])] \in Seq(Names \X Nat)
  <2>1. k \in Nat
    BY ServiceAssumption
  <2>2. ASSUME NEW i \in 1 .. k PROVE Crash(Services[at[i]]) \in Names \X Nat
    <3>1. Services[at[i]] \in Names
      BY DEF Names
    <3>2. services[Services[at[i]]].attempts \in Nat
      BY <3>1, ServiceKnown, Zenon DEF ServiceOK
    <3> QED
      BY <3>1, <3>2 DEF Crash
  <2> QED
    BY <2>1, <2>2
<1>5. \A n \in Names : after[n] = After(n)
  BY <1>1
<1> HIDE DEF After
<1>6. Child \in Names
  BY ServiceAssumption
<1>7. \E new \in Seq(Names \X Nat) : Dump(new)
  BY <1>3, <1>4, Zenon
<1>8. DOMAIN services' = Names /\ \A n \in Names : services'[n] = After(n)
  BY <1>1, <1>3, <1>5
<1> QED
  BY <1>3, <1>5, <1>6, <1>7, <1>8, Zenon

LEMMA AfterOK ==
  ASSUME Inv, NEW n \in Names
  PROVE  /\ ServiceOK(After(n))
         /\ BudgetOK(After(n), granted[n] + IF Expired(n) /\ After(n).state = "running" THEN 1 ELSE 0)
         /\ Expired(n) => After(n).state \in {"failed", "running"}
         /\ After(n).state = "running" => ~After(n).late
<1>1. ServiceOK(services[n]) /\ BudgetOK(services[n], granted[n])
  BY ServiceKnown
<1>2. CASE ~Expired(n)
  <2>1. granted[n] + 0 = granted[n]
    BY <1>1 DEF BudgetOK
  <2> QED
    BY <1>1, <1>2, <2>1, Zenon DEF After, Expired
<1>3. CASE Expired(n)
  <2>1. PICK t : t = Crashed(services[n], TRUE)
    BY Zenon
  <2>2. RestartOK(services[n], granted[n], t) /\ t.state \in {"failed", "running"}
    BY <1>1, <2>1, CrashRestarts, Zenon
  <2>3. After(n) = t
    BY <1>3, <2>1 DEF After
  <2>4. granted[n] + 0 = granted[n]
    BY <1>1 DEF BudgetOK
  <2> QED
    BY <1>3, <2>2, <2>3, <2>4 DEF RestartOK
<1> QED
  BY <1>2, <1>3, Zenon

LEMMA WatchdogStep ==
  ASSUME Inv, SameUpdates, service_watchdog_check
  PROVE  Inv'
<1>1. Child \in Names
  BY ServiceAssumption
<1>2. ServicesOK'
  BY PassDone, AfterOK, Zenon DEF ServicesOK, SavedOK, SameUpdates, Inv, ServiceInv
<1>3. GrantsOK'
  BY PassDone, AfterOK, Zenon DEF GrantsOK
<1>4. RingOK'
  BY PassDone, RingGrows DEF Inv, ServiceInv
<1>5. FsOK(fs') /\ But(fs, fs', ServiceRecord) /\ ChildRecordMatches'
  <2>1. PICK states : states = IF Expired(Child) THEN Written(services'[Child]) ELSE <<>>
    OBVIOUS
  <2>2. Persist(Child, states) /\ services'[Child] = After(Child)
    BY <1>1, <2>1, PassDone, Zenon
  <2>3. CASE Expired(Child)
    <3>1. Ends(states, services'[Child].state)
      <4>1. PICK t : t = services'[Child]
        OBVIOUS
      <4>2. t.state \in {"failed", "running"}
        BY <1>1, <2>2, <2>3, <4>1, AfterOK, Zenon
      <4>3. Ends(Written(t), t.state)
        BY <4>2, WrittenEnds
      <4> QED
        BY <2>1, <2>3, <4>1, <4>3, Zenon
    <3>2. states # <<>>
      BY <3>1 DEF Ends
    <3> QED
      BY <2>2, <3>1, <3>2, ChildRecorded, Zenon DEF Inv, ServiceInv, UpdateInv, TxOK
  <2>4. CASE ~Expired(Child)
    <3>1. services'[Child] = services[Child] /\ states = <<>>
      BY <2>1, <2>2, <2>4 DEF After
    <3> QED
      BY <2>2, <3>1, ChildRecorded, Zenon DEF Inv, ServiceInv, UpdateInv, TxOK
  <2> QED
    BY <2>3, <2>4
<1>6. UpdateInv'
  BY <1>5, UpdatesKept DEF Inv
<1> QED
  BY <1>2, <1>3, <1>4, <1>5, <1>6 DEF Inv, ServiceInv
-----------------------------------------------------------------------------
LEMMA InvInit == Init => Inv
<1> SUFFICES ASSUME Init PROVE Inv
  OBVIOUS
<1>1. PICK live : live = [Committed EXCEPT ![UpdateDir] = FS!Dir]
  BY Zenon
<1>2. fs = [live |-> live, snap |-> Committed, faults |-> 0]
  BY <1>1 DEF Init, UpdateInit
<1>3. DOMAIN live = Paths /\ DOMAIN Committed = Paths
  BY <1>1 DEF Committed
<1>4. TxOK
  BY <1>2, <1>3 DEF Init, UpdateInit, Idle, TxOK, FsOK
<1>5. tx.active = FALSE
  BY Zenon DEF Init, UpdateInit, Idle
<1>6. RecordsOK
  BY <1>5 DEF RecordsOK, RecordMatches, SnapshotKnowsTransaction
<1>7. snapshots = persistence_self_test
  BY DEF Init, UpdateInit
<1>8. snapshots \in Seq([kind : Kinds, owner : Nat, generation : Nat])
  BY <1>7 DEF persistence_self_test, Kinds
<1>9. \A i \in DOMAIN snapshots : snapshots[i].generation = i
  BY <1>7 DEF persistence_self_test
<1>10. RegistryOK
  BY <1>5, <1>8, <1>9, Zenon DEF RegistryOK
<1>11. accepted = <<>> /\ last_generation = 0
  BY DEF Init, UpdateInit
<1>12. SignaturesOK
  BY <1>11 DEF SignaturesOK, GenerationsGrow
<1>13. Child \in Names /\ InitService \in Names
  BY ServiceAssumption
<1>14. /\ services = [n \in Names |-> reset_service(n # Child, "unset")]
       /\ saved = service_snapshot_capture(services[InitService]) /\ granted = [n \in Names |-> 0]
       /\ dumps = [i \in 0..(DumpMax - 1) |-> <<>>] /\ crashes = <<>> /\ recorded = FALSE
       /\ bound \in Bounds
  BY Zenon DEF Init, UpdateInit, service_supervisor_init
<1>15. \A n \in Names : ServiceOK(services[n])
  BY <1>14, Zenon DEF reset_service, ServiceOK, ServiceFields, LimitValues
<1>16. SavedOK
  BY <1>13, <1>14, <1>15, Zenon DEF SavedOK, service_snapshot_capture, ServiceOK
<1>17. ServicesOK
  BY <1>14, <1>15, <1>16 DEF ServicesOK
<1>18. GrantsOK
  BY <1>14, <1>15, FreshBudget DEF GrantsOK
<1>19. RingOK
  BY <1>14 DEF RingOK, DumpsAreLatest
<1> QED
  BY <1>4, <1>6, <1>10, <1>12, <1>14, <1>17, <1>18, <1>19
  DEF Inv, UpdateInv, ServiceInv, ChildRecordMatches

LEMMA SupervisorStep ==
  ASSUME Inv, SupervisorNext, SameUpdates
  PROVE  Inv'
<1>1. bound.services \subseteq Names
  BY ServiceAssumption, Zenon DEF Inv, ServiceInv, ServicesOK
<1>2. ASSUME NEW n \in Names,
             \/ service_start(n) \/ service_stop(n) \/ handle_restart(n)
             \/ \E supervised \in BOOLEAN : service_crash(n, supervised)
             \/ \E p \in Policies, l \in Limits : configure_service(n, p, l)
             \/ service_heartbeat(n) \/ HeartbeatLate(n)
      PROVE  Inv'
  <2>1. CASE service_start(n)
    BY <2>1, StartStep
  <2>2. CASE service_stop(n)
    BY <2>2, StopStep
  <2>3. CASE handle_restart(n)
    BY <2>3, RestartStep
  <2>4. CASE \E supervised \in BOOLEAN : service_crash(n, supervised)
    BY <2>4, CrashStep
  <2>5. CASE \E p \in Policies, l \in Limits : configure_service(n, p, l)
    BY <2>5, ConfigureStep
  <2>6. CASE service_heartbeat(n)
    BY <2>6, HeartbeatStep, Zenon DEF service_heartbeat
  <2>7. CASE HeartbeatLate(n)
    BY <2>7, HeartbeatStep, Zenon DEF HeartbeatLate
  <2> QED
    BY <1>2, <2>1, <2>2, <2>3, <2>4, <2>5, <2>6, <2>7
<1>3. ASSUME NEW p, handle_define(p) PROVE Inv'
  BY <1>3, DefineStep
<1>4. CASE handle_rollback
  BY <1>4, RollbackStep
<1>5. CASE service_watchdog_check
  BY <1>5, WatchdogStep
<1> QED
  BY <1>1, <1>2, <1>3, <1>4, <1>5, Zenon DEF SupervisorNext

LEMMA ServicesKept ==
  ASSUME ServiceInv, UNCHANGED <<services, saved, dumps, crashes, granted, bound>>,
         recorded' => recorded /\ KeepsChild
  PROVE  ServiceInv'
<1>1. ServicesOK' /\ GrantsOK' /\ RingOK'
  BY Zenon DEF ServiceInv, ServicesOK, SavedOK, GrantsOK, RingOK, DumpsAreLatest
<1>2. ChildRecordMatches'
  BY Zenon DEF ServiceInv, ChildRecordMatches, KeepsChild
<1> QED
  BY <1>1, <1>2 DEF ServiceInv

LEMMA UpdateKeepsBound ==
  UpdateNext \/ UndoNext => bound' = bound
  BY Zenon DEF UpdateNext, UndoNext, update_runtime_init, update_begin, update_stage, update_commit,
     update_fail, update_stage_chunk, update_verify_hash, update_parse_manifest,
     update_recover_boot, update_rollback, Undo

LEMMA InvNext == Inv /\ [Next]_vars => Inv'
<1> SUFFICES ASSUME Inv, [Next]_vars PROVE Inv'
  OBVIOUS
<1>1. CASE UNCHANGED vars
  BY <1>1, Zenon DEF vars, updateVars, serviceVars, Inv, UpdateInv, TxOK, RegistryOK, SignaturesOK,
     GenerationsGrow, RecordsOK, RecordMatches, SnapshotKnowsTransaction, ServiceInv, ServicesOK,
     SavedOK, GrantsOK, RingOK, DumpsAreLatest, ChildRecordMatches
<1>2. CASE /\ SupervisorNext
           /\ UNCHANGED <<tx, delivery, snapshots, last_generation, clean, point, accepted, bound>>
  BY <1>2, SupervisorStep DEF SameUpdates
<1>3. ASSUME NEW s \in Signatures, handle_update(s), UNCHANGED <<tx, delivery, snapshots, clean, point, bound>>
      PROVE  Inv'
  <2>1. SignaturesOK'
    BY <1>3, SignatureUsed, Zenon DEF handle_update, Inv, UpdateInv
  <2>2. TxOK' /\ RecordsOK' /\ RegistryOK'
    BY <1>3, TxKept, RegistryKept, Zenon DEF handle_update, Inv, UpdateInv, TxOK
  <2>3. ServiceInv'
    BY <1>3, ServicesKept, Zenon DEF handle_update, serviceVars, Inv, KeepsChild
  <2> QED
    BY <2>1, <2>2, <2>3, Zenon DEF Inv, UpdateInv
<1>4. CASE UpdateNext /\ UNCHANGED serviceVars
  BY <1>4, UpdateStep, ServicesKept, UpdateKeepsBound DEF Inv, serviceVars
<1>5. CASE UndoNext /\ Unsupervised /\ recorded' = FALSE
  BY <1>5, UndoStep, ServicesKept, UpdateKeepsBound DEF Inv, Unsupervised
<1> QED
  BY <1>1, <1>2, <1>3, <1>4, <1>5, Zenon DEF Next

LEMMA ControlPlaneInv == Spec => []Inv
  BY InvInit, InvNext, PTL DEF Spec
-----------------------------------------------------------------------------
(* Whatever device faults, restarts, commands and transactions interleave, *)
(* the records under /state say what g_update and the child service say,   *)
(* as long as the last call of their owner succeeded.                      *)
THEOREM ControlPlaneRecords == Spec => []RecordsMatch
<1>1. Inv => RecordsMatch
  BY DEF Inv, UpdateInv, RecordsOK, ServiceInv, RecordsMatch
<1> QED
  BY <1>1, ControlPlaneInv, PTL

(* persistence_rollback finds the rollback point of the transaction that   *)
(* asks for it, and no signature generation is ever accepted twice, by     *)
(* update_begin or by the command "update".                                *)
THEOREM ControlPlaneUpdates == Spec => []UpdatesOrdered
<1>1. Inv => UpdatesOrdered
  BY PointFound DEF Inv, UpdateInv, SignaturesOK, UpdatesOrdered
<1> QED
  BY <1>1, ControlPlaneInv, PTL

(* The snapshot of the tree holds the record of a transaction that is      *)
(* staged or committed: its record is written before mutable_fs_commit.    *)
THEOREM ControlPlaneSnapshot == Spec => []SnapshotKnowsTransaction
<1>1. Inv => SnapshotKnowsTransaction
  BY DEF Inv, UpdateInv, RecordsOK
<1> QED
  BY <1>1, ControlPlaneInv, PTL

(* No mix of crashes, operators' restarts and passes of the watchdog       *)
(* restarts a service more than max_restarts times, and the dump ring      *)
(* holds the most recent crashes however many a pass reports.              *)
THEOREM ControlPlaneRestarts == Spec => []RestartsAccounted
<1>1. Inv => RestartsAccounted
  BY DEF Inv, ServiceInv, GrantsOK, RingOK, BudgetOK, RestartsAccounted, RestartBudget
<1> QED
  BY <1>1, ControlPlaneInv, PTL

(* A pass of service_watchdog_check leaves no service running on an old    *)
(* heartbeat, for any number of services and restart policies.             *)
THEOREM ControlPlaneWatchdog == Spec => WatchdogLeavesNoneLate
<1>1. Inv /\ [Next]_vars =>
        [service_watchdog_check =>
           \A n \in Names : services'[n].state = "running" => ~services'[n].late]_serviceVars
  BY PassDone, AfterOK, Zenon
<1> QED
  BY <1>1, ControlPlaneInv, PTL DEF Spec, WatchdogLeavesNoneLate
=============================================================================
