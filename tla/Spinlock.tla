------------------------------ MODULE Spinlock ------------------------------
(***************************************************************************)
(* The kernel's ticket spinlock (kernel/include/xaios/spinlock.h) together *)
(* with the boot of the secondary CPUs (kernel/arch/aarch64/smp.c) that    *)
(* decides which of its two code paths a CPU takes: with at most one CPU   *)
(* online the lock is a plain store to guard and hands out no ticket.      *)
(*                                                                         *)
(* Every memory access the code makes is one step.  Tickets are naturals;  *)
(* the code's 32-bit counters are only compared for equality, so wrapping  *)
(* does not show as long as fewer than 2^32 CPUs contend.                  *)
(***************************************************************************)
EXTENDS Integers

CONSTANTS CPUs,         \* the CPUs psci_cpu_on is called for, and the boot CPU
          Boot,         \* the boot CPU
          MaxTicket,    \* bound: a CPU heads for a ticket only below this one
          BootTimeout   \* TRUE: the wait for secondaries may time out

ASSUME BootAssumption == Boot \in CPUs
ASSUME MaxTicketAssumption == MaxTicket \in Nat
ASSUME FlagsAssumption == BootTimeout \in BOOLEAN

VARIABLES next_ticket, serve, guard,  \* xaios_spinlock_t
          online,                     \* g_online_count as the set of counted CPUs
          phase,                      \* how far the boot CPU is in smp_init
          pc,                         \* where each CPU is in the lock's code
          reg,                        \* the counter value a CPU holds in a register
          unserved                    \* history: the tickets that were out when an unlock
                                      \* took the single-core path, which serves none

lock == <<next_ticket, serve, guard>>
vars == <<next_ticket, serve, guard, online, phase, pc, reg, unserved>>

\* smp_online_count() > 1: the multi-core path of lock and unlock is taken.
Multi == \E c, d \in online : c # d

\* Bound on the tickets a run draws.
MayStart == next_ticket < MaxTicket

\* A CPU runs kernel code: the boot CPU outside its wait for the others, a
\* secondary once it has counted itself online.
Runs(c) == IF c = Boot THEN phase # "waiting" ELSE c \in online

Inside(c) == pc[c] \in {"cs", "store"}
Queued(c) == pc[c] = "spin"

Init == /\ next_ticket = 0 /\ serve = 0 /\ guard = 0
        /\ online = {}
        /\ phase = "early"
        /\ pc = [c \in CPUs |-> "idle"]
        /\ reg = [c \in CPUs |-> 0]
        /\ unserved = {}

----------------------------------------------------------------------------
\* smp_init_qemu_virt: the boot CPU counts itself and starts the others.
SmpInit == /\ phase = "early" /\ pc[Boot] = "idle"
           /\ online' = {Boot}
           /\ phase' = "waiting"
           /\ UNCHANGED <<lock, pc, reg, unserved>>

\* smp_secondary_main: bump_online.
BumpOnline(c) == /\ phase # "early" /\ c \notin online
                 /\ online' = online \cup {c}
                 /\ UNCHANGED <<lock, phase, pc, reg, unserved>>

\* The wait for secondaries ends when all are online or on the timeout.
BootWaitEnd == /\ phase = "waiting"
               /\ online = CPUs \/ BootTimeout
               /\ phase' = "running"
               /\ UNCHANGED <<lock, online, pc, reg, unserved>>

----------------------------------------------------------------------------
\* xaios_spin_lock: the test of smp_online_count.
LockCheck(c) == /\ pc[c] = "idle" /\ Runs(c) /\ MayStart
                /\ pc' = [pc EXCEPT ![c] = IF Multi THEN "take" ELSE "plain"]
                /\ UNCHANGED <<lock, online, phase, reg, unserved>>

\* xaios_spin_lock, single-core path: guard = 1 and no ticket.
LockPlain(c) == /\ pc[c] = "plain"
                /\ guard' = 1
                /\ pc' = [pc EXCEPT ![c] = "cs"]
                /\ UNCHANGED <<next_ticket, serve, online, phase, reg, unserved>>

\* Mutant of LockTake: load and store instead of an atomic add, the store of
\* a CPU that lost the race being overwritten.
LockTakeTorn(c) == /\ pc[c] = "take"
                   /\ reg' = [reg EXCEPT ![c] = next_ticket]
                   /\ next_ticket' \in {next_ticket, next_ticket + 1}
                   /\ pc' = [pc EXCEPT ![c] = "spin"]
                   /\ UNCHANGED <<serve, guard, online, phase, unserved>>

\* xaios_spin_lock: __sync_fetch_and_add(&next_ticket, 1).
LockTake(c) == /\ pc[c] = "take"
               /\ reg' = [reg EXCEPT ![c] = next_ticket]
               /\ next_ticket' = next_ticket + 1
               /\ pc' = [pc EXCEPT ![c] = "spin"]
               /\ UNCHANGED <<serve, guard, online, phase, unserved>>

\* Mutant of LockSpin: the loop leaves as soon as the guard is clear.
LockSpinOnGuard(c) == /\ pc[c] = "spin" /\ guard = 0
                      /\ guard' = 1
                      /\ pc' = [pc EXCEPT ![c] = "cs"]
                      /\ UNCHANGED <<next_ticket, serve, online, phase, reg, unserved>>

\* xaios_spin_lock: the spin loop sees its ticket served.
LockSpin(c) == /\ pc[c] = "spin" /\ serve = reg[c]
               /\ guard' = 1
               /\ pc' = [pc EXCEPT ![c] = "cs"]
               /\ UNCHANGED <<next_ticket, serve, online, phase, reg, unserved>>

\* xaios_spin_unlock: guard = 0 and the test of smp_online_count; on the
\* multi-core path serve is loaded here and stored by UnlockStore.
Unlock(c) == /\ pc[c] = "cs"
             /\ guard' = 0
             /\ pc' = [pc EXCEPT ![c] = IF Multi THEN "store" ELSE "idle"]
             /\ reg' = [reg EXCEPT ![c] = IF Multi THEN serve ELSE reg[c]]
             /\ unserved' = IF Multi THEN unserved
                            ELSE unserved \cup serve .. next_ticket - 1
             /\ UNCHANGED <<next_ticket, serve, online, phase>>

\* Mutant of UnlockStore: serve is set to the last ticket drawn.
UnlockStoreSkips(c) == /\ pc[c] = "store"
                       /\ serve' = next_ticket
                       /\ pc' = [pc EXCEPT ![c] = "idle"]
                       /\ UNCHANGED <<next_ticket, guard, online, phase, reg, unserved>>

\* xaios_spin_unlock: __atomic_store_n(&serve, serve + 1).
UnlockStore(c) == /\ pc[c] = "store"
                  /\ serve' = reg[c] + 1
                  /\ pc' = [pc EXCEPT ![c] = "idle"]
                  /\ UNCHANGED <<next_ticket, guard, online, phase, reg, unserved>>

\* xaios_spin_trylock: load serve.
TryLoad(c) == /\ pc[c] = "idle" /\ Runs(c) /\ MayStart
              /\ reg' = [reg EXCEPT ![c] = serve]
              /\ pc' = [pc EXCEPT ![c] = "compare"]
              /\ UNCHANGED <<lock, online, phase, unserved>>

\* Mutant of TryCompare: the test is off by one.
TryCompareOffByOne(c) ==
  /\ pc[c] = "compare"
  /\ pc' = [pc EXCEPT ![c] = IF next_ticket = reg[c] + 1 THEN "cas" ELSE "idle"]
  /\ UNCHANGED <<lock, online, phase, reg, unserved>>

\* xaios_spin_trylock: load next_ticket and compare; unequal returns 0.
TryCompare(c) == /\ pc[c] = "compare"
                 /\ pc' = [pc EXCEPT ![c] = IF next_ticket = reg[c] THEN "cas" ELSE "idle"]
                 /\ UNCHANGED <<lock, online, phase, reg, unserved>>

\* xaios_spin_trylock: the compare-and-swap of next_ticket.
TryCas(c) ==
  /\ pc[c] = "cas"
  /\ \/ /\ next_ticket = reg[c]
        /\ next_ticket' = next_ticket + 1
        /\ guard' = 1
        /\ pc' = [pc EXCEPT ![c] = "cs"]
     \/ /\ next_ticket # reg[c]
        /\ pc' = [pc EXCEPT ![c] = "idle"]
        /\ UNCHANGED <<next_ticket, guard, unserved>>
  /\ UNCHANGED <<serve, online, phase, reg, unserved>>

----------------------------------------------------------------------------
CpuStep(c) == \/ LockCheck(c) \/ LockPlain(c) \/ LockTake(c) \/ LockSpin(c)
              \/ Unlock(c) \/ UnlockStore(c)
              \/ TryLoad(c) \/ TryCompare(c) \/ TryCas(c)

\* The CPUs that spin behind a ticket nobody serves keep polling; the others
\* rest where the bound stops them.
SpinsOn == /\ ~MayStart \/ serve \in unserved
           /\ \A c \in CPUs : pc[c] = "idle" \/ (Queued(c) /\ serve \in unserved)
           /\ UNCHANGED vars

Next == \/ SmpInit
        \/ BootWaitEnd
        \/ \E c \in CPUs : BumpOnline(c) \/ CpuStep(c)
        \/ SpinsOn

Spec == Init /\ [][Next]_vars

\* A CPU that spins keeps polling and a critical section ends: both run with
\* no blocking call inside.
LiveSpec == Spec /\ \A c \in CPUs : /\ WF_vars(LockSpin(c))
                                    /\ WF_vars(Unlock(c))
                                    /\ WF_vars(UnlockStore(c))

----------------------------------------------------------------------------
\* Counters, flags and places keep their types; a CPU is at one place of the
\* code of lock, unlock and trylock (spinlock.h:32-79).
TypeOK == /\ next_ticket \in Nat /\ serve \in Nat /\ guard \in {0, 1}
          /\ online \subseteq CPUs
          /\ phase \in {"early", "waiting", "running"}
          /\ pc \in [CPUs -> {"idle", "plain", "take", "spin", "cs", "store",
                              "compare", "cas"}]
          /\ reg \in [CPUs -> Nat]
          /\ unserved \subseteq Nat

\* Mutual exclusion: at no time are two CPUs between a successful lock or
\* trylock and the end of their unlock ("SMP-safe", spinlock.h:7).
MutualExclusion == \A c, d \in CPUs : Inside(c) /\ Inside(d) => c = d

\* First come, first served: a CPU enters only when no CPU queued before it,
\* that is with a smaller ticket, still spins, and trylock never enters past a
\* spinning CPU ("fair, FIFO ordering", spinlock.h:7).
EntersInOrder ==
  [][\A c \in CPUs : pc[c] # "cs" /\ pc'[c] = "cs" =>
       \A d \in CPUs \ {c} : Queued(d) => pc[c] = "spin" /\ reg[c] < reg[d]]_vars

\* A CPU that has drawn a ticket gets the lock: no ticket is skipped or lost
\* between the unlocks that serve them, on a lock whose trylock was not used
\* while one CPU was online.  A ticket drawn then is served by nobody, its
\* unlock having returned at spinlock.h:50, and who queues behind it waits for
\* good.
QueuedEnters == \A c \in CPUs : (Queued(c) /\ unserved = {}) ~> pc[c] = "cs"

\* trylock gives up only when another CPU holds the lock or waits for it, when
\* the lock has changed hands since trylock looked, or when the ticket that is
\* due was left unserved by an unlock of the single-core path.  The last case
\* is where the code departs from "Returns 1 on success, 0 if already held"
\* (spinlock.h:56): nobody holds that lock and no trylock of it succeeds again.
TrylockFailsOnlyWhenHeld ==
  [][\A c \in CPUs : pc[c] \in {"compare", "cas"} /\ pc'[c] = "idle" =>
       \/ serve # reg[c]
       \/ \E d \in CPUs \ {c} : Queued(d) \/ Inside(d)
       \/ serve \in unserved]_vars

=============================================================================
