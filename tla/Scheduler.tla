----------------------------- MODULE Scheduler -----------------------------
(***************************************************************************)
(* The SMP scheduler (scheduler.c).  Each CPU has a table of tasks whose   *)
(* slots a bitmap claims by compare-and-swap, and a run queue under a lock *)
(* of its own.  A step is what one CPU does without another seeing it half *)
(* done: a tick's work under its own lock, one compare-and-swap, the table *)
(* half or the queue half of a call (the table is written before the lock  *)
(* of the queue is taken), and the two halves of a steal, which takes a    *)
(* task off the victim's queue under the victim's lock and queues it on    *)
(* the thief under the thief's.                                            *)
(*                                                                         *)
(* A tick may interrupt a call on its own CPU.  Registration places a task *)
(* on any CPU (the code starts from a clock reading), the calls on a task  *)
(* look only in the table of the CPU they run on.  Statistics, saved       *)
(* registers and address spaces are left out; so is periodic_load_balance, *)
(* which only reports.                                                     *)
(***************************************************************************)
EXTENDS Integers, Sequences, Functions

CONSTANTS
    SchedCpus,      \* online CPUs that schedule
    Pids,           \* processes, numbered from 1
    TaskSlots,      \* XAIOS_TASK_SLOTS_PER_CPU
    QueueSize,      \* XAIOS_SCHEDULER_PER_CPU_RUNQUEUE
    Slice,          \* ticks of a time slice
    Urgent,         \* processes of high priority; the others have normal
    StealAbove      \* a queue this long is left alone

ASSUME SchedAssumption == Pids \subseteq Nat \ {0} /\ TaskSlots \in Nat /\ Slice \in Nat

VARIABLES
    slots,      \* CPU -> the claimed slots of its table and their tasks
    queue,      \* CPU -> g_runqueues[].tasks
    current,    \* CPU -> g_runqueues[].current_pid, 0 for none
    call,       \* CPU -> the call under way on it
    theft       \* CPU -> the process its tick has taken, 0 for none

schedVars == <<slots, queue, current, call, theft>>

NoTask == [active |-> FALSE, pid |-> 0, state |-> "UNUSED", left |-> 0, cpu |-> 0]

NoCall == [stage |-> "none", pid |-> 0, cpu |-> 0, seen |-> {}, slot |-> 0]

scheduler_init ==
    /\ slots = [c \in SchedCpus |-> [taken |-> {}, task |-> [s \in 1..TaskSlots |-> NoTask]]]
    /\ queue = [c \in SchedCpus |-> <<>>]
    /\ current = [c \in SchedCpus |-> 0]
    /\ call = [c \in SchedCpus |-> NoCall]
    /\ theft = [c \in SchedCpus |-> 0]

\* The slots of the CPU's own table that hold the process.
find_task_local(c, p) ==
    {s \in slots[c].taken : slots[c].task[s].active /\ slots[c].task[s].pid = p}

Local(c, p) == slots[c].task[CHOOSE s \in find_task_local(c, p) : TRUE]

\* The tables with one field of a process's task on c set.
Put(t, c, p, field, value) ==
    [t EXCEPT ![c].task = [s \in 1..TaskSlots |->
        IF s \in t[c].taken /\ t[c].task[s].active /\ t[c].task[s].pid = p
        THEN [t[c].task[s] EXCEPT ![field] = value] ELSE t[c].task[s]]]

rq_add(q, p) == IF Len(q) < QueueSize /\ p \notin Range(q) THEN Append(q, p) ELSE q

rq_remove(q, p) == SelectSeq(q, LAMBDA x : x # p)

\* The first of the highest priority among those of the CPU's own table,
\* else the first in the queue.
rq_pick_best(c, q) ==
    LET own == {i \in DOMAIN q : find_task_local(c, q[i]) # {}}
        best == {i \in own : q[i] \in Urgent \/ \A j \in own : q[j] \notin Urgent}
    IN  IF q = <<>> THEN 0
        ELSE IF own = {} THEN q[1]
        ELSE q[CHOOSE i \in best : \A j \in best : i <= j]

\* The first of the highest priority among those of the victim's own table
\* that are not running.
rq_pick_stealable(c) ==
    LET own == {i \in DOMAIN queue[c] : queue[c][i] # current[c]
                                        /\ find_task_local(c, queue[c][i]) # {}}
        best == {i \in own : queue[c][i] \in Urgent \/ \A j \in own : queue[c][j] \notin Urgent}
    IN  IF own = {} THEN 0 ELSE queue[c][CHOOSE i \in best : \A j \in best : i <= j]

(***************************************************************************)
(* Registration: read the bitmap, claim its first free slot if the bitmap  *)
(* still is what was read, go on with the next bit otherwise.              *)
(***************************************************************************)
Registered == {slots[c].task[s].pid : c \in SchedCpus, s \in 1..TaskSlots}

\* Any CPU that schedules: the scan starts at a CPU a clock reading picks and
\* the loads it compares change meanwhile.
find_least_loaded_cpu == SchedCpus

BeginRegister(c) ==
    /\ call[c].stage = "none"
    /\ \E p \in Pids, t \in find_least_loaded_cpu :
          /\ p \notin Registered
          /\ \A d \in SchedCpus : call[d].pid # p
          /\ call' = [call EXCEPT ![c] = [stage |-> "claim", pid |-> p, cpu |-> t,
                                            seen |-> slots[t].taken, slot |-> 1]]
    /\ UNCHANGED <<slots, queue, current, theft>>

\* Mutant: the bit is set without looking whether the bitmap changed.
Swapped_Plain(c) == TRUE

Swapped(c) == slots[call[c].cpu].taken = call[c].seen

alloc_task_slot(c) ==
    LET r == call[c]
        free == {s \in r.slot..TaskSlots : s \notin r.seen}
    IN  /\ r.stage = "claim"
        /\ \/ /\ free = {}
              /\ call' = [call EXCEPT ![c] = NoCall]
              /\ UNCHANGED slots
           \/ \E s \in free :
                 /\ \A x \in free : s <= x
                 /\ IF Swapped(c)
                    THEN /\ slots' = [slots EXCEPT ![r.cpu].taken = r.seen \cup {s},
                                                   ![r.cpu].task[s] = NoTask]
                         /\ call' = [call EXCEPT ![c].stage = "fill", ![c].slot = s]
                    ELSE /\ call' = [call EXCEPT ![c].seen = slots[r.cpu].taken, ![c].slot = s + 1]
                         /\ UNCHANGED slots
        /\ UNCHANGED <<queue, current, theft>>

scheduler_register_with_priority(c) ==
    /\ call[c].stage = "fill"
    /\ slots' = [slots EXCEPT ![call[c].cpu].task[call[c].slot] =
            [active |-> TRUE, pid |-> call[c].pid, state |-> "REGISTERED", left |-> Slice,
             cpu |-> call[c].cpu]]
    /\ call' = [call EXCEPT ![c] = NoCall]
    /\ UNCHANGED <<queue, current, theft>>

\* A call on a process finds its task in the table of the CPU it runs on.
Finds(c, p) == call[c].stage = "none" /\ find_task_local(c, p) # {}

\* The call has written the table and goes on to the queue of the task's CPU.
OnToQueue(c, p, stage) ==
    /\ call' = [call EXCEPT ![c] = [NoCall EXCEPT !.stage = stage, !.pid = p,
                                                 !.cpu = Local(c, p).cpu]]
    /\ UNCHANGED <<queue, current, theft>>

scheduler_unregister(c, p) ==
    /\ Finds(c, p)
    /\ LET s == CHOOSE s \in find_task_local(c, p) : TRUE
       IN  slots' = [slots EXCEPT ![c].task[s] = NoTask, ![c].taken = @ \ {s}]
    /\ OnToQueue(c, p, "retire")

scheduler_set_runnable(c, p) ==
    /\ Finds(c, p)
    /\ slots' = Put(Put(slots, c, p, "state", "RUNNABLE"), c, p, "left", Slice)
    /\ OnToQueue(c, p, "add")

scheduler_set_blocked(c, p) ==
    /\ Finds(c, p)
    /\ slots' = Put(slots, c, p, "state", "BLOCKED")
    /\ OnToQueue(c, p, "drop")

UnderQueueLock(c) ==
    LET p == call[c].pid
        at == call[c].cpu
    IN  /\ call[c].stage \in {"add", "drop", "retire"}
        /\ queue' = [queue EXCEPT ![at] = IF call[c].stage = "add" THEN rq_add(@, p)
                                          ELSE rq_remove(@, p)]
        /\ current' = [current EXCEPT ![at] =
                IF call[c].stage = "retire" /\ @ = p THEN 0 ELSE @]
        /\ call' = [call EXCEPT ![c] = NoCall]
        /\ UNCHANGED <<slots, theft>>

(***************************************************************************)
(* The timer tick.  A process whose state is not RUNNABLE gives way, one   *)
(* whose slice is over is queued again first.  A process that was switched *)
(* to is RUNNING, so it always gives way and is not queued.                *)
(***************************************************************************)
Charged(c) ==
    LET p == current[c]
    IN  IF find_task_local(c, p) = {} \/ Local(c, p).left = 0 THEN slots
        ELSE Put(slots, c, p, "left", Local(c, p).left - 1)

\* Switching to p: a process that is not in this CPU's table is dropped.
Switch(t, c, p, q) ==
    /\ queue' = [queue EXCEPT ![c] = rq_remove(q, p)]
    /\ IF p = current[c] \/ find_task_local(c, p) = {}
       THEN slots' = t /\ UNCHANGED current
       ELSE /\ slots' = Put(t, c, p, "state", "RUNNING")
            /\ current' = [current EXCEPT ![c] = p]
    /\ UNCHANGED <<call, theft>>

scheduler_tick(c) ==
    LET p == current[c]
        t == Charged(c)
        known == find_task_local(c, p) # {}
        stays == known /\ Local(c, p).state = "RUNNABLE"
        over == stays /\ Local(c, p).left <= 1
        q == IF over THEN rq_add(queue[c], p) ELSE queue[c]
        fresh == IF over THEN Put(t, c, p, "left", Slice) ELSE t
    IN  /\ theft[c] = 0
        /\ IF stays /\ ~over
           THEN slots' = t /\ UNCHANGED <<queue, current, call, theft>>
           ELSE /\ rq_pick_best(c, q) # 0
                /\ Switch(fresh, c, rq_pick_best(c, q), q)

\* The other CPUs of the core, the socket and the memory node.
Victims(c) == SchedCpus \ {c}

\* The tick found nothing to run: it takes a process from a longer queue.
StealTake(c) ==
    /\ theft[c] = 0
    /\ queue[c] = <<>>
    /\ ~(find_task_local(c, current[c]) # {} /\ Local(c, current[c]).state = "RUNNABLE")
    /\ \E v \in Victims(c) :
          /\ Len(queue[v]) > StealAbove
          /\ rq_pick_stealable(v) # 0
          /\ theft' = [theft EXCEPT ![c] = rq_pick_stealable(v)]
          /\ queue' = [queue EXCEPT ![v] = rq_remove(@, rq_pick_stealable(v))]
    /\ slots' = Charged(c)
    /\ UNCHANGED <<current, call>>

\* ... and queues it here.  Its task stays in the victim's table, so the
\* tick cannot switch to it.
StealPlace(c) ==
    /\ theft[c] # 0
    /\ slots' = [v \in SchedCpus |->
            IF v # c /\ find_task_local(v, theft[c]) # {}
            THEN Put(Put(slots, v, theft[c], "cpu", c), v, theft[c], "left", Slice)[v]
            ELSE slots[v]]
    /\ queue' = [queue EXCEPT ![c] = rq_add(@, theft[c])]
    /\ theft' = [theft EXCEPT ![c] = 0]
    /\ UNCHANGED <<current, call>>

\* Nothing to steal, or every lock that was tried was held: the CPU is idle.
Idle(c) ==
    /\ theft[c] = 0
    /\ queue[c] = <<>>
    /\ ~(find_task_local(c, current[c]) # {} /\ Local(c, current[c]).state = "RUNNABLE")
    /\ current' = [current EXCEPT ![c] = 0]
    /\ slots' = Charged(c)
    /\ UNCHANGED <<queue, call, theft>>

scheduler_yield(c) ==
    LET p == current[c]
        known == find_task_local(c, p) # {}
        q == IF known THEN rq_add(queue[c], p) ELSE queue[c]
        t == IF known THEN Put(Put(slots, c, p, "left", 0), c, p, "state", "RUNNABLE") ELSE slots
        n == rq_pick_best(c, q)
    IN  /\ call[c].stage = "none"
        /\ queue' = [queue EXCEPT ![c] = rq_remove(q, n)]
        /\ IF n # 0 /\ n # p
           THEN slots' = Put(t, c, n, "state", "RUNNING") /\ current' = [current EXCEPT ![c] = n]
           ELSE slots' = t /\ UNCHANGED current
        /\ UNCHANGED <<call, theft>>

Tick(c) == scheduler_tick(c) \/ StealTake(c) \/ StealPlace(c) \/ Idle(c)

TaskOp(c) ==
    /\ theft[c] = 0
    /\ \/ BeginRegister(c) \/ alloc_task_slot(c) \/ scheduler_register_with_priority(c)
       \/ \E p \in Pids : \/ scheduler_unregister(c, p) \/ scheduler_set_runnable(c, p)
                          \/ scheduler_set_blocked(c, p)
       \/ UnderQueueLock(c)
       \/ scheduler_yield(c)

SchedNext == \E c \in SchedCpus : Tick(c) \/ TaskOp(c)

SchedSpec == scheduler_init /\ [][SchedNext]_schedVars

(***************************************************************************)
(* Registrations that race for the slots of one table get different slots, *)
(* a slot a registration has claimed is claimed in the bitmap until it is  *)
(* filled, and a registered process has one task (alloc_task_slot,         *)
(* free_task_slot, scheduler_register_with_priority).                      *)
(***************************************************************************)
SlotsExclusive ==
    /\ \A c \in SchedCpus : call[c].stage = "fill" =>
          /\ call[c].slot \in slots[call[c].cpu].taken
          /\ ~slots[call[c].cpu].task[call[c].slot].active
          /\ \A d \in SchedCpus \ {c} : call[d].stage = "fill" =>
                <<call[d].cpu, call[d].slot>> # <<call[c].cpu, call[c].slot>>
    /\ \A c \in SchedCpus, s \in 1..TaskSlots :
          slots[c].task[s].active => s \in slots[c].taken
    /\ \A c, d \in SchedCpus : \A s, u \in 1..TaskSlots :
          /\ slots[c].task[s].pid \in Pids
          /\ slots[c].task[s].pid = slots[d].task[u].pid
          => <<c, s>> = <<d, u>>

(***************************************************************************)
(* A process that can run keeps its turn: when no call or steal has it in  *)
(* hand it is on a CPU or in a run queue (docs/ARCHITECTURE.md calls       *)
(* scheduler.c a round-robin preemptive scheduler, so a tick that takes    *)
(* the CPU from a process must queue it again).                            *)
(***************************************************************************)
CanRun(p) ==
    \E c \in SchedCpus : find_task_local(c, p) # {} /\ Local(c, p).state \in {"RUNNABLE", "RUNNING"}

KeepsItsTurn ==
    \A p \in Pids :
        CanRun(p) /\ (\A c \in SchedCpus : call[c].pid # p /\ theft[c] # p)
            => \E c \in SchedCpus : current[c] = p \/ p \in Range(queue[c])

=============================================================================
