------------------------------- MODULE AiCell -------------------------------
(***************************************************************************)
(* The AI cells of src/kernel/runtime/ai_cell.c with everything a cell     *)
(* takes and gives back: core leases (core_lease.c over the CPU states of  *)
(* arch/aarch64/smp.c), shared model arenas (model_arena.c), private       *)
(* memory arenas (mm/arena.c), a NIC queue (network_stack.c), a workspace, *)
(* and a slot of the CPU AI runtime (cpu_ai_runtime.c).                    *)
(*                                                                         *)
(* ai_cell_prepare takes six resources one after the other and undoes what *)
(* it took when one is refused.  The resources are one record, each        *)
(* operation of a resource manager maps it to its new value, and the       *)
(* unwinding is written as the code writes it, release by release.  A      *)
(* failing kassert sets "panic".                                           *)
(***************************************************************************)
EXTENDS Integers, FiniteSets, FiniteSetsExt

CONSTANTS Cells,      \* cell ids, a subset of 0..MAX_AI_CELLS-1
          Others,     \* other owners of core leases (the self-test's 99, 100)
          Cores,      \* online CPUs, CPU 0 is the boot processor
          Models,     \* model arena ids, below MAX_MODEL_ARENAS
          Queues, Workspaces,
          Manifests,  \* the manifests ai_cell_create is called with
          Image,      \* [Models -> {"ok", "invalid", "bad-bpe"}]: the model file
          KvRequired, \* pages of KV cache a model asks for
          RtCells,    \* XAIOS_CPU_AI_RUNTIME_MAX_CELLS
          MaxLeases,  \* MAX_CORE_LEASES
          TotalPages  \* pages the arena manager can commit

(* No owner: the tables store cell_id + 1, and 0 for this.                 *)
None == -1

(* The private arenas of a cell: KV cache, source index, build output, log *)
Kinds == 0 .. 3

(* CELL_KV_ARENA_BASE and its like: bases 4 apart, so kind k of cell c has *)
(* the id of kind k+1 of cell c-4.                                         *)
ArenaId(k, c) == 4 + 4 * k + c

ArenaIds == Models \cup {ArenaId(k, c) : k \in Kinds, c \in Cells}

(* A manifest; kv is kv_cache_bytes in pages.  MAX_MODEL_ARENAS is 4.      *)
ASSUME ManifestsAssumption ==
  /\ Models \subseteq 0 .. 3
  /\ Manifests \subseteq [cores : SUBSET Cores, model : Models, queue : Queues,
                          ws : Workspaces, kv : Nat \ {0}]

(* Every private arena but the KV cache, and a model's arena, is one page. *)
PagesOf(k, mf) == IF k = 0 THEN mf.kv ELSE 1

VARIABLES state,  \* cell->state
          mf,     \* cell->manifest
          res     \* what the resource managers record

cellVars == <<state, mf, res>>

CellInit ==
  /\ state = [c \in Cells |-> "EMPTY"]
  /\ mf = [c \in Cells |-> None]
  /\ res = [leases     |-> {},                           \* active g_leases
            hot        |-> [n \in Cores |-> None],       \* lease_owner_id of an AI_HOT CPU
            refs       |-> [m \in Models |-> 0],         \* ref_count of a model arena
            arena      |-> [a \in ArenaIds |-> 0],       \* pages of a READY arena
            registered |-> {},                           \* models with base # 0
            nic        |-> [q \in Queues |-> None],      \* g_nic_queue_owner
            net        |-> [q \in Queues |-> None],      \* g_queue_bindings
            ws         |-> [w \in Workspaces |-> None],  \* g_workspace_owner
            own        |-> [c \in Cells |-> {}],         \* the *_arena_id fields # 0
            bound      |-> [c \in Cells |-> None],       \* the runtime cell's model
            reserved   |-> 0,                            \* g_arena_pages_reserved
            short      |-> FALSE,                        \* history: see reserve_memory_arenas
            panic      |-> FALSE]

Kassert(r, b) == [r EXCEPT !.panic = @ \/ ~b]

FreePages(r) == TotalPages - MapThenSumSet(LAMBDA a : r.arena[a], ArenaIds)

-----------------------------------------------------------------------------
(* core_lease.c and the CPU states of smp.c.                               *)

used_mask(r) == UNION {l.mask : l \in r.leases}

validate_core_mask(r, mask) ==
  /\ mask # {} /\ 0 \notin mask
  /\ \A n \in mask : n \in Cores /\ r.hot[n] = None

CoresFree(r, mask) ==
  /\ validate_core_mask(r, mask)
  /\ used_mask(r) \cap mask = {}
  /\ Cardinality(r.leases) < MaxLeases

(* Marks every core AI_HOT for the owner and enters the lease.             *)
LeaseAcquire(r, owner, mask) ==
  [r EXCEPT !.leases = @ \cup {[owner |-> owner, mask |-> mask]},
            !.hot = [n \in Cores |-> IF n \in mask THEN owner ELSE @[n]]]

LeasesOf(r, owner) == {l \in r.leases : l.owner = owner}

(* Releases every lease of the owner; each core must be AI_HOT for it.     *)
LeaseRelease(r, owner) ==
  LET mask == UNION {l.mask : l \in LeasesOf(r, owner)}
      done == [r EXCEPT !.leases = @ \ LeasesOf(r, owner),
                        !.hot = [n \in Cores |-> IF n \in mask THEN None ELSE @[n]]]
  IN  Kassert(done, \A n \in mask : r.hot[n] = owner)

-----------------------------------------------------------------------------
(* mm/arena.c and model_arena.c.                                           *)

(* arena_create refuses a READY id, and gives its pages back when they run *)
(* out.                                                                    *)
ArenaCreatable(r, a, pages) == r.arena[a] = 0 /\ pages <= FreePages(r)

ArenaCreate(r, a, pages) == [r EXCEPT !.arena[a] = pages]

ArenaDestroy(r, A) ==
  Kassert([r EXCEPT !.arena = [a \in ArenaIds |-> IF a \in A THEN 0 ELSE @[a]]],
          \A a \in A : r.arena[a] # 0 /\ (a \in Models => r.refs[a] = 0))

ModelAcquire(r, m) == Kassert([r EXCEPT !.refs[m] = @ + 1], r.arena[m] # 0)

ModelReleaseForgotten(r, m) == r

ModelRelease(r, m) == Kassert([r EXCEPT !.refs[m] = @ - 1],
                              r.refs[m] > 0 /\ r.arena[m] # 0)

model_arena_register(m) ==
  /\ ArenaCreatable(res, m, 1)
  /\ res' = [ArenaCreate(res, m, 1) EXCEPT !.registered = @ \cup {m}, !.refs[m] = 0]
  /\ UNCHANGED <<state, mf>>

model_arena_unregister(m) ==
  /\ m \in res.registered /\ res.refs[m] = 0
  /\ res' = ArenaDestroy([res EXCEPT !.registered = @ \ {m}], {m})
  /\ UNCHANGED <<state, mf>>

-----------------------------------------------------------------------------
(* The NIC queue (owner table and network_stack binding) and the workspace.*)

QueueFree(r, q) == r.nic[q] = None /\ r.net[q] = None

bind_nic_queue(r, c, q) == [r EXCEPT !.nic[q] = c, !.net[q] = c]

release_nic_queue(r, c, q) ==
  IF r.nic[q] = c
  THEN Kassert([r EXCEPT !.nic[q] = None, !.net[q] = None], r.net[q] = c)
  ELSE r

bind_workspace(r, c, w) == [r EXCEPT !.ws[w] = c]

release_workspace(r, c, w) == IF r.ws[w] = c THEN [r EXCEPT !.ws[w] = None] ELSE r

-----------------------------------------------------------------------------
(* The private arenas of a cell.                                           *)

OwnPages(r, c) == MapThenSumSet(LAMBDA k : PagesOf(k, mf[c]), r.own[c])

(* destroy_cell_arenas takes the pages of every arena it destroys off      *)
(* g_arena_pages_reserved, down to 0.                                      *)
destroy_cell_arenas(r, c) ==
  LET released == OwnPages(r, c)
  IN  [ArenaDestroy(r, {ArenaId(k, c) : k \in r.own[c]}) EXCEPT
         !.reserved = IF released <= @ THEN @ - released ELSE 0,
         !.own[c] = {}]

(* The kinds reserve_memory_arenas gets before one is refused.             *)
Reservable(r, c) ==
  {k \in Kinds : \A j \in 0 .. k :
     /\ r.arena[ArenaId(j, c)] = 0
     /\ MapThenSumSet(LAMBDA i : PagesOf(i, mf[c]), 0 .. j) <= FreePages(r)}

CreateArenas(r, c, K) ==
  [r EXCEPT !.arena = [a \in ArenaIds |->
                         IF \E k \in K : a = ArenaId(k, c)
                         THEN PagesOf(CHOOSE k \in K : a = ArenaId(k, c), mf[c])
                         ELSE @[a]],
            !.own[c] = K]

(* The pages are entered once all four arenas exist.  When a later one is  *)
(* refused, pages that were never entered are taken off: `short` records   *)
(* that this has happened.                                                 *)
reserve_memory_arenas(r, c) ==
  LET K == Reservable(r, c)
      s == CreateArenas(r, c, K)
  IN  IF K = Kinds THEN [s EXCEPT !.reserved = @ + OwnPages(s, c)]
                   ELSE [destroy_cell_arenas(s, c) EXCEPT !.short = @ \/ K # {}]

-----------------------------------------------------------------------------
(* cpu_ai_runtime_bind_model_with_kv: its tests, and what it leaves behind.*)

NoRuntimeCell(r, c) == c >= RtCells \/ r.bound[c] # None

ModelUnfit(c) == Image[mf[c].model] = "invalid" \/ mf[c].kv < KvRequired[mf[c].model]

BindOk(r, c) == ~NoRuntimeCell(r, c) /\ ~ModelUnfit(c) /\ Image[mf[c].model] = "ok"

(* The runtime cell is BOUND before its BPE tokenizer is set up; when that *)
(* fails the model is released and the cell stays BOUND.                   *)
BindModel(r, c) ==
  LET m == mf[c].model
      acquired == ModelAcquire(r, m)
      set == [acquired EXCEPT !.bound[c] = m]
  IN  IF NoRuntimeCell(r, c) THEN r
      ELSE IF ModelUnfit(c) THEN ModelRelease(acquired, m)
      ELSE IF Image[m] = "bad-bpe" THEN ModelRelease(set, m)
      ELSE set

cpu_ai_runtime_unbind_model(r, c) ==
  [ModelRelease(Kassert(r, r.bound[c] # None), r.bound[c]) EXCEPT !.bound[c] = None]

-----------------------------------------------------------------------------
validate_manifest(man) == man.cores # {} /\ man.model \in res.registered

(* The manifest is validated by acquiring and releasing its model.         *)
ai_cell_create(c, man) ==
  /\ state[c] = "EMPTY"
  /\ validate_manifest(man)
  /\ mf' = [mf EXCEPT ![c] = man]
  /\ state' = [state EXCEPT ![c] = "CREATED"]
  /\ res' = ModelRelease(ModelAcquire(res, man.model), man.model)

(* The common end of the refusals after the cores are leased; it keeps the *)
(* lease.                                                                  *)
UnwindKeepsLease(r, c) ==
  ModelRelease(release_workspace(release_nic_queue(r, c, mf[c].queue), c, mf[c].ws),
               mf[c].model)

Unwind(r, c) ==
  ModelRelease(LeaseRelease(release_workspace(release_nic_queue(r, c, mf[c].queue),
                                              c, mf[c].ws), c), mf[c].model)

(* ai_cell_prepare: the record after it, and whether the cell is READY.    *)
PrepareOutcome(c) ==
  LET man  == mf[c]
      with_model  == ModelAcquire(res, man.model)
      with_cores  == LeaseAcquire(with_model, c, man.cores)
      with_queue  == bind_nic_queue(with_cores, c, man.queue)
      with_ws     == bind_workspace(with_queue, c, man.ws)
      with_arenas == reserve_memory_arenas(with_ws, c)
      with_rt     == BindModel(with_arenas, c)
      Refused(r)  == [ok |-> FALSE, r |-> r]
  IN  IF man.model \notin res.registered THEN Refused(res)
      ELSE IF ~CoresFree(with_model, man.cores)
           THEN Refused(ModelRelease(with_model, man.model))
      ELSE IF ~QueueFree(with_cores, man.queue) THEN Refused(Unwind(with_cores, c))
      ELSE IF with_queue.ws[man.ws] # None THEN Refused(Unwind(with_queue, c))
      ELSE IF Reservable(with_ws, c) # Kinds THEN Refused(Unwind(with_arenas, c))
      ELSE IF ~BindOk(with_arenas, c)
           THEN Refused(Unwind(destroy_cell_arenas(with_rt, c), c))
      ELSE [ok |-> TRUE, r |-> with_rt]

ai_cell_prepare(c) ==
  /\ state[c] = "CREATED"
  /\ LET out == PrepareOutcome(c)
     IN  /\ res' = out.r
         /\ state' = [state EXCEPT ![c] = IF out.ok THEN "READY" ELSE "FAILED"]
  /\ UNCHANGED mf

ai_cell_start(c) ==
  /\ state[c] = "READY"
  /\ state' = [state EXCEPT ![c] = "RUNNING"]
  /\ UNCHANGED <<mf, res>>

ai_cell_stop(c) ==
  /\ state[c] = "RUNNING"
  /\ LET unbound == ModelRelease(cpu_ai_runtime_unbind_model(res, c), mf[c].model)
         leased  == Kassert(LeaseRelease(unbound, c), LeasesOf(unbound, c) # {})
         queues  == release_workspace(release_nic_queue(leased, c, mf[c].queue),
                                      c, mf[c].ws)
     IN  res' = destroy_cell_arenas(queues, c)
  /\ state' = [state EXCEPT ![c] = "STOPPED"]
  /\ UNCHANGED mf

(* core_lease_acquire and core_lease_release by an owner that is no cell.  *)
core_lease_acquire(o, mask) ==
  /\ CoresFree(res, mask)
  /\ res' = LeaseAcquire(res, o, mask)
  /\ UNCHANGED <<state, mf>>

core_lease_release(o) ==
  /\ LeasesOf(res, o) # {}
  /\ res' = LeaseRelease(res, o)
  /\ UNCHANGED <<state, mf>>

CellNext ==
  \/ \E c \in Cells, man \in Manifests : ai_cell_create(c, man)
  \/ \E c \in Cells : ai_cell_prepare(c) \/ ai_cell_start(c) \/ ai_cell_stop(c)
  \/ \E m \in Models : model_arena_register(m) \/ model_arena_unregister(m)
  \/ \E o \in Others, mask \in SUBSET Cores : core_lease_acquire(o, mask)
  \/ \E o \in Others : core_lease_release(o)

-----------------------------------------------------------------------------
Holds(c) == state[c] \in {"READY", "RUNNING"}

(* No kassert of ai_cell.c, core_lease.c or model_arena.c fails, in        *)
(* whatever order cells, models and leases come and go.                    *)
NoKassertFails == ~res.panic

(* A READY or RUNNING cell has its queue, in both tables, its workspace,   *)
(* its cores, its four arenas and its model; any other cell has none of    *)
(* them: ai_cell_prepare takes all or nothing (ai_cell.c:423-478) and      *)
(* ai_cell_stop gives everything back (ai_cell.c:492-508).  For the slot   *)
(* of the CPU AI runtime see RefsExact.                                    *)
AllOrNothing ==
  \A c \in Cells :
    IF Holds(c)
    THEN /\ \A q \in Queues : (res.nic[q] = c <=> q = mf[c].queue) /\ res.net[q] = res.nic[q]
         /\ \A w \in Workspaces : res.ws[w] = c <=> w = mf[c].ws
         /\ \A n \in Cores : res.hot[n] = c <=> n \in mf[c].cores
         /\ res.own[c] = Kinds
         /\ \A k \in Kinds : res.arena[ArenaId(k, c)] = PagesOf(k, mf[c])
         /\ mf[c].model \in res.registered /\ res.bound[c] = mf[c].model
    ELSE /\ c \notin {res.nic[q] : q \in Queues} \cup {res.net[q] : q \in Queues}
         /\ c \notin {res.ws[w] : w \in Workspaces} \cup {res.hot[n] : n \in Cores}
         /\ LeasesOf(res, c) = {} /\ res.own[c] = {}

(* A CPU is AI_HOT for an owner exactly when an active lease of that owner *)
(* has it, and leases share no CPU (core_lease.c:69-121, smp.c:175-223).   *)
LeasesExclusive ==
  /\ \A l \in res.leases : 0 \notin l.mask /\ \A n \in l.mask : res.hot[n] = l.owner
  /\ \A n \in Cores : res.hot[n] # None => \E l \in res.leases : n \in l.mask
  /\ \A l, k \in res.leases : l # k => l.mask \cap k.mask = {}

(* A model arena's ref_count is two for each prepared cell that uses it,   *)
(* the cell's own and its runtime cell's.  A runtime cell of no prepared   *)
(* cell is bound to a model only if the tables of its tokenizer were       *)
(* refused: that cell stays bound without a reference, for good            *)
(* (cpu_ai_runtime.c:541-571), and the model can be unregistered under it. *)
RefsExact ==
  /\ \A m \in Models :
       res.refs[m] = 2 * Cardinality({c \in Cells : Holds(c) /\ mf[c].model = m})
  /\ \A c \in Cells : res.bound[c] # None =>
       Holds(c) \/ (Image[res.bound[c]] = "bad-bpe" /\ state[c] = "FAILED")

LivePages == MapThenSumSet(LAMBDA c : OwnPages(res, c), {c \in Cells : Holds(c)})

(* The pages ai_cell_arena_pages_reserved reports are those the prepared   *)
(* cells hold, until a cell is refused one of its later arenas: from then  *)
(* on the report may be short (ai_cell.c:251-255, 285-311, 320-324).       *)
ReservedCovered ==
  IF res.short THEN res.reserved <= LivePages ELSE res.reserved = LivePages

(* The accounts of the resource managers agree with the cells: no kassert  *)
(* fails, leases are exclusive, references are exact, and so are reserved  *)
(* pages as long as no cell was refused half-way through its arenas.       *)
AccountsExact == NoKassertFails /\ LeasesExclusive /\ RefsExact /\ ReservedCovered

=============================================================================
