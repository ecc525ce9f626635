-------------------------- MODULE ServiceManager ---------------------------
(***************************************************************************)
(* The service supervisor (user/service.c): the life of a service, its     *)
(* restart policy and budget, the watchdog, the ring of crash dumps, and   *)
(* the record of the child service in the mutable filesystem.              *)
(*                                                                         *)
(* Commands arrive from the osctl system call and a process's exit, one at *)
(* a time.  Log policy and counters that nothing reads are left out.  A    *)
(* heartbeat is "late" when it is older than XAIOS_WATCHDOG_TIMEOUT_NS.    *)
(***************************************************************************)
EXTENDS UpdateManager

CONSTANTS Services,      \* in the order service_watchdog_check visits them
          InitService,   \* k_init_service_name
          Child,         \* k_child_service_name
          Policies,      \* the restart policies a command may name
          Limits,        \* the values of max_restarts a command may name
          DumpMax        \* XAIOS_CRASH_DUMP_MAX

VARIABLES services,      \* the xaios_service_t
          saved,         \* the snapshot in g_init_service, the only one used
          dumps,         \* g_crash_dumps
          crashes,       \* history: all crashes; its length is g_crash_dump_count
          recorded,      \* history: the child's record was written when its
                         \* state last changed, and not rolled back since
          granted        \* history: restarts since the budget was last set
                         \* (bound: starts, crashes and the services in use)

serviceVars == <<services, saved, dumps, crashes, recorded, granted>>

Unlimited == 0 - 1       \* UINT32_C(0xffffffff)
Names     == {Services[i] : i \in DOMAIN Services}

ASSUME ServiceAssumption ==
  /\ Services \in Seq(Names) /\ {InitService, Child} \subseteq Names
  /\ Limits \subseteq Nat \cup {Unlimited} /\ DumpMax \in Nat \ {0}
  /\ \A b \in Bounds : b.services \subseteq Names

reset_service(known, policy) ==
  [known |-> known, state |-> "stopped", late |-> FALSE, policy |-> policy,
   limit |-> Unlimited, starts |-> 0, attempts |-> 0]

service_snapshot_capture(s) ==
  [policy |-> s.policy, limit |-> s.limit, starts |-> s.starts, attempts |-> s.attempts]

service_snapshot_restore(s) ==
  [s EXCEPT !.policy = saved.policy, !.limit = saved.limit,
            !.starts = saved.starts, !.attempts = saved.attempts]

(***************************************************************************)
(* Transitions of one service, as functions of its record.                 *)
(***************************************************************************)
Startable(s) ==
  /\ s.state \in {"stopped", "exited", "failed"}
  /\ s.state # "stopped" /\ s.limit # Unlimited => s.starts < s.limit

(* Mutant: a restart keeps the old heartbeat.                              *)
start_service_KeepsHeartbeat(s) == [s EXCEPT !.state = "running", !.starts = @ + 1]

start_service(s) ==
  [s EXCEPT !.state = "running", !.starts = @ + 1, !.late = FALSE]

OverBudget(s) == s.limit # Unlimited /\ s.attempts > s.limit

supervisor_restart_failed_child(s) ==
  LET t == [s EXCEPT !.attempts = @ + 1] IN
  IF s.policy \notin {"always", "on-failure"} THEN s
  ELSE IF OverBudget(t) THEN t
  ELSE start_service([t EXCEPT !.state = "stopped"])

Exited(s, crashed) == [s EXCEPT !.state = IF crashed THEN "failed" ELSE "exited"]

Crashed(s, supervised) ==
  IF supervised THEN supervisor_restart_failed_child(Exited(s, TRUE)) ELSE Exited(s, TRUE)

(* persist_service_state writes a record for the child only; a failure is  *)
(* logged and forgotten.  There are one or two states to write, one after  *)
(* the other.                                                              *)
PersistAll(f, states) ==
  LET first == write_file(f, ServiceRecord, states[1])
  IN  IF Len(states) = 1 THEN first
      ELSE UNION {write_file(o.fs, ServiceRecord, states[2]) : o \in first}

Persist(n, states) ==
  IF n # Child \/ states = <<>> THEN UNCHANGED <<fs, recorded>>
  ELSE \E o \in PersistAll(fs, states) : fs' = o.fs /\ recorded' = o.ok

Ran(n, s, states) ==
  services' = [services EXCEPT ![n] = s] /\ Persist(n, states)

Grant(n, restarted) == granted' = [granted EXCEPT ![n] = IF restarted THEN @ + 1 ELSE @]

Within(s) == s.starts <= bound.starts /\ s.attempts <= bound.starts

(***************************************************************************)
(* Commands and events.                                                    *)
(***************************************************************************)
service_start(n) ==
  LET s == services[n] IN
  /\ s.known /\ Startable(s) /\ Within(start_service(s))
  /\ Ran(n, start_service(s), <<"running">>)
  /\ UNCHANGED <<saved, dumps, crashes, granted>>

(* mark_service_exit with code 0: service_stop, service_exit.              *)
service_stop(n) ==
  /\ services[n].known /\ services[n].state = "running"
  /\ Ran(n, Exited(services[n], FALSE), <<"exited">>)
  /\ UNCHANGED <<saved, dumps, crashes, granted>>

Crash(n) == <<n, services[n].attempts>>

(* The crashes of a call go to the ring one after the other: a slot keeps  *)
(* the last one written to it.                                             *)
Dump(new) ==
  LET into(j) == {i \in DOMAIN new : (Len(crashes) + i - 1) % DumpMax = j}
      last(S) == CHOOSE i \in S : \A k \in S : k <= i
  IN
  /\ dumps' = [j \in 0..(DumpMax - 1) |-> IF into(j) = {} THEN dumps[j] ELSE new[last(into(j))]]
  /\ crashes' = crashes \o new

(* The records a crash writes: the failure, and the restart if there is one. *)
Written(t) == IF t.state = "running" THEN <<"failed", "running">> ELSE <<"failed">>

(* mark_service_exit with another code: the dump is taken before the       *)
(* supervisor counts its attempt.                                          *)
service_crash(n, supervised) ==
  LET s == services[n]
      t == Crashed(s, supervised)
  IN
  /\ s.known /\ s.state = "running"
  /\ Within(t) /\ Len(crashes) < bound.crashes
  /\ Ran(n, t, Written(t))
  /\ Grant(n, t.state = "running")
  /\ Dump(<<Crash(n)>>)
  /\ UNCHANGED saved

(* Mutant: an operator's restart is not limited.                           *)
Restarted_Unlimited(s) == start_service([s EXCEPT !.attempts = @ + 1, !.state = "stopped"])

(* A restart counts as an attempt even when it is denied.  It does not     *)
(* look at the state: a running service is started again.                  *)
Restarted(s) ==
  LET t == [s EXCEPT !.attempts = @ + 1] IN
  IF s.policy = "never" \/ OverBudget(t) THEN t
  ELSE start_service([t EXCEPT !.state = "stopped"])

handle_restart(n) ==
  LET s == services[n]
      t == Restarted(s)
      allowed == t.starts > s.starts
  IN
  /\ s.known /\ Within(t)
  /\ Ran(n, t, IF allowed THEN <<"running">> ELSE <<>>)
  /\ Grant(n, allowed)
  /\ UNCHANGED <<saved, dumps, crashes>>

configure_service(n, policy, limit) ==
  LET s == [services[n] EXCEPT !.policy = policy, !.limit = limit] IN
  /\ services[n].known
  /\ services' = [services EXCEPT ![n] = s]
  /\ saved' = IF n = InitService THEN service_snapshot_capture(s) ELSE saved
  /\ granted' = [granted EXCEPT ![n] = 0]
  /\ UNCHANGED <<fs, dumps, crashes, recorded>>

(* A definition replaces the child, running or not, and records nothing.   *)
handle_define(policy) ==
  /\ services' = [services EXCEPT ![Child] = reset_service(TRUE, policy)]
  /\ granted' = [granted EXCEPT ![Child] = 0] /\ recorded' = FALSE
  /\ UNCHANGED <<fs, saved, dumps, crashes>>

(* Counters go back with the configuration, so the budget starts anew.     *)
handle_rollback ==
  /\ services' = [services EXCEPT ![InitService] = service_snapshot_restore(@)]
  /\ granted' = [granted EXCEPT ![InitService] = 0]
  /\ UNCHANGED <<fs, saved, dumps, crashes, recorded>>

service_heartbeat(n) ==
  /\ services[n].known /\ services[n].state = "running"
  /\ services' = [services EXCEPT ![n].late = FALSE]
  /\ UNCHANGED <<fs, saved, dumps, crashes, recorded, granted>>

(* Time passes: the last heartbeat of a service becomes too old.           *)
HeartbeatLate(n) ==
  /\ services[n].state = "running" /\ ~services[n].late
  /\ services' = [services EXCEPT ![n].late = TRUE]
  /\ UNCHANGED <<fs, saved, dumps, crashes, recorded, granted>>

Expired(n) == services[n].state = "running" /\ services[n].late

(* The positions of the expired services, in the order of the table.       *)
IsPass(at) ==
  /\ \A i, j \in DOMAIN at : i < j => at[i] < at[j]
  /\ {Services[at[i]] : i \in DOMAIN at} = {n \in Names : Expired(n)}

service_watchdog_check ==
  LET after == [n \in Names |-> IF Expired(n) THEN Crashed(services[n], TRUE) ELSE services[n]]
      up(n) == Expired(n) /\ after[n].state = "running"
  IN
  \E k \in DOMAIN Services : \E at \in [1..k -> DOMAIN Services] :
    /\ IsPass(at) /\ Len(crashes) + k <= bound.crashes
    /\ \A n \in Names : Expired(n) => Within(after[n])
    /\ services' = after
    /\ Persist(Child, IF Expired(Child) THEN Written(after[Child]) ELSE <<>>)
    /\ granted' = [n \in Names |-> granted[n] + IF up(n) THEN 1 ELSE 0]
    /\ Dump([i \in 1..k |-> Crash(Services[at[i]])])
    /\ UNCHANGED saved

(* The command "update" has its signature checked and does nothing else.   *)
handle_update(signature) ==
  /\ security_authorize_update_signature(signature)
  /\ UNCHANGED <<fs, serviceVars>>
-----------------------------------------------------------------------------
service_supervisor_init ==
  /\ services = [n \in Names |-> reset_service(n # Child, "unset")]
  /\ saved = service_snapshot_capture(services[InitService])
  /\ dumps = [i \in 0..(DumpMax - 1) |-> <<>>]
  /\ crashes = <<>> /\ recorded = FALSE /\ granted = [n \in Names |-> 0]

SupervisorNext ==
  \/ \E n \in bound.services :
       \/ service_start(n) \/ service_stop(n) \/ handle_restart(n)
       \/ \E supervised \in BOOLEAN : service_crash(n, supervised)
       \/ \E p \in Policies, l \in Limits : configure_service(n, p, l)
       \/ service_heartbeat(n) \/ HeartbeatLate(n)
  \/ Child \in bound.services /\ \E p \in Policies \cap {"never", "always"} : handle_define(p)
  \/ InitService \in bound.services /\ handle_rollback
  \/ service_watchdog_check
-----------------------------------------------------------------------------
(* The child's record in /state/services holds its present state: the last *)
(* write of a start, an exit or a crash with its restart is the state the  *)
(* service ends in, and nothing an update transaction writes, commits or   *)
(* fails to write touches it.  A failed write, a new definition and a      *)
(* rollback of the tree void the record.                                   *)
ChildRecordMatches ==
  recorded => fs.live[ServiceRecord] = FS!File(services[Child].state)

(* Between two configurations a service is restarted, by the supervisor,   *)
(* the watchdog and operators together, at most max_restarts times.        *)
RestartBudget ==
  \A n \in Names : services[n].limit # Unlimited => granted[n] <= services[n].limit

(* The dump ring holds the most recent crashes, each in the slot that      *)
(* g_crash_dump_count says, with the attempts made before that crash.      *)
DumpsAreLatest ==
  \A k \in 1..Len(crashes) :
    k > Len(crashes) - DumpMax => dumps[(k - 1) % DumpMax] = crashes[k]

(* Crashes and restarts are accounted for.                                 *)
RestartsAccounted == RestartBudget /\ DumpsAreLatest

(* After a pass of the watchdog no service is running on an old heartbeat: *)
(* each late one has failed for good or was restarted with a new one.      *)
WatchdogLeavesNoneLate ==
  [][service_watchdog_check =>
       \A n \in Names : services'[n].state = "running" => ~services'[n].late]_serviceVars
-----------------------------------------------------------------------------
(* The control plane: the service supervisor and the update manager on one *)
(* filesystem, with one counter of signature generations.  Rolling an      *)
(* update back restores the whole tree, so also the record of the child.   *)
vars == <<updateVars, serviceVars>>

Init == UpdateInit /\ service_supervisor_init

Unsupervised == UNCHANGED <<services, saved, dumps, crashes, granted>>

Next ==
  \/ SupervisorNext
     /\ UNCHANGED <<tx, delivery, snapshots, last_generation, clean, point, accepted, bound>>
  \/ \E s \in Signatures : handle_update(s)
     /\ UNCHANGED <<tx, delivery, snapshots, clean, point, bound>>
  \/ UpdateNext /\ UNCHANGED serviceVars
  \/ UndoNext /\ Unsupervised /\ recorded' = FALSE

(* Both records under /state say what their owners say, as long as the     *)
(* last call of the owner succeeded: neither manager's writes, commits or  *)
(* failures make the other's record stale.                                 *)
RecordsMatch == RecordMatches /\ ChildRecordMatches

Spec == Init /\ [][Next]_vars
=============================================================================
