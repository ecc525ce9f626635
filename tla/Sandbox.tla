------------------------------- MODULE Sandbox -------------------------------
(***************************************************************************)
(* The build sandboxes of sandbox.c: one workspace and one build arena     *)
(* each, a build from CREATED over BUILDING to BUILT and back by rollback, *)
(* and the bytecode machine that writes the artifact of a build into the   *)
(* arena.  Manifests are valid; the exported operations act as the owner   *)
(* of the sandbox.  Registers hold small numbers, a byte is itself.        *)
(***************************************************************************)
EXTENDS Integers, Sequences

CONSTANTS Sandboxes, SandboxWorkspaces,
          Artifacts, ArtifactMax, \* revisions; max_artifact_bytes
          Programs,               \* sequences of [op, dst, src1, src2, imm]
          VmRegisters,            \* XAIOS_SANDBOX_VM_REGISTERS
          CyclesPerInsn           \* 64: max_cycles = insn_count * 64

VARIABLES boxes,     \* g_sandboxes
          ws_owner,  \* g_workspace_owner, 0 for nobody
          produced   \* the last execution: its program, the bytes it wrote

sandboxVars == <<boxes, ws_owner, produced>>

EmptyBox == [state |-> "EMPTY", ws |-> 0, good |-> 0, current |-> 0]
NothingRun == [program |-> << >>, out |-> << >>]

sandbox_runtime_init ==
  /\ boxes = [b \in Sandboxes |-> EmptyBox]
  /\ ws_owner = [w \in SandboxWorkspaces |-> 0]
  /\ produced = NothingRun

Available(b, w) == boxes[b].state = "EMPTY" /\ ws_owner[w] = 0

\* arena_create may refuse.
sandbox_create(b, w, revision) ==
  /\ Available(b, w)
  /\ boxes' = [boxes EXCEPT ![b] = [state |-> "CREATED", ws |-> w, good |-> revision,
                                    current |-> revision]]
  /\ ws_owner' = [ws_owner EXCEPT ![w] = b + 1]
  /\ UNCHANGED produced

sandbox_start_build(b) ==
  /\ boxes[b].state = "CREATED"
  /\ boxes' = [boxes EXCEPT ![b].state = "BUILDING"]
  /\ UNCHANGED <<ws_owner, produced>>

sandbox_finish_build(b, artifact) ==
  /\ boxes[b].state = "BUILDING"
  /\ boxes' = [boxes EXCEPT ![b].state = "BUILT", ![b].current = artifact]
  /\ UNCHANGED <<ws_owner, produced>>

sandbox_rollback(b) ==
  /\ boxes[b].state = "BUILT"
  /\ boxes' = [boxes EXCEPT ![b].state = "ROLLED_BACK", ![b].current = boxes[b].good]
  /\ UNCHANGED <<ws_owner, produced>>

(***************************************************************************)
(* The bytecode machine.                                                   *)
(***************************************************************************)

Reg(s, r) == s.regs[r % VmRegisters]

Set(s, r, value) == [s EXCEPT !.regs[r % VmRegisters] = value, !.pc = @ + 1]

Shorter(bytes, n) == SubSeq(bytes, 1, IF Len(bytes) <= n THEN Len(bytes) ELSE n)

\* Bytes that no longer fit the arena are dropped.
Emit(s, bytes) ==
  [s EXCEPT !.out = @ \o Shorter(bytes, s.cap - Len(@)), !.pc = @ + 1]

\* Mutant: a string is dropped as a whole when it does not fit.
EmitStr_All(s, insn) ==
  LET bytes == [i \in 1 .. insn.imm |-> Reg(s, insn.src1 + i - 1) % 256]
  IN Emit(s, IF Len(s.out) + insn.imm <= s.cap THEN bytes ELSE << >>)

\* The low bytes of consecutive registers, wrapping around.
EmitStr(s, insn) ==
  Emit(s, [i \in 1 .. insn.imm |-> Reg(s, insn.src1 + i - 1) % 256])

\* One instruction; an unknown one ends the execution with an error.
Execute(s, insn, count) ==
  CASE insn.op = "NOP"      -> [s EXCEPT !.pc = @ + 1]
    [] insn.op = "LOAD_IMM" -> Set(s, insn.dst, insn.imm)
    [] insn.op = "ADD"      -> Set(s, insn.dst, Reg(s, insn.src1) + Reg(s, insn.src2))
    [] insn.op = "MUL"      -> Set(s, insn.dst, Reg(s, insn.src1) * Reg(s, insn.src2))
    [] insn.op = "EMIT"     -> Emit(s, <<Reg(s, insn.dst) % 256>>)
    [] insn.op = "CMP"      -> Set(s, insn.dst, IF Reg(s, insn.src1) = Reg(s, insn.src2)
                                                THEN 0 ELSE 1)
    [] insn.op = "JNZ"      -> [s EXCEPT !.pc = IF Reg(s, insn.dst) # 0 THEN insn.imm ELSE @ + 1]
    [] insn.op = "HALT"     -> [s EXCEPT !.pc = count]
    [] insn.op = "EMIT_STR" -> EmitStr(s, insn)
    [] OTHER                -> [s EXCEPT !.ok = FALSE]

RECURSIVE RunVm(_, _, _)
RunVm(s, program, cycles) ==
  IF s.pc >= Len(program) \/ cycles = 0 \/ ~s.ok THEN s
  ELSE RunVm(Execute(s, program[s.pc + 1], Len(program)), program, cycles - 1)

\* The artifact of a program in an arena of cap bytes.
Artifact(program, cap) ==
  RunVm([pc |-> 0, regs |-> [r \in 0 .. VmRegisters - 1 |-> 0], out |-> << >>,
         cap |-> cap, ok |-> TRUE],
        program, CyclesPerInsn * Len(program)).out

sandbox_execute_build(b, program) ==
  /\ boxes[b].state = "BUILDING"
  /\ produced' = [program |-> program, out |-> Artifact(program, ArtifactMax)]
  /\ UNCHANGED <<boxes, ws_owner>>

SandboxNext ==
  \E b \in Sandboxes :
     \/ \E w \in SandboxWorkspaces, r \in Artifacts : sandbox_create(b, w, r)
     \/ sandbox_start_build(b)
     \/ \E r \in Artifacts : sandbox_finish_build(b, r)
     \/ sandbox_rollback(b)
     \/ \E p \in Programs : sandbox_execute_build(b, p)

Unlimited == 1000000

(***************************************************************************)
(* Properties.                                                             *)
(***************************************************************************)

\* The artifact of a build is what its program writes into an arena without
\* limit, cut off at max_artifact_bytes, whichever instruction ran into the
\* limit and wherever the program jumped; and a workspace belongs to exactly
\* the sandbox that builds in it, also after its rollback (sandbox_create,
\* sandbox_execute_build).
BuildsKeepBounds ==
  /\ produced.out = Shorter(Artifact(produced.program, Unlimited), ArtifactMax)
  /\ \A b \in Sandboxes : boxes[b].state # "EMPTY" => ws_owner[boxes[b].ws] = b + 1
=============================================================================
