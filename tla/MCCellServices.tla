--------------------------- MODULE MCCellServices ---------------------------
(***************************************************************************)
(* What the kernel offers to AI cells (src/kernel/runtime): the cells and  *)
(* their resources, decoding, speculation and checkpoints, the git         *)
(* workspaces, the build sandboxes, the snapshots of persistence.c and the *)
(* source index.  Cells take workspaces and arenas by number and the       *)
(* services keep tables of their own, so a behaviour exercises one of      *)
(* them, its part; the others stay as their runtime_init left them.        *)
(***************************************************************************)
EXTENDS AiCell, Speculation, GitWorkspace, Sandbox, Persistence, SourceIndex, TLC

VARIABLE part

inferenceVars == <<decodeVars, speculationVars>>

vars == <<cellVars, inferenceVars, gitVars, sandboxVars, persistVars, indexVars, part>>

Init ==
  /\ part \in {"cells", "inference", "git", "diff", "sandbox", "persistence", "index"}
  /\ CellInit /\ InferenceInit /\ git_workspace_runtime_init /\ sandbox_runtime_init
  /\ PersistInit /\ source_index_runtime_init
  /\ part # "inference" => load = CHOOSE l \in Loads : TRUE
  /\ part # "persistence" => sector = CHOOSE s \in FoundSectors : TRUE

Next ==
  /\ UNCHANGED part
  /\ \/ /\ part = "cells" /\ CellNext
        /\ UNCHANGED <<inferenceVars, gitVars, sandboxVars, persistVars, indexVars>>
     \/ /\ part = "inference" /\ InferenceNext
        /\ UNCHANGED <<cellVars, gitVars, sandboxVars, persistVars, indexVars>>
     \/ /\ part = "git" /\ GitNext
        /\ UNCHANGED <<cellVars, inferenceVars, sandboxVars, persistVars, indexVars>>
     \/ /\ part = "diff" /\ DiffNext
        /\ UNCHANGED <<cellVars, inferenceVars, sandboxVars, persistVars, indexVars>>
     \/ /\ part = "sandbox" /\ SandboxNext
        /\ UNCHANGED <<cellVars, inferenceVars, gitVars, persistVars, indexVars>>
     \/ /\ part = "persistence" /\ PersistNext
        /\ UNCHANGED <<cellVars, inferenceVars, gitVars, sandboxVars, indexVars>>
     \/ /\ part = "index" /\ IndexNext
        /\ UNCHANGED <<cellVars, inferenceVars, gitVars, sandboxVars, persistVars>>

Spec == Init /\ [][Next]_vars

-----------------------------------------------------------------------------
(* Instances for TLC.                                                      *)

(* Cells.  Cell 4 has arena ids of cell 0 and no slot in the runtime;      *)
(* eight pages are enough for the model, one cell and two arenas of a      *)
(* second.  The manifests conflict in every resource; one asks for the     *)
(* boot CPU, one for a model that needs more KV cache (an invalid image is *)
(* refused at the same place), one for a model with a bad tokenizer.       *)
Man(cores, model, queue, ws, kv) ==
  [cores |-> cores, model |-> model, queue |-> queue, ws |-> ws, kv |-> kv]

MCCells == {0, 1, 4}
MCCores == {0, 1, 2}
MCModels == 0 .. 2
MCManifests == {Man({1}, 2, 0, 1, 1), Man({2}, 2, 1, 2, 1), Man({1, 2}, 2, 1, 2, 1),
                Man({2}, 1, 0, 2, 1), Man({2}, 0, 1, 1, 1), Man({0, 2}, 2, 1, 2, 1)}
MCImages == (0 :> "bad-bpe" @@ 1 :> "ok" @@ 2 :> "ok")
MCKvRequired == (0 :> 1 @@ 1 :> 2 @@ 2 :> 1)

(* Inference.  Three models of a byte table, one with another key and one  *)
(* with another stride, and three with byte pairs: one whose rules         *)
(* overlap, one whose merged tokens merge again, and a small one.  None of *)
(* the three has byte 3, which is the number of a token in two of them.    *)
Img(tok, table, vocab, rules, key, stride) ==
  [tokenizer |-> tok, table |-> table, vocab |-> vocab, rules |-> rules,
   key |-> key, stride |-> stride]
Rule(a, b, m, p) == [a |-> a, b |-> b, merged |-> m, priority |-> p]
ByteTable == (0 :> 1 @@ 1 :> 2 @@ 2 :> 3 @@ 3 :> 0)

MCDecodeModels ==
  <<Img("byte", ByteTable, << >>, << >>, 1, 1), Img("byte", ByteTable, << >>, << >>, 3, 1),
    Img("byte", ByteTable, << >>, << >>, 1, 2),
    Img("bpe", << >>, << <<1>>, <<2>>, <<1, 2>>, <<1, 1>>, <<1, 2, 1>> >>,
        <<Rule(2, 0, 4, 3), Rule(0, 0, 3, 2), Rule(0, 1, 2, 1)>>, 1, 1),
    Img("bpe", << >>, << <<1>>, <<2>>, <<1, 1>>, <<1, 1, 1>>, <<1, 1, 1, 1>> >>,
        <<Rule(0, 0, 2, 1), Rule(2, 0, 3, 3), Rule(2, 2, 4, 2)>>, 1, 1),
    Img("bpe", << >>, << <<1>>, <<2>>, <<1, 2>> >>, <<Rule(0, 1, 2, 1)>>, 1, 1)>>
MCDigit == (0 :> 2 @@ 1 :> 2 @@ 2 :> 3 @@ 3 :> 3)

Load(cells, models, pieces, caps, kv, uses) ==
  [cells |-> cells, models |-> models, pieces |-> pieces, caps |-> caps, kv |-> kv,
   uses |-> uses]
Pieces(bytes, n) == UNION {[1 .. k -> bytes] : k \in 0 .. n}
MCLoads ==
  {Load({0}, {4, 5, 6}, Pieces({1, 2}, 5) \cup Pieces({1, 2, 3}, 3), {1}, 2, {"pieces"}),
   Load({0, 1}, {1, 4, 5}, {<<1>>, <<1, 2, 1>>}, {3, 9}, 3, {"pieces"}),
   Load({0}, {1}, {<< >>, <<1>>, <<1, 2>>}, {3, 9}, 4, {"pieces", "batches"}),
   Load({0, 1}, {1, 2, 3}, {<<1>>, <<1, 2>>}, {9}, 5, {"speculation"}),
   Load({0}, {1}, {}, {}, 0, {"checkpoints"})}

(* Workspaces: texts of up to three lines.                                 *)
MCTexts == UNION {[1 .. n -> {"", "x", "y"}] : n \in 1 .. 3}

(* Sandboxes: programs that run into the limit of the artifact with each   *)
(* of the two instructions that write, loop without end, jump behind the   *)
(* last instruction, wrap the register numbers and use an unknown          *)
(* instruction.                                                            *)
Insn(op, dst, src1, src2, imm) ==
  [op |-> op, dst |-> dst, src1 |-> src1, src2 |-> src2, imm |-> imm]
MCPrograms ==
  {<<Insn("LOAD_IMM", 0, 0, 0, 2), Insn("LOAD_IMM", 5, 0, 0, 300), Insn("EMIT", 0, 0, 0, 0),
     Insn("EMIT_STR", 0, 3, 0, 3), Insn("HALT", 0, 0, 0, 0), Insn("EMIT", 1, 0, 0, 0)>>,
   <<Insn("NOP", 0, 0, 0, 0), Insn("CMP", 1, 0, 3, 0), Insn("LOAD_IMM", 0, 0, 0, 7),
     Insn("ADD", 0, 0, 1, 0), Insn("EMIT", 0, 0, 0, 0), Insn("JNZ", 0, 0, 0, 3)>>,
   <<Insn("LOAD_IMM", 2, 0, 0, 3), Insn("MUL", 1, 2, 2, 0), Insn("EMIT", 1, 0, 0, 0),
     Insn("JNZ", 1, 0, 0, 9), Insn("EMIT", 1, 0, 0, 0)>>,
   <<Insn("EMIT_STR", 0, 0, 0, 2), Insn("UNKNOWN", 0, 0, 0, 0), Insn("EMIT", 1, 0, 0, 0)>>}

(* Persistence: the snapshots the self-test takes, and the sectors a boot  *)
(* may find: blank, a sound one, one cut off and one of a kind nobody      *)
(* knows.                                                                  *)
MCTest == << <<"boot", 0>>, <<"service", 1>>, <<"workspace", 1>>, <<"sandbox", 0>>,
             <<"update", 0>> >>
BlankSector == [header |-> FALSE, count |-> 0, next |-> 0, records |-> << >>, sum |-> << >>]
OneRecord(kind) ==
  [header |-> TRUE, count |-> 1, next |-> 2, sum |-> << >>,
   records |-> <<[kind |-> kind, owner |-> 0, generation |-> 1]>>]
Summed(s) == [s EXCEPT !.sum = Body(s)]
MCFound == {BlankSector, Summed(OneRecord("update")), Summed(OneRecord("other")),
            [OneRecord("update") EXCEPT !.count = 9]}

(* Sources to index: two functions and a variable, a structure that is     *)
(* found twice on its line, and a text that shares a symbol with the first.*)
Find(name, kind, line) == [name |-> name, kind |-> kind, line |-> line]
MCSources ==
  {<<Find("f", "FUNCTION", 1), Find("g", "FUNCTION", 2), Find("v", "VARIABLE", 2)>>,
   <<Find("s", "TYPE", 1), Find("s", "TYPE", 1), Find("f", "VARIABLE", 3)>>,
   <<Find("f", "FUNCTION", 1), Find("t", "TYPE", 2)>>}
=============================================================================
