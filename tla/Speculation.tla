----------------------------- MODULE Speculation -----------------------------
(***************************************************************************)
(* Speculative decoding on two cells of the CPU AI runtime                 *)
(* (speculative_decoding.c) and the checkpoints of preempted inferences    *)
(* (inference_preempt.c).                                                  *)
(*                                                                         *)
(* A token is what the first four digits of an answer say, so the first    *)
(* two bytes of the kernel's output; as a byte of the next input it is its *)
(* first digit.  The cells decode with byte tables.                        *)
(***************************************************************************)
EXTENDS Decoding

CONSTANTS MaxDraft,    \* XAIOS_SPEC_MAX_DRAFT_TOKENS
          InputMax,    \* sizeof(input_buffer)
          SpecOutput,  \* sizeof(output_buffer)
          Digit,       \* the byte of the first hex digit of a byte
          Checkpoints, \* XAIOS_PREEMPT_MAX_CHECKPOINTS
          Progress,    \* what is saved: layer, token, activations, offsets
          LargeProgress, \* members whose activations fit no checkpoint
          MaxSaves     \* bound on next_checkpoint_id

VARIABLES spec,     \* state->draft_tokens and state->verified_tokens
          spoken,   \* the last output of a decode step, with its context
          slots,    \* mgr->checkpoints
          next_id,  \* mgr->next_checkpoint_id
          saves     \* history: every save answered OK, and whether deleted

speculationVars == <<spec, spoken, slots, next_id, saves>>

Silent == [model |-> 0, context |-> << >>, out |-> << >>]

SpeculationInit ==
  /\ spec = [draft |-> << >>, verified |-> << >>]
  /\ spoken = Silent
  /\ slots = [s \in 1 .. Checkpoints |-> << >>]
  /\ next_id = 0
  /\ saves = << >>

extract_token_id(output) == SubSeq(output, 1, IF Len(output) < 2 THEN Len(output) ELSE 2)

LowByte(token) == Digit[Head(token)]

Input(context, tokens) == context \o [i \in DOMAIN tokens |-> LowByte(tokens[i])]

\* Draft tokens are generated one at a time until one fails; an input too
\* long for the buffer ends the loop without a failure.
RECURSIVE generate_draft(_, _, _, _)
generate_draft(cell, context, tokens, n) ==
  LET input == Input(context, tokens)
      After(run) ==
        IF ~run.ok THEN [ok |-> FALSE, cell |-> run.cell, tokens |-> tokens]
        ELSE generate_draft(run.cell, context, Append(tokens, extract_token_id(run.out)), n - 1)
  IN IF n = 0 \/ Len(input) > InputMax THEN [ok |-> TRUE, cell |-> cell, tokens |-> tokens]
     ELSE After(run_model(cell, input, SpecOutput))

\* Mutant: a token is accepted whenever the target answers.
Accepts_Any(draft, token) == TRUE

Accepts(draft, token) == token = draft

\* The target runs on the context and the draft tokens before each one, and
\* stops at the first it does not confirm or cannot answer.
RECURSIVE verify_tokens(_, _, _, _)
verify_tokens(cell, context, draft, verified) ==
  LET i     == Len(verified) + 1
      input == Input(context, SubSeq(draft, 1, i - 1))
      After(run, token) ==
        IF ~run.ok \/ ~Accepts(draft[i], token) THEN [cell |-> run.cell, verified |-> verified]
        ELSE verify_tokens(run.cell, context, draft, Append(verified, token))
      Judged(run) == After(run, extract_token_id(run.out))
  IN IF i > Len(draft) \/ Len(input) > InputMax THEN [cell |-> cell, verified |-> verified]
     ELSE Judged(run_model(cell, input, SpecOutput))

speculative_decode_step(d, t, context) ==
  /\ d # t
  /\ ByTable(dcells[d].model) /\ ByTable(dcells[t].model)
  /\ LET Checked(drafted, checked) ==
           /\ dcells' = [dcells EXCEPT ![d] = drafted.cell, ![t] = checked.cell]
           /\ spec' = [draft |-> drafted.tokens, verified |-> checked.verified]
           /\ spoken' = [model |-> dcells[t].model, context |-> context,
                         out |-> checked.verified]
         Drafted(drafted) ==
           IF drafted.ok
             THEN Checked(drafted, verify_tokens(dcells[t], context, drafted.tokens, << >>))
             ELSE /\ dcells' = [dcells EXCEPT ![d] = drafted.cell]
                  /\ spec' = [spec EXCEPT !.draft = drafted.tokens]
                  /\ spoken' = Silent
     IN Drafted(generate_draft(dcells[d], context, << >>, MaxDraft))
  /\ UNCHANGED <<bpe, encoded, batch, load, slots, next_id, saves>>

speculative_decoding_reset ==
  /\ spec # [draft |-> << >>, verified |-> << >>]
  /\ spec' = [draft |-> << >>, verified |-> << >>]
  /\ spoken' = Silent
  /\ UNCHANGED <<decodeVars, slots, next_id, saves>>

(***************************************************************************)
(* Checkpoints.                                                            *)
(***************************************************************************)

IdFor(s) == next_id

\* The first empty slot; the heap may have no room for the activations.
inference_preempt_save(p, heap) ==
  LET empty == {s \in DOMAIN slots : slots[s] = << >>}
      s     == Min(empty)
  IN /\ next_id < MaxSaves
     /\ p \notin LargeProgress /\ empty # {} /\ heap
     /\ slots' = [slots EXCEPT ![s] = [id |-> IdFor(s), saved |-> p]]
     /\ next_id' = next_id + 1
     /\ saves' = Append(saves, [id |-> IdFor(s), saved |-> p, deleted |-> FALSE])
     /\ UNCHANGED <<decodeVars, spec, spoken>>

Found(id) == {s \in DOMAIN slots : slots[s] # << >> /\ slots[s].id = id}

\* What inference_preempt_restore answers for an id into a buffer that has room
\* for the activations in fits; it changes nothing.
inference_preempt_restore(id, fits) ==
  IF Found(id) = {} THEN {} ELSE {slots[Min(Found(id))].saved} \cap fits

inference_preempt_delete(id) ==
  /\ Found(id) # {}
  /\ slots' = [slots EXCEPT ![Min(Found(id))] = << >>]
  /\ saves' = [i \in DOMAIN saves |-> IF saves[i].id = id THEN [saves[i] EXCEPT !.deleted = TRUE]
                                      ELSE saves[i]]
  /\ UNCHANGED <<decodeVars, spec, spoken, next_id>>

SpeculationNext ==
  \/ "speculation" \in load.uses
     /\ \/ \E d, t \in load.cells, p \in load.pieces : speculative_decode_step(d, t, p)
        \/ speculative_decoding_reset
  \/ "checkpoints" \in load.uses
     /\ \/ \E p \in Progress, heap \in BOOLEAN : inference_preempt_save(p, heap)
        \/ \E id \in 0 .. MaxSaves : inference_preempt_delete(id)

InferenceInit == cpu_ai_runtime_init /\ SpeculationInit

InferenceNext ==
  \/ DecodeNext /\ UNCHANGED speculationVars
  \/ SpeculationNext

(***************************************************************************)
(* Properties.                                                             *)
(***************************************************************************)

\* What the target alone says after a context and its own earlier tokens.
TargetSays(m, context, before) ==
  extract_token_id(KernelOutput(m, tokenizer_encode(m, Input(context, before))))

\* What speculative_decode_step outputs is a beginning of what the target
\* model alone would have said, whatever the draft model proposed and
\* wherever either cache filled up.
SpeculationIsTarget ==
  \A i \in DOMAIN spoken.out :
     spoken.out[i] = TargetSays(spoken.model, spoken.context, SubSeq(spoken.out, 1, i - 1))

\* A checkpoint id restores exactly what was saved under it, into every buffer
\* that has room for it, until it is deleted, and nothing afterwards, however
\* slots are reused.
CheckpointsKept ==
  \A i \in DOMAIN saves, fits \in SUBSET Progress :
     inference_preempt_restore(saves[i].id, fits) =
        IF saves[i].deleted THEN {} ELSE {saves[i].saved} \cap fits

\* What a cell keeps for later is what it said and what was saved.
InferenceStateKept == KvIsTranscript /\ CheckpointsKept
=============================================================================
