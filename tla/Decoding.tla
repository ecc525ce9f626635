------------------------------ MODULE Decoding ------------------------------
(***************************************************************************)
(* Decoding on the cells of the CPU AI runtime (cpu_ai_runtime.c): a piece *)
(* of text is turned into tokens by a byte table or by byte-pair encoding  *)
(* (bpe_tokenizer.c), the tokens are appended to the KV cache of the cell, *)
(* and the answer is written; and the batches of inference_batcher.c.      *)
(*                                                                         *)
(* The vocabulary and the rules of byte-pair encoding are global: the last *)
(* model bound serves every cell.  A model image is a record               *)
(*   [tokenizer, table, vocab, rules, key, stride]                         *)
(* and passes its validation (AiCell has the images that do not).  Tokens  *)
(* are numbers; ByteMod stands for 256 and a hex digit for its byte.       *)
(***************************************************************************)
EXTENDS Integers, Sequences, SequencesExt, FiniteSetsExt, Bitwise

CONSTANTS DecodeCells,
          DecodeModels, \* a sequence of images; a model is its index, 0 none
          Loads,        \* bounds: [cells, models, pieces, caps, kv, uses] of
                        \* one behaviour; caps are output capacities and kv
                        \* is the size of a KV cache in tokens
          MaxTokens,    \* CPU_AI_MAX_TOKENS
          BatchMax, BatchTokens, \* XAIOS_BATCH_MAX_REQUESTS, XAIOS_BATCH_MAX_TOKENS
          ByteMod,
          Junk          \* a token on the stack that nobody wrote

VARIABLES bpe,       \* g_bpe_vocab and g_bpe_rules
          dcells,    \* g_cells: bound model, KV cache; said, the pieces answered OK
          encoded,   \* the last text encoded by byte pairs: its cell and tokens
          batch,     \* the requests of a batch, with their states
          load       \* the bound this behaviour explores

decodeVars == <<bpe, dcells, encoded, batch, load>>

Unbound == [model |-> 0, kv |-> << >>, said |-> << >>]
NoText == [model |-> 0, text |-> << >>, tokens |-> << >>]

cpu_ai_runtime_init ==
  /\ bpe = [vocab |-> << >>, rules |-> << >>]
  /\ dcells = [c \in DecodeCells |-> Unbound]
  /\ encoded = NoText
  /\ batch = << >>
  /\ load \in Loads

(***************************************************************************)
(* Byte-pair encoding.                                                     *)
(***************************************************************************)

\* Insertion sort: among equal priorities the order of the file.
bpe_sort_rules(rules) ==
  LET Insert(sorted, r) ==
        LET n == Cardinality({i \in DOMAIN sorted : sorted[i].priority <= r.priority})
        IN InsertAt(sorted, n + 1, r)
  IN FoldLeft(Insert, << >>, rules)

ai_bpe_tokenizer_init(m) ==
  [vocab |-> DecodeModels[m].vocab, rules |-> bpe_sort_rules(DecodeModels[m].rules)]

ByPairs(m) == m # 0 /\ DecodeModels[m].tokenizer = "bpe"
ByTable(m) == m # 0 /\ DecodeModels[m].tokenizer = "byte"

\* A byte without an entry of its own stands for itself.
bpe_find_token(b) ==
  LET entries == {i \in DOMAIN bpe.vocab : bpe.vocab[i] = <<b>>}
  IN IF entries = {} THEN b ELSE Min(entries) - 1

\* The index of the rule that merges this pair, 0 when there is none.
bpe_find_rule(a, b) ==
  LET found == {k \in DOMAIN bpe.rules : bpe.rules[k].a = a /\ bpe.rules[k].b = b}
  IN IF found = {} THEN 0 ELSE Min(found)

RuleAt(tokens, i) == bpe_find_rule(tokens[i], tokens[i + 1])
Mergeable(tokens) == {i \in 1 .. Len(tokens) - 1 : RuleAt(tokens, i) # 0}
PriorityAt(tokens, i) == bpe.rules[RuleAt(tokens, i)].priority

\* Mutant: a later pair of the same priority is preferred.
BestMerge_Last(tokens) ==
  Max({i \in Mergeable(tokens) :
         \A j \in Mergeable(tokens) : PriorityAt(tokens, i) <= PriorityAt(tokens, j)})

\* The first pair of the lowest priority.
BestMerge(tokens) ==
  Min({i \in Mergeable(tokens) :
         \A j \in Mergeable(tokens) : PriorityAt(tokens, i) <= PriorityAt(tokens, j)})

RECURSIVE MergeAll(_)
MergeAll(tokens) ==
  IF Mergeable(tokens) = {} THEN tokens
  ELSE LET i == BestMerge(tokens)
       IN MergeAll(SubSeq(tokens, 1, i - 1) \o <<bpe.rules[RuleAt(tokens, i)].merged>>
                   \o SubSeq(tokens, i + 2, Len(tokens)))

ai_bpe_tokenize(text) == MergeAll([i \in DOMAIN text |-> bpe_find_token(text[i])])

\* A token outside the vocabulary is skipped.
ai_bpe_detokenize(tokens) ==
  LET Spell(t) == IF t < Len(bpe.vocab) THEN bpe.vocab[t + 1] ELSE << >>
  IN FlattenSeq([i \in DOMAIN tokens |-> Spell(tokens[i])])

(***************************************************************************)
(* Decoding a piece.                                                       *)
(***************************************************************************)

\* Byte-pair encoding writes its tokens as an array of 32-bit numbers over
\* an array of (token_id, source_byte) pairs, so only every second token is
\* read back as a token_id, and then what the stack held.
tokenizer_encode(m, piece) ==
  IF ByTable(m)
    THEN [i \in DOMAIN piece |-> DecodeModels[m].table[piece[i]]]
    ELSE LET flat == ai_bpe_tokenize(piece)
         IN [i \in DOMAIN flat |-> IF 2 * i - 1 <= Len(flat) THEN flat[2 * i - 1] ELSE Junk]

\* What deterministic_cpu_kernel writes: one byte for each token, in hex.
KernelOutput(m, tokens) ==
  LET Weight(i) == (DecodeModels[m].key + DecodeModels[m].stride * (i - 1)) % ByteMod
  IN [i \in DOMAIN tokens |-> IF tokens[i] = Junk THEN Junk
                              ELSE (tokens[i] % ByteMod) ^^ Weight(i)]

\* The history is kept for cells with a byte table.
Said(cell, piece) == IF ByTable(cell.model) THEN Append(cell.said, piece) ELSE << >>

KvHasRoom(cell, tokens) == Len(cell.kv) + Len(tokens) <= load.kv

kv_record_tokens(cell, tokens) == [cell EXCEPT !.kv = @ \o tokens]

\* Mutant: the tokens are recorded before the output is known to fit.
deterministic_cpu_kernel_RecordsFirst(cell, tokens, cap) ==
  LET ok == KvHasRoom(cell, tokens) /\ 2 * Len(tokens) + 1 <= cap
  IN [ok   |-> ok,
      out  |-> IF ok THEN KernelOutput(cell.model, tokens) ELSE << >>,
      cell |-> IF KvHasRoom(cell, tokens) THEN kv_record_tokens(cell, tokens) ELSE cell]

\* The output must have room for two digits a token and a zero, and the KV
\* cache for the tokens; then the tokens are recorded.
deterministic_cpu_kernel(cell, tokens, cap) ==
  LET ok == 2 * Len(tokens) + 1 <= cap /\ KvHasRoom(cell, tokens)
  IN [ok   |-> ok,
      out  |-> IF ok THEN KernelOutput(cell.model, tokens) ELSE << >>,
      cell |-> IF ok THEN kv_record_tokens(cell, tokens) ELSE cell]

\* cpu_ai_runtime_run_model for a piece to decode: the answer and the cell
\* after it.
run_model(cell, piece, cap) ==
  LET taken == cell.model # 0 /\ piece # << >> /\ Len(piece) <= MaxTokens
      Told(done) == [done EXCEPT !.cell.said = IF done.ok THEN Said(cell, piece) ELSE @]
  IN IF ~taken THEN [ok |-> FALSE, out |-> << >>, cell |-> cell]
     ELSE Told(deterministic_cpu_kernel(cell, tokenizer_encode(cell.model, piece), cap))

\* The cell is EMPTY; its KV cache starts at cursor 0.
cpu_ai_runtime_bind_model(c, m) ==
  /\ dcells[c].model = 0
  /\ dcells' = [dcells EXCEPT ![c] = [Unbound EXCEPT !.model = m]]
  /\ bpe' = IF ByPairs(m) THEN ai_bpe_tokenizer_init(m) ELSE bpe
  /\ encoded' = NoText
  /\ UNCHANGED <<batch, load>>

unbind_model(c) ==
  /\ dcells[c].model # 0
  /\ dcells' = [dcells EXCEPT ![c] = Unbound]
  /\ encoded' = NoText
  /\ UNCHANGED <<bpe, batch, load>>

decode_piece(c, piece, cap) ==
  /\ dcells' = [dcells EXCEPT ![c] = run_model(dcells[c], piece, cap).cell]
  /\ encoded' = IF ByPairs(dcells[c].model)
                  THEN [model |-> dcells[c].model, text |-> piece,
                        tokens |-> ai_bpe_tokenize(piece)]
                  ELSE NoText
  /\ UNCHANGED <<bpe, batch, load>>

(***************************************************************************)
(* Batches.                                                                *)
(***************************************************************************)

inference_batch_submit(piece, cap) ==
  /\ piece # << >>
  /\ Len(batch) < BatchMax
  /\ Len(FlattenSeq([i \in DOMAIN batch |-> batch[i].piece])) + Len(piece) <= BatchTokens
  /\ batch' = Append(batch, [piece |-> piece, cap |-> cap, state |-> "pending"])
  /\ encoded' = NoText
  /\ UNCHANGED <<bpe, dcells, load>>

\* Every request in turn, each on the cell its predecessors left; a failed
\* one does not stop the others.  The batch keeps its requests.
inference_batch_execute(c) ==
  /\ batch # << >>
  /\ LET Answered(served, r, done) ==
           [cell |-> done.cell,
            batch |-> Append(served, [r EXCEPT !.state = IF done.ok THEN "complete"
                                                         ELSE "error"])]
         Serve(acc, r) == Answered(acc.batch, r, run_model(acc.cell, r.piece, r.cap))
         Ends(acc) == /\ dcells' = [dcells EXCEPT ![c] = acc.cell]
                      /\ batch' = acc.batch
     IN Ends(FoldLeft(Serve, [cell |-> dcells[c], batch |-> << >>], batch))
  /\ encoded' = NoText
  /\ UNCHANGED <<bpe, load>>

inference_batch_reset ==
  /\ batch # << >>
  /\ batch' = << >>
  /\ encoded' = NoText
  /\ UNCHANGED <<bpe, dcells, load>>

DecodeNext ==
  \/ \E c \in load.cells, m \in load.models : cpu_ai_runtime_bind_model(c, m)
  \/ \E c \in load.cells : unbind_model(c)
  \/ "pieces" \in load.uses
     /\ \E c \in load.cells, p \in load.pieces, cap \in load.caps : decode_piece(c, p, cap)
  \/ "batches" \in load.uses
     /\ \/ \E p \in load.pieces, cap \in load.caps : inference_batch_submit(p, cap)
        \/ \E c \in load.cells : inference_batch_execute(c)
        \/ inference_batch_reset

(***************************************************************************)
(* Properties.                                                             *)
(***************************************************************************)

\* Reference: each rule in the order of priority replaces its pair from left
\* to right, wherever it occurs.
ByRules(text) ==
  LET Replace(tokens, r) ==
        LET Step(done, t) ==
              IF done # << >> /\ Last(done) = r.a /\ t = r.b
                THEN Append(Front(done), r.merged) ELSE Append(done, t)
        IN FoldLeft(Step, << >>, tokens)
  IN FoldLeft(Replace, [i \in DOMAIN text |-> bpe_find_token(text[i])], bpe.rules)

Entered(b) == \E i \in DOMAIN bpe.vocab : bpe.vocab[i] = <<b>>

\* A text is encoded into the tokens that the rules give when applied one after
\* the other: picking the best pair again after each merge (ai_bpe_tokenize)
\* loses nothing.  Merging keeps what the tokens spell, which is the text if the
\* vocabulary has all of its bytes.  A byte it does not have is read back as
\* whatever token has that number, or not at all (bpe_tokenizer.c:181-183).  The
\* vocabulary is the one loaded last, whichever model the cell is bound to.
TokensSpellText ==
  encoded # NoText =>
     LET text == encoded.text
         bytes == [i \in DOMAIN text |-> bpe_find_token(text[i])]
         spelt == ai_bpe_detokenize(encoded.tokens)
     IN /\ encoded.tokens = ByRules(text)
        /\ spelt = ai_bpe_detokenize(bytes)
        /\ (\A i \in DOMAIN text : Entered(text[i])) => spelt = text

\* The KV cache of a cell with a byte table holds the tokens of the pieces
\* that were answered OK, in order and nothing else: a piece refused for
\* its output or for the cache (deterministic_cpu_kernel), alone or in a
\* batch, leaves no token behind.
KvIsTranscript ==
  \A c \in DecodeCells :
     LET cell == dcells[c]
         text == FlattenSeq(cell.said)
     IN /\ Len(cell.kv) <= load.kv
        /\ ByTable(cell.model) =>
              cell.kv = [i \in DOMAIN text |-> DecodeModels[cell.model].table[text[i]]]
=============================================================================
