----------------------------- MODULE ShortConv -----------------------------
(***************************************************************************)
(* The short causal convolution of a PLE layer and its cache               *)
(* (ple_layer.py): the output for a token needs the StateLen inputs before *)
(* it, which each request keeps in a row of conv_state.  After a forward   *)
(* with drafts the row also holds the inputs of drafts that are rejected   *)
(* later; the next one starts at the offset the number of accepted tokens  *)
(* gives.                                                                  *)
(*                                                                         *)
(* cache is one row of conv_state, a sequence; row says what the metadata  *)
(* say of a request: slot, initial (has_initial_states), accepted          *)
(* (num_accepted_tokens); inputs are the inputs of its tokens.             *)
(***************************************************************************)
EXTENDS Integers, Sequences, FiniteSetsExt

CONSTANTS StateLen,   \* conv_state_len
          Zero        \* an input of zeros

ASSUME ConvAssumption == StateLen \in Nat \ {0}

NullSlot == 0         \* NULL_BLOCK_ID

Zeros(n) == [i \in 1 .. n |-> Zero]
Valid(row) == row.slot # NullSlot

\* cache with its first entries replaced
Overlay_Cut(cache, new) == new
Overlay(cache, new) == new \o SubSeq(cache, Len(new) + 1, Len(cache))

\* the output of a token: the inputs its taps may read and its own
Outputs(history, count) == [i \in 1 .. count |-> SubSeq(history, i, i + StateLen)]

InitialState(row, cache) ==
    IF Valid(row) /\ row.initial THEN SubSeq(cache, 1, StateLen) ELSE Zeros(StateLen)

(* A request without drafts and with one token. *)
DecodeRow(row, cache, inputs) ==
    LET history == InitialState(row, cache) \o inputs
    IN  [outputs |-> Outputs(history, 1),
         cache |-> IF Valid(row)
                     THEN Overlay(cache, SubSeq(history, Len(history) - StateLen + 1, Len(history)))
                     ELSE cache]

(* A chunk of a prompt. *)
PrefillRow(row, cache, inputs) ==
    LET history == InitialState(row, cache) \o inputs
        count == Len(inputs)
    IN  [outputs |-> Outputs(history, count),
         cache |-> IF Valid(row) /\ count > 0
                     THEN Overlay(cache, SubSeq(history, count + 1, count + StateLen))
                     ELSE cache]

RollbackOffset_Late(row, width) ==
    IF Valid(row) THEN Min({row.accepted, width - 1}) ELSE 0
RollbackOffset(row, width) ==
    IF Valid(row) THEN Min({Max({row.accepted - 1, 0}), width - 1}) ELSE 0

(* A token and its drafts; width is num_speculative_tokens + 1. *)
SpecRow(row, cache, inputs, width) ==
    LET offset == RollbackOffset(row, width)
        count == Len(inputs)
        state == IF Valid(row) THEN SubSeq(cache, offset + 1, offset + StateLen)
                               ELSE Zeros(StateLen)
        history == state \o inputs \o Zeros(width - count)
        candidate == SubSeq(history, 2, StateLen + width)
    IN  [outputs |-> Outputs(history, count),
         cache |-> IF Valid(row)
                     THEN Overlay(cache, SubSeq(candidate, 1, StateLen + count - 1))
                     ELSE cache]

(* Which of the three a request takes is said by the metadata. *)
RowResult(row, cache, inputs, width) ==
    CASE row.kind = "spec"    -> SpecRow(row, cache, inputs, width)
      [] row.kind = "decode"  -> DecodeRow(row, cache, inputs)
      [] row.kind = "prefill" -> PrefillRow(row, cache, inputs)

(* The rows of a forward are written back at once.  Padding shares the     *)
(* null slot, and writes there what it read.                               *)
WriteBack(conv, rows, results) ==
    [slot \in DOMAIN conv |->
       LET here == {i \in DOMAIN rows : rows[i].slot = slot}
       IN  IF here = {} THEN conv[slot] ELSE results[Max(here)].cache]

=============================================================================
