------------------------------ MODULE NgramIds ------------------------------
(***************************************************************************)
(* The n-grams a PLE layer looks up (ple_layer.py, model_state.py).  The   *)
(* tokens of a forward lie one after the other in a ragged batch; request  *)
(* r has positions starts[r] .. starts[r + 1] - 1.  The layer packs them   *)
(* into one row per request, puts the tokens before the chunk in front of  *)
(* the row, and takes for each token the Size tokens that end there, none  *)
(* from before an end-of-sequence token.  What follows, the mixing of an   *)
(* n-gram into table rows, is a function of it.                            *)
(***************************************************************************)
EXTENDS Integers, Sequences, FiniteSetsExt

CONSTANTS Size,   \* ngram_size
          Eos     \* eos_token_id

ASSUME NgramAssumption == Size \in Nat \ {0, 1}

ContextLen == Size - 1

-----------------------------------------------------------------------------
(* The ragged batch: searchsorted, clamp, scatter. *)

RowOf(starts, rows, p) ==
    Min({Cardinality({r \in 0 .. rows : starts[r] <= p}) - 1, rows - 1})

ColumnOf(starts, r, width, p) == Max({0, Min({p - starts[r], width - 1})})

\* Row r of the packed batch.  Of two tokens scattered to one place the later
\* one stays.
PackedRow(starts, rows, width, tokens, valid, pad, r) ==
    LET mine == {p \in 0 .. valid - 1 : RowOf(starts, rows, p) = r}
    IN  [i \in 1 .. width |->
           LET here == {p \in mine : ColumnOf(starts, r, width, p) = i - 1}
           IN  IF here = {} THEN pad ELSE tokens[Max(here)]]

-----------------------------------------------------------------------------
(* One request. *)

\* the tokens before position computed + 1 of what is known of a request
Context(text, computed) ==
    [i \in 1 .. ContextLen |->
       LET p == computed - ContextLen + i IN IF p >= 1 THEN text[p] ELSE Eos]

Joined(context, row) == context \o row

PreviousEos(joined, i) == Max({0} \cup {j \in 1 .. i - 1 : joined[j] = Eos})

PositionInSegment(joined, i) == i - PreviousEos(joined, i) - 1

Shifted(joined, i, shift) ==
    IF i - shift >= 1 /\ PositionInSegment(joined, i) >= shift
      THEN joined[i - shift]
      ELSE Eos

Gram(joined, i) ==
    [shift \in 0 .. Size - 1 |->
       IF shift = 0 THEN joined[i] ELSE Shifted(joined, i, shift)]

-----------------------------------------------------------------------------
(* What a forward computes for the token at position p of the batch. *)

\* The CPU worker packs rows as wide as the longest and no padding; the GPU
\* packs everything into its widest buffer.
PackWidth(offload, starts, rows, widest) ==
    IF offload THEN Max({1} \cup {starts[r + 1] - starts[r] : r \in 0 .. rows - 1})
               ELSE widest

ValidTokens_Padding(offload, starts, rows, count) == count
ValidTokens(offload, starts, rows, count) ==
    IF offload THEN Min({starts[rows], count}) ELSE count

GramAt(offload, starts, rows, tokens, count, widest, contexts, p) ==
    LET width == PackWidth(offload, starts, rows, widest)
        r == RowOf(starts, rows, p)
        packed == PackedRow(starts, rows, width, tokens,
                            ValidTokens(offload, starts, rows, count), Eos, r)
    IN  Gram(Joined(contexts[r], packed), ColumnOf(starts, r, width, p) + 1 + ContextLen)

(* The n-gram that ends at position p of a text, taken from all of it. *)
WholeGram(text, p) ==
    [shift \in 0 .. Size - 1 |->
       IF shift = 0 THEN text[p]
       ELSE IF p - shift >= 1 /\ \A j \in p - shift .. p - 1 : text[j] # Eos
              THEN text[p - shift]
              ELSE Eos]

=============================================================================
