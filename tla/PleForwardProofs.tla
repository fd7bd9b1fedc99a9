-------------------------- MODULE PleForwardProofs --------------------------
(***************************************************************************)
(* First the parts a forward of the PLE layers is made of, for every value *)
(* of their parameters.  The n-grams: what the layer takes from its packed *)
(* rows is what stands in the text, for every size, text, chunk and batch. *)
(* The short convolution: for every length of its state, number of drafts  *)
(* and chunk, what a forward leaves in a row of conv_state is the history  *)
(* of the request, wherever the drafts are cut.  The choice of CUDA        *)
(* graphs, for every configuration and batch.                              *)
(*                                                                         *)
(* Then the forwards of PleForward, any number of them: CaptureInv follows *)
(* the graphs, RequestInv the requests, ConvInv the cache; from them the   *)
(* invariants of PleForward.                                               *)
(***************************************************************************)
EXTENDS PleForward, FiniteSetTheorems, SequenceTheorems, WellFoundedInduction, TLAPS

-----------------------------------------------------------------------------
(* The least and the greatest of integers. *)

LEMMA MaxOfTwo ==
  ASSUME NEW x \in Int, NEW y \in Int
  PROVE  Max({x, y}) = IF x >= y THEN x ELSE y
<1>1. CASE x >= y
  <2>1. x \in {x, y} /\ \A z \in {x, y} : x >= z
    BY <1>1
  <2> QED BY <2>1, <1>1 DEF Max
<1>2. CASE ~(x >= y)
  <2>1. y \in {x, y} /\ \A z \in {x, y} : y >= z
    BY <1>2
  <2> QED BY <2>1, <1>2 DEF Max
<1> QED BY <1>1, <1>2

LEMMA MinOfTwo ==
  ASSUME NEW x \in Int, NEW y \in Int
  PROVE  Min({x, y}) = IF x <= y THEN x ELSE y
<1>1. CASE x <= y
  <2>1. x \in {x, y} /\ \A z \in {x, y} : x <= z
    BY <1>1
  <2> QED BY <2>1, <1>1 DEF Min
<1>2. CASE ~(x <= y)
  <2>1. y \in {x, y} /\ \A z \in {x, y} : y <= z
    BY <1>2
  <2> QED BY <2>1, <1>2 DEF Min
<1> QED BY <1>1, <1>2

LEMMA MinFact ==
  ASSUME NEW S \in SUBSET Nat, S # {}
  PROVE  Min(S) \in S /\ \A x \in S : Min(S) <= x
<1> DEFINE R == OpToRel(<, Nat)
<1>1. IsWellFoundedOn(R, Nat)
  BY NatLessThanWellFounded
<1>2. \A x, y \in Nat : <<y, x>> \in R <=> y < x
  BY DEF OpToRel
<1> HIDE DEF R
<1>3. \E x \in S : \A y \in S : ~ (<<y, x>> \in R)
  BY <1>1, WFMin
<1>4. PICK m \in S : \A y \in S : ~ (<<y, m>> \in R)
  BY <1>3
<1>5. \A y \in S : ~ (y < m)
  BY <1>2, <1>4
<1>6. \A y \in S : m <= y
  BY <1>5
<1>7. \E x \in S : \A y \in S : x <= y
  BY <1>6
<1> QED
  BY <1>7 DEF Min

LEMMA MaxFact ==
  ASSUME NEW n \in Nat, NEW S \in SUBSET (0 .. n), S # {}
  PROVE  Max(S) \in S /\ \A x \in S : Max(S) >= x
<1> DEFINE R == {n - x : x \in S}
<1>1. R \in SUBSET Nat /\ R # {}
  <2>1. \A x \in S : x \in 0 .. n
    OBVIOUS
  <2>2. \A x \in S : n - x \in Nat
    BY <2>1
  <2>3. \A z \in R : z \in Nat
    BY <2>2
  <2>4. \E z : z \in R
    OBVIOUS
  <2> QED BY <2>3, <2>4
<1>2. PICK m \in R : \A y \in R : m <= y
  BY <1>1, MinFact
<1>3. PICK x \in S : m = n - x
  BY <1>2
<1>4. \A y \in S : x >= y
  <2> TAKE y \in S
  <2>1. n - x <= n - y
    BY <1>2, <1>3
  <2> QED BY <2>1
<1>5. \E z \in S : \A y \in S : z >= y
  BY <1>4
<1> QED BY <1>5 DEF Max

USE NgramAssumption, ConvAssumption

-----------------------------------------------------------------------------
(* One row. *)

LEMMA ContextType ==
  ASSUME NEW T, Eos \in T, NEW text \in Seq(T), NEW computed \in 0 .. Len(text)
  PROVE  /\ Context(text, computed) \in Seq(T)
         /\ Len(Context(text, computed)) = ContextLen
<1> DEFINE at(i) == LET p == computed - ContextLen + i IN IF p >= 1 THEN text[p] ELSE Eos
<1>1. ContextLen \in Nat
  BY DEF ContextLen
<1>2. ASSUME NEW i \in 1 .. ContextLen
      PROVE  at(i) \in T
  <2>1. computed - ContextLen + i <= Len(text)
    BY <1>1
  <2> QED BY <1>1, <2>1
<1>3. Context(text, computed) = [i \in 1 .. ContextLen |-> at(i)]
  BY DEF Context
<1> HIDE DEF at
<1>4. Context(text, computed) \in [1 .. ContextLen -> T]
  BY <1>2, <1>3
<1> QED BY <1>1, <1>4

(* The joined row shows the text around the chunk, and end-of-sequence     *)
(* tokens before its start.                                                *)
Around(T, joined, text, computed, row) ==
  /\ joined \in Seq(T)
  /\ Len(joined) = ContextLen + Len(row)
  /\ \A k \in 1 .. ContextLen :
       joined[k] = IF computed - ContextLen + k >= 1
                     THEN text[computed - ContextLen + k] ELSE Eos
  /\ \A k \in 1 .. Len(row) : joined[ContextLen + k] = row[k]

LEMMA JoinedAt ==
  ASSUME NEW T, Eos \in T, NEW text \in Seq(T), NEW computed \in 0 .. Len(text),
         NEW row \in Seq(T), NEW joined, joined = Joined(Context(text, computed), row)
  PROVE  Around(T, joined, text, computed, row)
<1> DEFINE context == Context(text, computed)
<1>1. context \in Seq(T) /\ Len(context) = ContextLen
  BY ContextType
<1>2. ContextLen \in Nat
  BY DEF ContextLen
<1>3. \A k \in 1 .. ContextLen :
        context[k] = IF computed - ContextLen + k >= 1
                       THEN text[computed - ContextLen + k] ELSE Eos
  BY DEF Context
<1> HIDE DEF context
<1>4. /\ context \o row \in Seq(T)
      /\ Len(context \o row) = ContextLen + Len(row)
      /\ \A k \in 1 .. ContextLen : (context \o row)[k] = context[k]
      /\ \A k \in 1 .. Len(row) : (context \o row)[ContextLen + k] = row[k]
  BY <1>1, <1>2
<1> QED BY <1>3, <1>4 DEF Joined, context, Around

(* The position in the segment says whether an end-of-sequence token lies  *)
(* in between.                                                             *)
LEMMA ShiftedAt ==
  ASSUME NEW T, NEW joined \in Seq(T), NEW i \in 1 .. Len(joined), NEW shift \in Nat \ {0},
         i - shift >= 1
  PROVE  Shifted(joined, i, shift) =
           IF \A j \in i - shift .. i - 1 : joined[j] # Eos THEN joined[i - shift] ELSE Eos
<1> DEFINE S == {0} \cup {j \in 1 .. i - 1 : joined[j] = Eos}
           P == PreviousEos(joined, i)
<1>1. i \in Nat /\ S \in SUBSET (0 .. i) /\ S # {}
  OBVIOUS
<1>2. P \in S /\ \A x \in S : P >= x
  <2>1. P = Max(S)
    BY DEF PreviousEos
  <2> HIDE DEF S, P
  <2> QED BY <1>1, <2>1, MaxFact
<1>3. P \in 0 .. i - 1
  BY <1>2
<1>4. PositionInSegment(joined, i) >= shift <=> P < i - shift
  <2>1. PositionInSegment(joined, i) = i - P - 1
    BY DEF PositionInSegment
  <2> QED BY <1>3, <2>1
<1>5. CASE \A j \in i - shift .. i - 1 : joined[j] # Eos
  <2>1. P < i - shift
    <3>1. CASE P = 0
      BY <3>1
    <3>2. CASE P \in 1 .. i - 1 /\ joined[P] = Eos
      BY <1>5, <3>2
    <3> QED BY <1>2, <3>1, <3>2
  <2> QED BY <1>4, <1>5, <2>1 DEF Shifted
<1>6. CASE \E j \in i - shift .. i - 1 : joined[j] = Eos
  <2>1. PICK j \in i - shift .. i - 1 : joined[j] = Eos
    BY <1>6
  <2>2. j \in S
    BY <2>1
  <2>3. ~ (P < i - shift)
    <3>1. P >= j
      BY <1>2, <2>2
    <3> QED BY <1>3, <3>1
  <2> QED BY <1>4, <1>6, <2>3 DEF Shifted
<1> QED BY <1>5, <1>6

(* The first i entries of a row are the tokens after the computed ones.    *)
Shows(row, i, text, computed) ==
  /\ computed + i <= Len(text)
  /\ \A k \in 1 .. i : row[k] = text[computed + k]

(* Whatever was computed before, the tokens of a chunk get the n-grams     *)
(* they have in the whole text: _prepare_ngram_context and forward_impl    *)
(* cut a text anywhere.                                                    *)
THEOREM ChunksLoseNothing ==
  ASSUME NEW T, Eos \in T, NEW text \in Seq(T), NEW computed \in 0 .. Len(text),
         NEW row \in Seq(T), NEW i \in 1 .. Len(row), Shows(row, i, text, computed)
  PROVE  Gram(Joined(Context(text, computed), row), i + ContextLen)
           = WholeGram(text, computed + i)
<1>a. PICK joined : joined = Joined(Context(text, computed), row)
  OBVIOUS
<1>1. ContextLen \in Nat /\ Size = ContextLen + 1
  BY DEF ContextLen
<1>b. Around(T, joined, text, computed, row)
  BY <1>a, JoinedAt
<1>2. /\ joined \in Seq(T)
      /\ Len(joined) = ContextLen + Len(row)
      /\ \A k \in 1 .. ContextLen :
           joined[k] = IF computed - ContextLen + k >= 1
                         THEN text[computed - ContextLen + k] ELSE Eos
      /\ \A k \in 1 .. Len(row) : joined[ContextLen + k] = row[k]
  BY <1>b DEF Around
<1> DEFINE e == i + ContextLen
           p == computed + i
<1>3. ASSUME NEW k \in 1 .. e
      PROVE  joined[k] = IF computed - ContextLen + k >= 1
                           THEN text[computed - ContextLen + k] ELSE Eos
  <2>1. CASE k <= ContextLen
    BY <1>1, <1>2, <2>1
  <2>2. CASE k > ContextLen
    <3>1. k - ContextLen \in 1 .. i /\ k = ContextLen + (k - ContextLen)
      BY <1>1, <2>2
    <3>2. joined[k] = row[k - ContextLen]
      <4>1. k - ContextLen \in 1 .. Len(row)
        BY <3>1
      <4> QED BY <1>2, <3>1, <4>1
    <3>3. row[k - ContextLen] = text[computed + (k - ContextLen)]
      BY <3>1 DEF Shows
    <3>4. computed + (k - ContextLen) = computed - ContextLen + k
      BY <1>1
    <3> QED BY <1>1, <3>1, <3>2, <3>3, <3>4
  <2> QED BY <1>1, <2>1, <2>2
<1>4. joined[e] = text[p]
  <2>1. e \in 1 .. e
    BY <1>1
  <2>2. computed - ContextLen + e = p /\ p >= 1
    BY <1>1
  <2> QED BY <1>3, <2>1, <2>2
<1>5. ASSUME NEW shift \in 1 .. Size - 1
      PROVE  Shifted(joined, e, shift) =
               IF p - shift >= 1 /\ \A j \in p - shift .. p - 1 : text[j] # Eos
                 THEN text[p - shift] ELSE Eos
  <2>1. e \in 1 .. Len(joined) /\ shift \in Nat \ {0} /\ e - shift >= 1
    <3>1. Len(joined) = ContextLen + Len(row) /\ Len(row) \in Nat
      BY <1>2
    <3>2. e \in 1 .. Len(joined)
      BY <1>1, <3>1
    <3>3. shift \in Nat \ {0} /\ shift <= ContextLen
      BY <1>1
    <3>4. e - shift >= 1
      BY <1>1, <3>3
    <3> QED BY <3>2, <3>3, <3>4
  <2>2. Shifted(joined, e, shift) =
          IF \A j \in e - shift .. e - 1 : joined[j] # Eos THEN joined[e - shift] ELSE Eos
    BY <1>2, <2>1, ShiftedAt
  <2>3. CASE p - shift >= 1
    <3>1. \A j \in p - shift .. p - 1 :
            /\ j - computed + ContextLen \in e - shift .. e - 1
            /\ joined[j - computed + ContextLen] = text[j]
      <4> TAKE j \in p - shift .. p - 1
      <4>1. j - computed + ContextLen \in 1 .. e
        BY <1>1, <2>1, <2>3
      <4>2. computed - ContextLen + (j - computed + ContextLen) = j
        BY <1>1, <2>3
      <4>3. joined[j - computed + ContextLen] = text[j]
        BY <1>3, <2>3, <4>1, <4>2
      <4>4. j - computed + ContextLen \in e - shift .. e - 1
        BY <1>1, <2>1, <2>3
      <4> QED BY <4>3, <4>4
    <3>2. \A k \in e - shift .. e - 1 :
            /\ k + computed - ContextLen \in p - shift .. p - 1
            /\ joined[k] = text[k + computed - ContextLen]
      <4> TAKE k \in e - shift .. e - 1
      <4>1. k \in 1 .. e
        BY <1>1, <2>1
      <4>2. computed - ContextLen + k >= 1
        BY <1>1, <2>1, <2>3
      <4>3. computed - ContextLen + k = k + computed - ContextLen
        BY <1>1, <4>1
      <4>4. joined[k] = text[k + computed - ContextLen]
        BY <1>3, <4>1, <4>2, <4>3
      <4>5. k + computed - ContextLen \in p - shift .. p - 1
        BY <1>1, <2>3, <4>1
      <4> QED BY <4>4, <4>5
    <3>3. (\A j \in e - shift .. e - 1 : joined[j] # Eos)
            <=> \A j \in p - shift .. p - 1 : text[j] # Eos
      BY <3>1, <3>2
    <3>4. joined[e - shift] = text[p - shift]
      <4>1. e - shift \in 1 .. e
        BY <1>1, <2>1
      <4>2. computed - ContextLen + (e - shift) = p - shift
        BY <1>1
      <4> QED BY <1>3, <2>3, <4>1, <4>2
    <3> QED BY <2>2, <2>3, <3>3, <3>4
  <2>4. CASE p - shift < 1
    <3>1. e - shift \in 1 .. e /\ computed - ContextLen + (e - shift) < 1
      BY <1>1, <2>1, <2>4
    <3>2. joined[e - shift] = Eos
      BY <1>1, <1>3, <3>1
    <3>3. Shifted(joined, e, shift) = Eos
      BY <2>2, <3>2
    <3> QED BY <2>4, <3>3
  <2> QED BY <2>3, <2>4
<1>6. \A shift \in 0 .. Size - 1 :
        (IF shift = 0 THEN joined[e] ELSE Shifted(joined, e, shift)) =
          (IF shift = 0 THEN text[p]
           ELSE IF p - shift >= 1 /\ \A j \in p - shift .. p - 1 : text[j] # Eos
                  THEN text[p - shift] ELSE Eos)
  BY <1>4, <1>5
<1> HIDE DEF p, e
<1>7. Gram(joined, e) = WholeGram(text, p)
  BY <1>6 DEF Gram, WholeGram
<1> QED BY <1>a, <1>7 DEF p, e

-----------------------------------------------------------------------------
(* The ragged batch. *)

(* Positions 0 .. starts[rows] - 1 are the rows', one row after the other. *)
Ragged(starts, rows) ==
  /\ starts \in [0 .. rows -> Nat]
  /\ starts[0] = 0
  /\ \A a, b \in 0 .. rows : a <= b => starts[a] <= starts[b]

LEMMA RowBelow ==
  ASSUME NEW rows \in Nat \ {0}, NEW starts, Ragged(starts, rows),
         NEW p \in Nat, NEW b \in 1 .. rows, p < starts[b]
  PROVE  RowOf(starts, rows, p) < b
<1> DEFINE S == {r \in 0 .. rows : starts[r] <= p}
<1>1. S \in SUBSET (0 .. b - 1)
  <2>1. ASSUME NEW r \in S
        PROVE  r \in 0 .. b - 1
    <3>1. CASE r >= b
      <4>1. starts[b] <= starts[r] /\ starts[r] \in Nat /\ starts[b] \in Nat
        BY <3>1 DEF Ragged
      <4> QED BY <4>1
    <3> QED BY <3>1
  <2> QED BY <2>1
<1>2. IsFiniteSet(0 .. b - 1) /\ Cardinality(0 .. b - 1) = b
  <2>1. 0 \in Int /\ b - 1 \in Int /\ ~ (0 > b - 1) /\ b - 1 - 0 + 1 = b
    OBVIOUS
  <2> QED BY <2>1, FS_Interval
<1>3. IsFiniteSet(S) /\ Cardinality(S) <= b /\ Cardinality(S) \in Nat
  BY <1>1, <1>2, FS_Subset, FS_CardinalityType
<1> HIDE DEF S
<1>4. Min({Cardinality(S) - 1, rows - 1}) < b
  BY <1>3, MinOfTwo
<1> QED BY <1>4 DEF RowOf, S

LEMMA RowAbove ==
  ASSUME NEW rows \in Nat \ {0}, NEW starts, Ragged(starts, rows),
         NEW p \in Nat, NEW a \in 0 .. rows - 1, starts[a] <= p
  PROVE  RowOf(starts, rows, p) >= a /\ RowOf(starts, rows, p) \in Int
<1> DEFINE S == {r \in 0 .. rows : starts[r] <= p}
<1>1. 0 .. a \in SUBSET S
  <2>1. ASSUME NEW r \in 0 .. a
        PROVE  r \in S
    <3>1. starts[r] <= starts[a] /\ starts[r] \in Nat /\ starts[a] \in Nat
      BY DEF Ragged
    <3> QED BY <3>1
  <2> QED BY <2>1
<1>2. IsFiniteSet(0 .. rows)
  BY FS_Interval
<1>3. IsFiniteSet(S) /\ Cardinality(S) \in Nat
  BY <1>2, FS_Subset, FS_CardinalityType, S \in SUBSET (0 .. rows)
<1>4. Cardinality(0 .. a) = a + 1
  <2>1. 0 \in Int /\ a \in Int /\ ~ (0 > a) /\ a - 0 + 1 = a + 1
    OBVIOUS
  <2> QED BY <2>1, FS_Interval
<1>5. Cardinality(S) >= a + 1
  BY <1>1, <1>3, <1>4, FS_Subset
<1> HIDE DEF S
<1>6. /\ Min({Cardinality(S) - 1, rows - 1}) >= a
      /\ Min({Cardinality(S) - 1, rows - 1}) \in Int
  BY <1>3, <1>5, MinOfTwo
<1> QED BY <1>6 DEF RowOf, S

LEMMA RowIsOwn ==
  ASSUME NEW rows \in Nat \ {0}, NEW starts, Ragged(starts, rows),
         NEW r \in 0 .. rows - 1, NEW p \in starts[r] .. starts[r + 1] - 1
  PROVE  RowOf(starts, rows, p) = r
<1>1. starts[r] \in Nat /\ starts[r + 1] \in Nat
  BY DEF Ragged
<1>2. p \in Nat /\ starts[r] <= p /\ p < starts[r + 1] /\ r + 1 \in 1 .. rows
  BY <1>1
<1>3. RowOf(starts, rows, p) < r + 1
  BY <1>2, RowBelow
<1>4. RowOf(starts, rows, p) >= r /\ RowOf(starts, rows, p) \in Int
  BY <1>2, RowAbove
<1> QED BY <1>3, <1>4

(* How wide the packed rows are and which positions are packed: as wide as *)
(* the chunks, and either no padding or no padding that is cut off.        *)
Packs(starts, rows, width, valid) ==
  /\ width \in Nat \ {0}
  /\ valid \in Nat
  /\ valid >= starts[rows]
  /\ \A r \in 0 .. rows - 1 : starts[r + 1] - starts[r] <= width
  /\ valid = starts[rows] \/ valid <= width

(* No other token lands where a real token is packed. *)
LEMMA OwnPlace ==
  ASSUME NEW rows \in Nat \ {0}, NEW starts, Ragged(starts, rows),
         NEW width, NEW valid, Packs(starts, rows, width, valid),
         NEW r \in 0 .. rows - 1, NEW p \in starts[r] .. starts[r + 1] - 1
  PROVE  {q \in {q \in 0 .. valid - 1 : RowOf(starts, rows, q) = r} :
            ColumnOf(starts, r, width, q) = p - starts[r]} = {p}
<1>1. starts[r] \in Nat /\ starts[r + 1] \in Nat /\ starts[rows] \in Nat
      /\ starts[r + 1] <= starts[rows]
  BY DEF Ragged
<1>2. width \in Nat \ {0} /\ valid \in Nat /\ starts[r + 1] - starts[r] <= width
  BY DEF Packs
<1>3. p \in 0 .. valid - 1 /\ RowOf(starts, rows, p) = r
  BY <1>1, <1>2, RowIsOwn DEF Packs
<1>4. ASSUME NEW q \in Nat
      PROVE  ColumnOf(starts, r, width, q) =
               IF q < starts[r] THEN 0
               ELSE IF q - starts[r] <= width - 1 THEN q - starts[r] ELSE width - 1
  <2>1. q - starts[r] \in Int /\ width - 1 \in Int /\ width - 1 >= 0
    BY <1>1, <1>2
  <2>2. Min({q - starts[r], width - 1}) =
          IF q - starts[r] <= width - 1 THEN q - starts[r] ELSE width - 1
    BY <2>1, MinOfTwo
  <2>3. PICK m \in Int : m = Min({q - starts[r], width - 1})
    BY <2>1, <2>2
  <2>4. Max({0, m}) = IF 0 >= m THEN 0 ELSE m
    BY MaxOfTwo
  <2> QED BY <1>1, <1>2, <2>2, <2>3, <2>4 DEF ColumnOf
<1>5. ColumnOf(starts, r, width, p) = p - starts[r]
  BY <1>1, <1>2, <1>3, <1>4
<1>6. ASSUME NEW q \in 0 .. valid - 1, RowOf(starts, rows, q) = r,
             ColumnOf(starts, r, width, q) = p - starts[r]
      PROVE  q = p
  <2>1. q >= starts[r]
    <3>1. CASE r = 0
      BY <3>1 DEF Ragged
    <3>2. CASE r # 0 /\ q < starts[r]
      <4>1. r \in 1 .. rows /\ q \in Nat
        BY <3>2
      <4>2. RowOf(starts, rows, q) < r
        BY <3>2, <4>1, RowBelow
      <4> QED BY <1>6, <4>2
    <3> QED BY <1>1, <3>1, <3>2
  <2>2. CASE q < starts[r + 1]
    BY <1>1, <1>2, <1>4, <1>6, <2>1, <2>2
  <2>3. CASE q >= starts[r + 1] /\ r + 1 \in 0 .. rows - 1
    <3>1. RowOf(starts, rows, q) >= r + 1
      BY <2>3, RowAbove
    <3> QED BY <1>6, <3>1
  <2>4. CASE q >= starts[r + 1] /\ r + 1 = rows
    <3>1. valid <= width
      BY <1>1, <1>2, <2>4 DEF Packs
    <3>2. ColumnOf(starts, r, width, q) = q - starts[r]
      BY <1>1, <1>2, <1>4, <2>1, <3>1
    <3> QED BY <1>1, <1>6, <2>4, <3>2
  <2> QED BY <1>1, <2>2, <2>3, <2>4
<1> QED BY <1>3, <1>5, <1>6

(* Both ways of packing do: the worker's, which takes no padding, and the  *)
(* device's, whose rows are as wide as the widest batch.                   *)
LEMMA PacksEither ==
  ASSUME NEW rows \in Nat \ {0}, NEW starts, Ragged(starts, rows),
         NEW offload \in BOOLEAN, NEW count \in Nat, NEW widest \in Nat \ {0},
         starts[rows] <= count, count <= widest
  PROVE  Packs(starts, rows, PackWidth(offload, starts, rows, widest),
               ValidTokens(offload, starts, rows, count))
<1>1. starts[rows] \in Nat
  BY DEF Ragged
<1>2. \A r \in 0 .. rows - 1 :
        /\ starts[r] \in Nat /\ starts[r + 1] \in Nat
        /\ starts[r] <= starts[r + 1] /\ starts[r + 1] <= starts[rows]
  BY DEF Ragged
<1>3. CASE ~ offload
  <2>1. \A r \in 0 .. rows - 1 : starts[r + 1] - starts[r] <= widest
    BY <1>1, <1>2
  <2> QED BY <1>1, <1>3, <2>1 DEF Packs, PackWidth, ValidTokens
<1>4. CASE offload
  <2> DEFINE S == {1} \cup {starts[r + 1] - starts[r] : r \in 0 .. rows - 1}
             n == starts[rows] + 1
  <2>1. n \in Nat /\ S # {} /\ 1 \in S /\ \A r \in 0 .. rows - 1 : starts[r + 1] - starts[r] \in S
    BY <1>1
  <2>2. S \in SUBSET (0 .. n)
    <3>1. \A r \in 0 .. rows - 1 : starts[r + 1] - starts[r] \in 0 .. n
      BY <1>1, <1>2
    <3>2. 1 \in 0 .. n
      BY <1>1
    <3>3. \A x \in S : x \in 0 .. n
      BY <3>1, <3>2
    <3> QED BY <3>3
  <2> HIDE DEF S
  <2>3. Max(S) \in S /\ \A x \in S : Max(S) >= x
    BY <2>1, <2>2, MaxFact
  <2>4. Max(S) \in Nat /\ Max(S) >= 1
    <3>1. Max(S) \in 0 .. n
      BY <2>2, <2>3
    <3>2. Max(S) >= 1
      BY <2>1, <2>3
    <3> HIDE DEF n
    <3> QED BY <2>1, <3>1, <3>2
  <2>5. \A r \in 0 .. rows - 1 : starts[r + 1] - starts[r] <= Max(S)
    BY <1>2, <2>1, <2>3, <2>4
  <2>6. PackWidth(offload, starts, rows, widest) = Max(S)
    BY <1>4 DEF PackWidth, S
  <2>7. ValidTokens(offload, starts, rows, count) = starts[rows]
    BY <1>1, <1>4, MinOfTwo DEF ValidTokens
  <2> QED BY <1>1, <2>4, <2>5, <2>6, <2>7 DEF Packs
<1> QED BY <1>3, <1>4

(* A packed row starts with the tokens of its request.                     *)
LEMMA PackedRowIs ==
  ASSUME NEW T, Eos \in T,
         NEW rows \in Nat \ {0}, NEW starts, Ragged(starts, rows),
         NEW width, NEW valid, Packs(starts, rows, width, valid),
         NEW count \in Nat, valid <= count, NEW tokens \in [0 .. count - 1 -> T],
         NEW r \in 0 .. rows - 1,
         NEW row, row = PackedRow(starts, rows, width, tokens, valid, Eos, r)
  PROVE  /\ row \in Seq(T)
         /\ Len(row) = width
         /\ \A p \in starts[r] .. starts[r + 1] - 1 : row[p - starts[r] + 1] = tokens[p]
<1>1. /\ width \in Nat \ {0} /\ valid \in Nat /\ valid >= starts[rows]
      /\ starts[r + 1] - starts[r] <= width
  BY DEF Packs
<1>2. starts[r] \in Nat /\ starts[r + 1] \in Nat
  BY DEF Ragged
<1> DEFINE places(i) == {q \in {q \in 0 .. valid - 1 : RowOf(starts, rows, q) = r} :
                           ColumnOf(starts, r, width, q) = i - 1}
           entry(i) == IF places(i) = {} THEN Eos ELSE tokens[Max(places(i))]
<1>3. row = [i \in 1 .. width |-> entry(i)]
  BY DEF PackedRow
<1>4. ASSUME NEW i \in 1 .. width
      PROVE  entry(i) \in T
  <2>1. CASE places(i) # {}
    <3>1. places(i) \in SUBSET (0 .. count) /\ places(i) \in SUBSET (0 .. count - 1)
      BY <1>1
    <3> HIDE DEF places
    <3>2. Max(places(i)) \in places(i)
      BY <2>1, <3>1, MaxFact
    <3> QED BY <2>1, <3>1, <3>2
  <2> QED BY <2>1
<1>5. ASSUME NEW p \in starts[r] .. starts[r + 1] - 1
      PROVE  p - starts[r] + 1 \in 1 .. width /\ entry(p - starts[r] + 1) = tokens[p]
  <2>1. p \in Int /\ p - starts[r] + 1 \in 1 .. width
    BY SMTT(30), <1>1, <1>2
  <2>2. places(p - starts[r] + 1) = {p}
    <3>1. {q \in {q \in 0 .. valid - 1 : RowOf(starts, rows, q) = r} :
             ColumnOf(starts, r, width, q) = p - starts[r]} = {p}
      BY OwnPlace
    <3>2. (p - starts[r] + 1) - 1 = p - starts[r]
      BY <1>2, <2>1
    <3> QED BY <3>1, <3>2
  <2>3. Max({p}) = p
    <3>1. Max({p, p}) = p
      BY <2>1, MaxOfTwo
    <3> QED BY <3>1
  <2> HIDE DEF places
  <2> QED BY <2>1, <2>2, <2>3
<1> HIDE DEF entry
<1>6. row \in [1 .. width -> T]
  BY <1>3, <1>4
<1> QED BY <1>1, <1>3, <1>5, <1>6

(* Token p of a batch is one of row r, whose text was computed so far; the *)
(* batch has its tokens, and the tokens before them as context.            *)
InBatch(T, rows, starts, offload, count, widest, tokens, contexts, r, p, text, computed) ==
  /\ Eos \in T /\ rows \in Nat \ {0} /\ Ragged(starts, rows)
  /\ offload \in BOOLEAN /\ count \in Nat /\ widest \in Nat \ {0}
  /\ starts[rows] <= count /\ count <= widest
  /\ tokens \in [0 .. count - 1 -> T]
  /\ r \in 0 .. rows - 1 /\ p \in starts[r] .. starts[r + 1] - 1
  /\ text \in Seq(T) /\ computed \in 0 .. Len(text)
  /\ contexts[r] = Context(text, computed)
  /\ computed + (p - starts[r] + 1) <= Len(text)
  /\ \A q \in starts[r] .. p : tokens[q] = text[computed + (q - starts[r] + 1)]

(* Every real token of a batch gets the n-gram it has in its request's     *)
(* text, whatever its neighbours, the empty rows and the padding are       *)
(* (forward_impl): the invariant GramsAreHistory for batches of any size.  *)
THEOREM BatchKeepsTexts ==
  ASSUME NEW T, NEW rows, NEW starts, NEW offload, NEW count, NEW widest, NEW tokens,
         NEW contexts, NEW r, NEW p, NEW text, NEW computed,
         InBatch(T, rows, starts, offload, count, widest, tokens, contexts, r, p, text, computed)
  PROVE  GramAt(offload, starts, rows, tokens, count, widest, contexts, p)
           = WholeGram(text, computed + (p - starts[r] + 1))
<1>1. /\ Eos \in T /\ rows \in Nat \ {0} /\ Ragged(starts, rows)
      /\ offload \in BOOLEAN /\ count \in Nat /\ widest \in Nat \ {0}
      /\ starts[rows] <= count /\ count <= widest
      /\ tokens \in [0 .. count - 1 -> T]
      /\ r \in 0 .. rows - 1 /\ p \in starts[r] .. starts[r + 1] - 1
      /\ text \in Seq(T) /\ computed \in 0 .. Len(text)
      /\ contexts[r] = Context(text, computed)
      /\ computed + (p - starts[r] + 1) <= Len(text)
      /\ \A q \in starts[r] .. p : tokens[q] = text[computed + (q - starts[r] + 1)]
  BY DEF InBatch
<1> USE <1>1
<1>2. PICK width, valid : /\ width = PackWidth(offload, starts, rows, widest)
                          /\ valid = ValidTokens(offload, starts, rows, count)
  OBVIOUS
<1>3. Packs(starts, rows, width, valid)
  BY <1>2, PacksEither
<1>4. /\ width \in Nat \ {0} /\ valid \in Nat /\ valid >= starts[rows]
      /\ starts[r + 1] - starts[r] <= width
  BY <1>3 DEF Packs
<1>5. /\ starts[r] \in Nat /\ starts[r + 1] \in Nat /\ starts[rows] \in Nat
      /\ starts[r + 1] <= starts[rows]
  BY DEF Ragged
<1>6. RowOf(starts, rows, p) = r
  BY RowIsOwn
<1>7. valid <= count
  <2>1. ASSUME NEW n \in Nat, n <= count
        PROVE  Min({n, count}) = n
    BY <2>1, MinOfTwo
  <2>2. CASE offload
    <3>1. valid = Min({starts[rows], count})
      BY <1>2, <2>2 DEF ValidTokens
    <3> QED BY <1>5, <2>1, <3>1
  <2>3. CASE ~ offload
    BY <1>2, <2>3 DEF ValidTokens
  <2> QED BY <2>2, <2>3
<1>8. PICK row : row = PackedRow(starts, rows, width, tokens, valid, Eos, r)
  OBVIOUS
<1>9. /\ row \in Seq(T)
      /\ Len(row) = width
      /\ \A q \in starts[r] .. starts[r + 1] - 1 : row[q - starts[r] + 1] = tokens[q]
  BY <1>3, <1>7, <1>8, PackedRowIs
<1>10. PICK a \in Nat, b \in Nat : a = starts[r] /\ b = starts[r + 1]
  BY <1>5
<1>11. p \in a .. b - 1 /\ b - a <= width
  BY <1>4, <1>10
<1>12. PICK i \in 1 .. width : i = p - a + 1
  BY <1>4, <1>11
<1>13. ASSUME NEW k \in 1 .. i
       PROVE  row[k] = text[computed + k]
  <2>1. PICK q \in a .. p : q = a + k - 1
    BY <1>11, <1>12
  <2>2. q \in a .. b - 1 /\ q - a + 1 = k
    BY <1>11, <2>1
  <2>3. row[q - a + 1] = tokens[q]
    BY <1>9, <1>10, <2>2
  <2>4. tokens[q] = text[computed + (q - a + 1)]
    BY <1>10, <2>1
  <2> QED BY <2>2, <2>3, <2>4
<1>14. i \in 1 .. Len(row) /\ computed + i <= Len(text)
  BY <1>9, <1>10, <1>12
<1>15. Gram(Joined(Context(text, computed), row), i + ContextLen) = WholeGram(text, computed + i)
  <2>1. Shows(row, i, text, computed)
    BY <1>13, <1>14 DEF Shows
  <2> QED BY <1>9, <1>14, <2>1, ChunksLoseNothing
<1>16. ColumnOf(starts, r, width, p) + 1 = i
  <2>1. {q \in {q \in 0 .. valid - 1 : RowOf(starts, rows, q) = r} :
           ColumnOf(starts, r, width, q) = p - starts[r]} = {p}
    BY <1>3, OwnPlace
  <2>2. ColumnOf(starts, r, width, p) = p - starts[r]
    BY <2>1
  <2> QED BY <1>10, <1>12, <2>2
<1>17. GramAt(offload, starts, rows, tokens, count, widest, contexts, p)
         = Gram(Joined(contexts[r], row), ColumnOf(starts, r, width, p) + 1 + ContextLen)
  BY <1>2, <1>6, <1>8 DEF GramAt
<1> QED BY <1>10, <1>12, <1>15, <1>16, <1>17

-----------------------------------------------------------------------------
(* The cache has, from offset on, the last inputs of past.  A request that *)
(* just starts has a past of zeros.                                        *)
Recent(cache, offset, past) ==
  \A i \in 1 .. StateLen : cache[offset + i] = past[Len(past) - StateLen + i]

(* What the taps of the convolution must see at position e of a line.      *)
Window(line, e) == [i \in 1 .. StateLen + 1 |-> line[e - StateLen - 1 + i]]

-----------------------------------------------------------------------------
(* Sequences. *)

Slices(t, T, s, m, n) ==
  /\ t \in Seq(T)
  /\ Len(t) = n - m + 1
  /\ \A i \in 1 .. n - m + 1 : t[i] = s[m + i - 1]

LEMMA Slice ==
  ASSUME NEW T, NEW s \in Seq(T), NEW m \in 1 .. Len(s) + 1, NEW n \in m - 1 .. Len(s)
  PROVE  Slices(SubSeq(s, m, n), T, s, m, n)
<1>1. \A i \in m .. n : s[i] \in T
  OBVIOUS
<1>2. m \in Int /\ n \in Int
  OBVIOUS
<1>3. /\ SubSeq(s, m, n) \in Seq(T)
      /\ Len(SubSeq(s, m, n)) = IF m <= n THEN n - m + 1 ELSE 0
      /\ \A i \in 1 .. n - m + 1 : SubSeq(s, m, n)[i] = s[m + i - 1]
  BY <1>1, <1>2, SubSeqProperties
<1>4. Len(SubSeq(s, m, n)) = n - m + 1
  BY <1>3
<1> QED BY <1>3, <1>4 DEF Slices

Joins(t, T, a, b) ==
  /\ t \in Seq(T)
  /\ Len(t) = Len(a) + Len(b)
  /\ \A i \in 1 .. Len(a) + Len(b) : t[i] = IF i <= Len(a) THEN a[i] ELSE b[i - Len(a)]

LEMMA Join ==
  ASSUME NEW T, NEW a \in Seq(T), NEW b \in Seq(T)
  PROVE  Joins(a \o b, T, a, b)
BY ConcatProperties DEF Joins

(* A row is overwritten from its start and keeps its length.               *)
Overlaid(t, T, cache, new) ==
  /\ t \in Seq(T)
  /\ Len(t) = Len(cache)
  /\ \A i \in 1 .. Len(new) : t[i] = new[i]

LEMMA OverlayIs ==
  ASSUME NEW T, NEW cache \in Seq(T), NEW new \in Seq(T), Len(new) <= Len(cache)
  PROVE  Overlaid(Overlay(cache, new), T, cache, new)
<1>1. PICK rest : rest = SubSeq(cache, Len(new) + 1, Len(cache))
  OBVIOUS
<1>2. Slices(rest, T, cache, Len(new) + 1, Len(cache))
  <2>1. Len(new) + 1 \in 1 .. Len(cache) + 1 /\ Len(cache) \in (Len(new) + 1) - 1 .. Len(cache)
    OBVIOUS
  <2> QED BY <1>1, <2>1, Slice
<1>3. rest \in Seq(T) /\ Len(rest) = Len(cache) - Len(new)
  BY <1>2 DEF Slices
<1>4. /\ new \o rest \in Seq(T)
      /\ Len(new \o rest) = Len(cache)
      /\ \A i \in 1 .. Len(new) : (new \o rest)[i] = new[i]
  BY <1>3
<1> QED BY <1>1, <1>4 DEF Overlay, Overlaid

LEMMA ZerosType ==
  ASSUME NEW T, Zero \in T, NEW n \in Nat
  PROVE  Zeros(n) \in Seq(T) /\ Len(Zeros(n)) = n
BY DEF Zeros

-----------------------------------------------------------------------------
(* A line of inputs behind a state: the end of the past and what follows.  *)

Follows(h, T, past, inputs) ==
  /\ h \in Seq(T)
  /\ Len(h) >= StateLen + Len(inputs)
  /\ \A m \in 1 .. StateLen + Len(inputs) : h[m] = (past \o inputs)[Len(past) - StateLen + m]

EndsAs(state, T, past) ==
  state \in Seq(T) /\ Len(state) = StateLen /\ Recent(state, 0, past)

Continues(h, T, past, inputs, tail) ==
  Follows(h, T, past, inputs) /\ Len(h) = StateLen + Len(inputs) + Len(tail)

Line(state, inputs, tail) == state \o inputs \o tail

LEMMA HistoryFollows ==
  ASSUME NEW T, NEW past \in Seq(T), Len(past) >= StateLen,
         NEW state, EndsAs(state, T, past), NEW inputs \in Seq(T), NEW tail \in Seq(T)
  PROVE  Continues(Line(state, inputs, tail), T, past, inputs, tail)
<1>a. state \in Seq(T) /\ Len(state) = StateLen /\ Recent(state, 0, past)
  BY DEF EndsAs
<1>1. PICK joined : joined = state \o inputs
  OBVIOUS
<1>2. /\ joined \in Seq(T)
      /\ Len(joined) = StateLen + Len(inputs)
      /\ \A m \in 1 .. StateLen + Len(inputs) :
           joined[m] = IF m <= StateLen THEN state[m] ELSE inputs[m - StateLen]
  <2>1. Joins(joined, T, state, inputs)
    BY <1>1, <1>a, Join
  <2> QED BY <1>a, <2>1 DEF Joins
<1>3. PICK line : line = past \o inputs
  OBVIOUS
<1>4. \A m \in 1 .. Len(past) + Len(inputs) :
        line[m] = IF m <= Len(past) THEN past[m] ELSE inputs[m - Len(past)]
  <2>1. Joins(line, T, past, inputs)
    BY <1>3, Join
  <2> QED BY <2>1 DEF Joins
<1>5. ASSUME NEW m \in 1 .. StateLen + Len(inputs)
      PROVE  joined[m] = line[Len(past) - StateLen + m]
  <2>1. Len(past) - StateLen + m \in 1 .. Len(past) + Len(inputs)
    OBVIOUS
  <2>2. CASE m <= StateLen
    <3>1. joined[m] = state[m]
      BY <1>2, <2>2
    <3>2. state[0 + m] = past[Len(past) - StateLen + m]
      BY <1>a, <2>2 DEF Recent
    <3>3. line[Len(past) - StateLen + m] = past[Len(past) - StateLen + m]
      BY <1>4, <2>1, <2>2
    <3> QED BY <3>1, <3>2, <3>3
  <2>3. CASE m > StateLen
    <3>1. joined[m] = inputs[m - StateLen]
      BY <1>2, <2>3
    <3>2. (Len(past) - StateLen + m) - Len(past) = m - StateLen
      OBVIOUS
    <3>3. line[Len(past) - StateLen + m] = inputs[m - StateLen]
      BY <1>4, <2>1, <2>3, <3>2
    <3> QED BY <3>1, <3>3
  <2> QED BY <2>2, <2>3
<1>b. PICK h : h = Line(state, inputs, tail)
  OBVIOUS
<1>6. h = joined \o tail
  BY <1>1, <1>b DEF Line
<1>7. /\ h \in Seq(T)
      /\ Len(h) = StateLen + Len(inputs) + Len(tail)
      /\ \A m \in 1 .. StateLen + Len(inputs) : h[m] = joined[m]
  <2>1. Joins(h, T, joined, tail)
    BY <1>2, <1>6, Join
  <2> QED BY <1>2, <2>1 DEF Joins
<1>8. Len(h) >= StateLen + Len(inputs)
  BY <1>7
<1> QED BY <1>b, <1>3, <1>5, <1>7, <1>8 DEF Follows, Continues

LEMMA OutputsAreWindows ==
  ASSUME NEW T, NEW past \in Seq(T), Len(past) >= StateLen, NEW inputs \in Seq(T),
         NEW h, Follows(h, T, past, inputs),
         NEW count \in 0 .. Len(inputs), NEW k \in 1 .. count
  PROVE  Outputs(h, count)[k] = Window(past \o inputs, Len(past) + k)
<1>1. PICK t : t = SubSeq(h, k, k + StateLen)
  OBVIOUS
<1>2. h \in Seq(T) /\ Len(h) >= StateLen + Len(inputs)
  BY DEF Follows
<1>3. k \in 1 .. Len(h) + 1 /\ k + StateLen \in k - 1 .. Len(h)
  BY <1>2
<1>4. Slices(t, T, h, k, k + StateLen)
  BY <1>1, <1>2, <1>3, Slice
<1>5. /\ t \in Seq(T) /\ Len(t) = StateLen + 1
      /\ \A i \in 1 .. StateLen + 1 : t[i] = h[k + i - 1]
  BY <1>4 DEF Slices
<1>6. PICK line : line = past \o inputs
  OBVIOUS
<1>7. ASSUME NEW i \in 1 .. StateLen + 1
      PROVE  t[i] = line[Len(past) + k - StateLen - 1 + i]
  <2>1. k + i - 1 \in 1 .. StateLen + Len(inputs)
    OBVIOUS
  <2>2. Len(past) - StateLen + (k + i - 1) = Len(past) + k - StateLen - 1 + i
    OBVIOUS
  <2>3. h[k + i - 1] = line[Len(past) - StateLen + (k + i - 1)]
    BY <1>6, <2>1 DEF Follows
  <2> QED BY <1>5, <2>2, <2>3
<1>8. t = [i \in 1 .. StateLen + 1 |-> line[Len(past) + k - StateLen - 1 + i]]
  BY <1>5, <1>7
<1>9. Outputs(h, count)[k] = t
  BY <1>1 DEF Outputs
<1>10. Window(line, Len(past) + k)
         = [i \in 1 .. StateLen + 1 |-> line[Len(past) + k - StateLen - 1 + i]]
  BY DEF Window
<1> QED BY <1>6, <1>8, <1>9, <1>10

-----------------------------------------------------------------------------
(* The forwards. *)

(* A row of conv_state with the past behind the accepted drafts, and a     *)
(* token and its drafts.                                                   *)
Verified(T, width, row, cache, past, inputs) ==
  /\ Zero \in T /\ width \in Nat \ {0}
  /\ Valid(row) /\ row.accepted \in 1 .. width
  /\ cache \in Seq(T) /\ Len(cache) = StateLen + width - 1
  /\ past \in Seq(T) /\ Len(past) >= StateLen
  /\ Recent(cache, row.accepted - 1, past)
  /\ inputs \in Seq(T) /\ Len(inputs) \in 1 .. width

(* The outputs see the history, and so will the next forward, however many *)
(* of the tokens are kept.                                                 *)
LeavesNoTrace(result, T, width, past, inputs) ==
  /\ \A k \in 1 .. Len(inputs) :
       result.outputs[k] = Window(past \o inputs, Len(past) + k)
  /\ result.cache \in Seq(T) /\ Len(result.cache) = StateLen + width - 1
  /\ \A kept \in 1 .. Len(inputs) :
       Recent(result.cache, kept - 1, past \o SubSeq(inputs, 1, kept))

(* A request verifies drafts: whichever number of its tokens was kept      *)
(* before, each output sees the kept history, and whichever number is kept *)
(* after, the next forward finds that history at the offset it computes    *)
(* (_short_conv_dilated_spec_batched).                                     *)
THEOREM RejectedDraftsLeaveNoTrace ==
  ASSUME NEW T, NEW width, NEW row, NEW cache, NEW past, NEW inputs,
         Verified(T, width, row, cache, past, inputs)
  PROVE  LeavesNoTrace(SpecRow(row, cache, inputs, width), T, width, past, inputs)
<1>1. /\ Zero \in T /\ width \in Nat \ {0}
      /\ Valid(row) /\ row.accepted \in 1 .. width
      /\ cache \in Seq(T) /\ Len(cache) = StateLen + width - 1
      /\ past \in Seq(T) /\ Len(past) >= StateLen
      /\ Recent(cache, row.accepted - 1, past)
      /\ inputs \in Seq(T) /\ Len(inputs) \in 1 .. width
  BY DEF Verified
<1> USE <1>1
<1>2. PICK count \in 1 .. width : count = Len(inputs)
  OBVIOUS
<1>3. PICK offset \in 0 .. width - 1 : offset = row.accepted - 1
  OBVIOUS
<1>4. RollbackOffset(row, width) = offset
  <2>1. Max({row.accepted - 1, 0}) = offset
    BY SMTT(30), <1>3, MaxOfTwo
  <2>2. Min({offset, width - 1}) = offset
    BY MinOfTwo
  <2> QED BY <2>1, <2>2 DEF RollbackOffset
<1>5. PICK state : state = SubSeq(cache, offset + 1, offset + StateLen)
  OBVIOUS
<1>6. Slices(state, T, cache, offset + 1, offset + StateLen)
  <2>1. offset + 1 \in 1 .. Len(cache) + 1 /\ offset + StateLen \in (offset + 1) - 1 .. Len(cache)
    BY <1>3
  <2> QED BY <1>5, <2>1, Slice
<1>7. state \in Seq(T) /\ Len(state) = StateLen /\ \A i \in 1 .. StateLen : state[i] = cache[offset + i]
  <2>1. (offset + StateLen) - (offset + 1) + 1 = StateLen
    OBVIOUS
  <2>2. \A i \in 1 .. StateLen : offset + 1 + i - 1 = offset + i
    OBVIOUS
  <2> QED BY <1>6, <2>1, <2>2 DEF Slices
<1>8. EndsAs(state, T, past)
  <2>1. \A i \in 1 .. StateLen : state[0 + i] = past[Len(past) - StateLen + i]
    <3>1. \A i \in 1 .. StateLen : cache[offset + i] = past[Len(past) - StateLen + i]
      BY <1>3 DEF Recent
    <3>2. \A i \in 1 .. StateLen : state[0 + i] = state[i]
      OBVIOUS
    <3> HIDE DEF Recent
    <3> QED BY <1>7, <3>1, <3>2
  <2> QED BY <1>7, <2>1 DEF Recent, EndsAs
<1>9. PICK tail : tail = Zeros(width - count)
  OBVIOUS
<1>10. tail \in Seq(T) /\ Len(tail) = width - count
  <2>1. width - count \in Nat
    OBVIOUS
  <2> QED BY <1>9, <2>1, ZerosType
<1>11. PICK h : h = Line(state, inputs, tail)
  OBVIOUS
<1>12. Follows(h, T, past, inputs) /\ Len(h) = StateLen + width
  <2>1. Follows(h, T, past, inputs) /\ Len(h) = StateLen + Len(inputs) + Len(tail)
    <3>1. Continues(Line(state, inputs, tail), T, past, inputs, tail)
      BY <1>8, <1>10, HistoryFollows
    <3> QED BY <1>11, <3>1 DEF Continues
  <2> QED BY <1>2, <1>10, <2>1
<1>13. PICK candidate : candidate = SubSeq(h, 2, StateLen + width)
  OBVIOUS
<1>14. /\ candidate \in Seq(T) /\ Len(candidate) = StateLen + width - 1
       /\ \A i \in 1 .. StateLen + width - 1 : candidate[i] = h[i + 1]
  <2>1. h \in Seq(T) /\ 2 \in 1 .. Len(h) + 1 /\ StateLen + width \in 2 - 1 .. Len(h)
    BY <1>12 DEF Follows
  <2>2. Slices(candidate, T, h, 2, StateLen + width)
    BY <1>13, <2>1, Slice
  <2> QED BY <2>2 DEF Slices
<1>15. PICK new : new = SubSeq(candidate, 1, StateLen + count - 1)
  OBVIOUS
<1>16. /\ new \in Seq(T) /\ Len(new) = StateLen + count - 1
       /\ \A i \in 1 .. StateLen + count - 1 : new[i] = candidate[i]
  <2>1. 1 \in 1 .. Len(candidate) + 1 /\ StateLen + count - 1 \in 1 - 1 .. Len(candidate)
    BY <1>14
  <2>2. Slices(new, T, candidate, 1, StateLen + count - 1)
    BY <1>14, <1>15, <2>1, Slice
  <2> QED BY <2>2 DEF Slices
<1>17. PICK after : after = Overlay(cache, new)
  OBVIOUS
<1>18. /\ after \in Seq(T) /\ Len(after) = StateLen + width - 1
       /\ \A i \in 1 .. StateLen + count - 1 : after[i] = new[i]
  <2>1. Overlaid(after, T, cache, new)
    BY <1>16, <1>17, OverlayIs
  <2> QED BY <1>16, <2>1 DEF Overlaid
<1>19. /\ SpecRow(row, cache, inputs, width).outputs = Outputs(h, count)
       /\ SpecRow(row, cache, inputs, width).cache = after
  BY <1>2, <1>4, <1>5, <1>9, <1>11, <1>13, <1>15, <1>17 DEF SpecRow, Line
<1>20. \A k \in 1 .. count : Outputs(h, count)[k] = Window(past \o inputs, Len(past) + k)
  <2>1. count \in 0 .. Len(inputs)
    BY <1>2
  <2> QED BY <1>12, <2>1, OutputsAreWindows
<1>21. ASSUME NEW kept \in 1 .. count
       PROVE  Recent(after, kept - 1, past \o SubSeq(inputs, 1, kept))
  <2>1. PICK some : some = SubSeq(inputs, 1, kept)
    OBVIOUS
  <2>2. some \in Seq(T) /\ Len(some) = kept /\ \A i \in 1 .. kept : some[i] = inputs[i]
    <3>1. 1 \in 1 .. Len(inputs) + 1 /\ kept \in 1 - 1 .. Len(inputs)
      BY <1>2
    <3>2. Slices(some, T, inputs, 1, kept)
      BY <2>1, <3>1, Slice
    <3>3. kept - 1 + 1 = kept /\ \A i \in 1 .. kept : 1 + i - 1 = i
      OBVIOUS
    <3> QED BY <3>2, <3>3 DEF Slices
  <2>3. PICK line, short : line = past \o inputs /\ short = past \o some
    OBVIOUS
  <2>4. /\ Len(short) = Len(past) + kept
        /\ \A m \in 1 .. Len(past) + kept : short[m] = line[m]
    <3>1. /\ Len(short) = Len(past) + kept
          /\ \A m \in 1 .. Len(past) + kept :
               short[m] = IF m <= Len(past) THEN past[m] ELSE some[m - Len(past)]
      <4>1. Joins(short, T, past, some)
        BY <2>2, <2>3, Join
      <4> QED BY <2>2, <4>1 DEF Joins
    <3>2. \A m \in 1 .. Len(past) + kept :
            line[m] = IF m <= Len(past) THEN past[m] ELSE inputs[m - Len(past)]
      <4>1. Joins(line, T, past, inputs)
        BY <2>3, Join
      <4> QED BY <1>2, <4>1 DEF Joins
    <3>3. \A m \in 1 .. Len(past) + kept : m > Len(past) => some[m - Len(past)] = inputs[m - Len(past)]
      BY <2>2
    <3> QED BY SMTT(30), <3>1, <3>2, <3>3
  <2>5. ASSUME NEW i \in 1 .. StateLen
        PROVE  after[kept - 1 + i] = short[Len(short) - StateLen + i]
    <3>1. kept - 1 + i \in 1 .. StateLen + count - 1
      OBVIOUS
    <3>2. after[kept - 1 + i] = h[kept + i]
      <4>1. (kept - 1 + i) + 1 = kept + i /\ kept - 1 + i \in 1 .. StateLen + width - 1
        OBVIOUS
      <4>2. candidate[kept - 1 + i] = h[(kept - 1 + i) + 1]
        BY <1>14, <4>1
      <4> QED BY <1>16, <1>18, <3>1, <4>1, <4>2
    <3>3. kept + i \in 1 .. StateLen + Len(inputs)
      BY <1>2
    <3>4. h[kept + i] = line[Len(past) - StateLen + (kept + i)]
      BY <1>12, <2>3, <3>3 DEF Follows
    <3>5. PICK m : m = Len(past) - StateLen + (kept + i)
      OBVIOUS
    <3>6. m \in 1 .. Len(past) + kept /\ m = Len(short) - StateLen + i
      BY <2>4, <3>5
    <3> QED BY <2>4, <3>2, <3>4, <3>5, <3>6
  <2> QED BY <2>1, <2>3, <2>5 DEF Recent
<1> QED BY <1>2, <1>18, <1>19, <1>20, <1>21 DEF LeavesNoTrace

(* A row of conv_state with the past at its start, or a request that       *)
(* starts, and a chunk of its text.                                        *)
Continued(T, row, cache, past, inputs) ==
  /\ Zero \in T /\ Valid(row) /\ row.initial \in BOOLEAN
  /\ cache \in Seq(T) /\ Len(cache) >= StateLen
  /\ past \in Seq(T) /\ Len(past) >= StateLen
  /\ IF row.initial THEN Recent(cache, 0, past) ELSE past = Zeros(StateLen)
  /\ inputs \in Seq(T) /\ Len(inputs) > 0

ContinuesPast(result, T, length, past, inputs) ==
  /\ \A k \in 1 .. Len(inputs) :
       result.outputs[k] = Window(past \o inputs, Len(past) + k)
  /\ result.cache \in Seq(T) /\ Len(result.cache) = length
  /\ Recent(result.cache, 0, past \o inputs)

(* A chunk of a prompt: its outputs see the history, and it leaves the     *)
(* history at the start of the row, where a request that has no rejected   *)
(* drafts looks for it (_short_conv_dilated_prefill_batched).              *)
THEOREM ChunksContinue ==
  ASSUME NEW T, NEW row, NEW cache, NEW past, NEW inputs, Continued(T, row, cache, past, inputs)
  PROVE  ContinuesPast(PrefillRow(row, cache, inputs), T, Len(cache), past, inputs)
<1>1. /\ Zero \in T /\ Valid(row) /\ row.initial \in BOOLEAN
      /\ cache \in Seq(T) /\ Len(cache) >= StateLen
      /\ past \in Seq(T) /\ Len(past) >= StateLen
      /\ IF row.initial THEN Recent(cache, 0, past) ELSE past = Zeros(StateLen)
      /\ inputs \in Seq(T) /\ Len(inputs) > 0
  BY DEF Continued
<1> USE <1>1
<1>2. PICK count \in Nat : count = Len(inputs)
  OBVIOUS
<1>3. PICK state : state = InitialState(row, cache)
  OBVIOUS
<1>4. state \in Seq(T) /\ Len(state) = StateLen /\ Recent(state, 0, past)
  <2>1. CASE row.initial
    <3>1. state = SubSeq(cache, 1, StateLen)
      BY <1>3, <2>1 DEF InitialState
    <3>2. 1 \in 1 .. Len(cache) + 1 /\ StateLen \in 1 - 1 .. Len(cache)
      OBVIOUS
    <3>3. Slices(state, T, cache, 1, StateLen)
      BY <3>1, <3>2, Slice
    <3>4. state \in Seq(T) /\ Len(state) = StateLen /\ \A i \in 1 .. StateLen : state[i] = cache[i]
      BY <3>3 DEF Slices
    <3> QED BY SMTT(30), <2>1, <3>4 DEF Recent
  <2>2. CASE ~ row.initial
    <3>1. state = Zeros(StateLen) /\ past = Zeros(StateLen)
      BY <1>3, <2>2 DEF InitialState
    <3>2. state \in Seq(T) /\ Len(state) = StateLen
      BY <3>1, ZerosType
    <3> QED BY <3>1, <3>2 DEF Recent
  <2> QED BY <2>1, <2>2
<1>5. PICK h : h = state \o inputs
  OBVIOUS
<1>6. Follows(h, T, past, inputs) /\ Len(h) = StateLen + count
  <2>1. << >> \in Seq(T) /\ Len(<< >>) = 0
    OBVIOUS
  <2>2. h \in Seq(T)
    BY <1>4, <1>5
  <2>3. h = Line(state, inputs, << >>)
    BY <1>5, <2>2, ConcatEmptySeq DEF Line
  <2>4. EndsAs(state, T, past)
    BY <1>4 DEF EndsAs
  <2>5. Follows(h, T, past, inputs) /\ Len(h) = StateLen + Len(inputs) + Len(<< >>)
    <3>1. Continues(Line(state, inputs, << >>), T, past, inputs, << >>)
      BY <2>1, <2>4, HistoryFollows
    <3> QED BY <2>3, <3>1 DEF Continues
  <2> QED BY <1>2, <2>1, <2>5
<1>7. PICK new : new = SubSeq(h, count + 1, count + StateLen)
  OBVIOUS
<1>8. /\ new \in Seq(T) /\ Len(new) = StateLen
      /\ \A i \in 1 .. StateLen : new[i] = h[count + i]
  <2>1. h \in Seq(T) /\ count + 1 \in 1 .. Len(h) + 1 /\ count + StateLen \in (count + 1) - 1 .. Len(h)
    BY <1>6 DEF Follows
  <2>2. Slices(new, T, h, count + 1, count + StateLen)
    BY <1>7, <2>1, Slice
  <2>3. (count + StateLen) - (count + 1) + 1 = StateLen
    OBVIOUS
  <2>4. \A i \in 1 .. StateLen : count + 1 + i - 1 = count + i
    OBVIOUS
  <2> QED BY <2>2, <2>3, <2>4 DEF Slices
<1>9. PICK after : after = Overlay(cache, new)
  OBVIOUS
<1>10. after \in Seq(T) /\ Len(after) = Len(cache) /\ \A i \in 1 .. StateLen : after[i] = new[i]
  <2>1. Overlaid(after, T, cache, new)
    BY <1>8, <1>9, OverlayIs
  <2> QED BY <1>8, <2>1 DEF Overlaid
<1>11. /\ PrefillRow(row, cache, inputs).outputs = Outputs(h, count)
       /\ PrefillRow(row, cache, inputs).cache = after
  BY <1>2, <1>3, <1>5, <1>7, <1>9 DEF PrefillRow
<1>12. \A k \in 1 .. count : Outputs(h, count)[k] = Window(past \o inputs, Len(past) + k)
  <2>1. count \in 0 .. Len(inputs)
    BY <1>2
  <2> QED BY <1>6, <2>1, OutputsAreWindows
<1>13. Recent(after, 0, past \o inputs)
  <2>1. PICK line : line = past \o inputs
    OBVIOUS
  <2>2. Len(line) = Len(past) + count
    BY <1>2, <2>1
  <2>3. ASSUME NEW i \in 1 .. StateLen
        PROVE  after[0 + i] = line[Len(line) - StateLen + i]
    <3>1. count + i \in 1 .. StateLen + Len(inputs)
      BY <1>2
    <3>2. h[count + i] = line[Len(past) - StateLen + (count + i)]
      BY <1>6, <2>1, <3>1 DEF Follows
    <3>3. Len(past) - StateLen + (count + i) = Len(line) - StateLen + i
      BY <2>2
    <3>4. after[i] = h[count + i]
      BY <1>8, <1>10
    <3> QED BY SMTT(30), <3>2, <3>3, <3>4
  <2> QED BY <2>1, <2>3 DEF Recent
<1> QED BY <1>2, <1>10, <1>11, <1>12, <1>13 DEF ContinuesPast

(* A request with one token and no drafts does what a chunk of one does:   *)
(* ChunksContinue speaks of both (_short_conv_dilated_decode_batched).     *)
THEOREM DecodeIsAChunk ==
  ASSUME NEW T, Zero \in T, NEW row,
         NEW cache \in Seq(T), Len(cache) >= StateLen,
         NEW inputs \in Seq(T), Len(inputs) = 1
  PROVE  DecodeRow(row, cache, inputs) = PrefillRow(row, cache, inputs)
<1>1. PICK state : state = InitialState(row, cache)
  OBVIOUS
<1>2. state \in Seq(T) /\ Len(state) = StateLen
  <2>1. Zeros(StateLen) \in Seq(T) /\ Len(Zeros(StateLen)) = StateLen
    BY ZerosType
  <2>2. 1 \in 1 .. Len(cache) + 1 /\ StateLen \in 1 - 1 .. Len(cache)
    OBVIOUS
  <2>3. Slices(SubSeq(cache, 1, StateLen), T, cache, 1, StateLen)
    BY <2>2, Slice
  <2>4. SubSeq(cache, 1, StateLen) \in Seq(T) /\ Len(SubSeq(cache, 1, StateLen)) = StateLen
    BY <2>3 DEF Slices
  <2>5. state = IF Valid(row) /\ row.initial THEN SubSeq(cache, 1, StateLen) ELSE Zeros(StateLen)
    BY <1>1 DEF InitialState
  <2> QED BY <2>1, <2>4, <2>5
<1>3. PICK history : history = state \o inputs
  OBVIOUS
<1>4. Len(history) = StateLen + 1
  <2>1. Joins(history, T, state, inputs)
    BY <1>2, <1>3, Join
  <2> QED BY <1>2, <2>1 DEF Joins
<1>5. Len(history) - StateLen + 1 = Len(inputs) + 1 /\ Len(history) = Len(inputs) + StateLen
  BY <1>4
<1>6. Valid(row) \in BOOLEAN
  BY DEF Valid
<1>7. DecodeRow(row, cache, inputs) =
        [outputs |-> Outputs(history, 1),
         cache |-> IF Valid(row)
                     THEN Overlay(cache, SubSeq(history, Len(inputs) + 1, Len(inputs) + StateLen))
                     ELSE cache]
  BY <1>1, <1>3, <1>5 DEF DecodeRow
<1>8. PrefillRow(row, cache, inputs) =
        [outputs |-> Outputs(history, Len(inputs)),
         cache |-> IF Valid(row) /\ Len(inputs) > 0
                     THEN Overlay(cache, SubSeq(history, Len(inputs) + 1, Len(inputs) + StateLen))
                     ELSE cache]
  BY <1>1, <1>3 DEF PrefillRow
<1>9. (Valid(row) /\ Len(inputs) > 0) <=> Valid(row)
  OBVIOUS
<1> HIDE DEF Valid
<1> QED BY <1>7, <1>8, <1>9

-----------------------------------------------------------------------------
Batches ==
  [reqs : Nat, tokens : Nat, uniform : Nat, longest : Nat, loras : Nat]

-----------------------------------------------------------------------------
(* Shapes. *)

LEMMA RoundUpIs ==
  ASSUME NEW n \in Nat, NEW q \in Nat \ {0}
  PROVE  /\ RoundUp(n, q) \in Nat
         /\ RoundUp(n, q) >= n
         /\ RoundUp(n, q) \div q \in Nat
         /\ RoundUp(n, q) = (RoundUp(n, q) \div q) * q
<1>1. PICK k \in Int : k = (n + q - 1) \div q
  OBVIOUS
<1>2. PICK m \in 0 .. q - 1 : n + q - 1 = k * q + m
  <2>1. (n + q - 1) % q \in 0 .. q - 1 /\ n + q - 1 = q * ((n + q - 1) \div q) + ((n + q - 1) % q)
    OBVIOUS
  <2> QED BY <1>1, <2>1
<1>3. k \in Nat
  <2>1. CASE k < 0
    <3>1. (k + 1) * q <= 0
      BY <2>1
    <3>2. k * q <= 0 - q
      BY <3>1
    <3> QED BY <1>2, <3>2
  <2> QED BY <2>1
<1>4. k * q \in Nat /\ k * q >= n
  BY <1>2, <1>3
<1>5. (k * q) \div q = k
  OBVIOUS
<1> QED BY <1>1, <1>3, <1>4, <1>5 DEF RoundUp

(* A shape for decode of one length holds whole requests, and no more of   *)
(* them than the runner has.                                               *)
LEMMA UniformShape ==
  ASSUME NEW c \in Configs, NEW d \in UniformDescs(c)
  PROVE  /\ d.uniform \in c.decodeLens /\ d.longest = 0
         /\ d.reqs \in Nat /\ d.tokens \in Nat
         /\ d.tokens = d.reqs * d.uniform
         /\ d.reqs <= c.maxReqs /\ d.tokens <= c.maxSize
         /\ d.mode = c.decodeMode /\ d.loras \in c.loraCases
         /\ \E n \in c.sizes, q \in c.decodeLens : d.tokens = RoundUp(n, q)
<1>1. PICK n \in c.sizes, q \in c.decodeLens, l \in c.loraCases :
        /\ d = Desc(c.decodeMode, RoundUp(n, q), RoundUp(n, q) \div q, q, 0, l)
        /\ d.tokens <= c.maxSize /\ d.reqs <= c.maxReqs
  BY DEF UniformDescs
<1>2. /\ d.mode = c.decodeMode /\ d.tokens = RoundUp(n, q) /\ d.reqs = RoundUp(n, q) \div q
      /\ d.uniform = q /\ d.longest = 0 /\ d.loras = l
  BY <1>1 DEF Desc
<1>3. n \in Nat /\ q \in Nat \ {0}
  BY DEF Configs
<1>4. /\ RoundUp(n, q) \in Nat /\ RoundUp(n, q) \div q \in Nat
      /\ RoundUp(n, q) = (RoundUp(n, q) \div q) * q
  BY <1>3, RoundUpIs
<1> QED BY <1>1, <1>2, <1>4

LEMMA VarlenIs ==
  ASSUME NEW c, NEW d \in VarlenDescs(c)
  PROVE  /\ c.separate
         /\ \E n \in c.sizes, l \in c.loraCases :
              d = Desc(c.decodeMode, n, Min({n, c.maxReqs}), 0, c.queryLen, l)
<1> DEFINE Varlen(n, l) == Desc(c.decodeMode, n, Min({n, c.maxReqs}), 0, c.queryLen, l)
           Sizes == {n \in c.sizes : n <= MaxDecodeTokens(c)}
<1>1. c.separate /\ d \in {Varlen(n, l) : n \in Sizes, l \in c.loraCases}
  BY DEF VarlenDescs
<1>2. \A n \in Sizes : n \in c.sizes
  OBVIOUS
<1> HIDE DEF Varlen, Sizes
<1>3. PICK n \in c.sizes, l \in c.loraCases : d = Varlen(n, l)
  BY <1>1, <1>2
<1>4. d = Desc(c.decodeMode, n, Min({n, c.maxReqs}), 0, c.queryLen, l)
  BY Zenon, <1>3 DEF Varlen
<1>5. c.separate
  BY <1>1
<1> QED BY Zenon, <1>4, <1>5

LEMMA VarlenShape ==
  ASSUME NEW c \in Configs, NEW d \in VarlenDescs(c)
  PROVE  /\ d.tokens \in c.sizes /\ d.uniform = 0 /\ d.longest = c.queryLen
         /\ d.mode = c.decodeMode /\ d.loras \in c.loraCases
<1>1. PICK n \in c.sizes, l \in c.loraCases :
        d = Desc(c.decodeMode, n, Min({n, c.maxReqs}), 0, c.queryLen, l)
  BY VarlenIs
<1> QED BY <1>1 DEF Desc

LEMMA MixedShape ==
  ASSUME NEW c \in Configs, NEW d \in MixedDescs(c)
  PROVE  /\ d.tokens \in c.sizes /\ d.uniform = 0 /\ d.longest = 0
         /\ d.mode = c.mixedMode /\ d.loras \in c.loraCases
<1>1. PICK n \in c.sizes, l \in c.loraCases :
        d = Desc(c.mixedMode, n, MixedReqs(c, n), 0, 0, l)
  BY DEF MixedDescs
<1> QED BY <1>1 DEF Desc

LEMMA TokensType ==
  ASSUME NEW c \in Configs, NEW d \in CaptureDescs(c)
  PROVE  d.tokens \in Nat
<1>1. c.sizes \subseteq Nat
  BY DEF Configs
<1> QED BY <1>1, UniformShape, VarlenShape, MixedShape DEF CaptureDescs, DecodeDescs

-----------------------------------------------------------------------------
(* The chosen shape. *)

LEMMA Chosen ==
  ASSUME NEW c, NEW shapes, NEW ready, NEW b, NEW d \in Dispatch(c, shapes, ready, b)
  PROVE  \/ /\ ready
            /\ d \in Candidates(shapes, b, EffectiveLoras(c, b.loras))
            /\ Compatible(d, b, EffectiveLoras(c, b.loras))
         \/ d = Desc("NONE", b.tokens, b.reqs, 0, 0, EffectiveLoras(c, b.loras))
BY DEF Dispatch

(* A graph captured for a decode of one length runs only batches of that   *)
(* length, and what it is padded with are whole requests: the metadata it  *)
(* was captured with, q tokens per request, are those of the batch         *)
(* (_init_candidates, _is_compatible).                                      *)
THEOREM DecodeGraphsPadWholeRequests ==
  ASSUME NEW c \in Configs, NEW b \in Batches, NEW ready \in BOOLEAN,
         b.uniform # 0 => b.tokens = b.reqs * b.uniform,
         NEW d \in Dispatch(c, CaptureDescs(c), ready, b), d.uniform # 0
  PROVE  /\ d.uniform = b.uniform /\ d.reqs >= b.reqs
         /\ d.tokens - b.tokens = (d.reqs - b.reqs) * d.uniform
<1>1. /\ d \in CaptureDescs(c)
      /\ d.uniform = 0 \/ d.uniform = b.uniform
      /\ d.reqs = 0 \/ d.reqs >= b.reqs
      /\ d.tokens >= b.tokens
  BY Chosen DEF Candidates, Compatible, Desc
<1>2. d \in UniformDescs(c)
  BY <1>1, VarlenShape, MixedShape DEF CaptureDescs, DecodeDescs
<1>3. /\ d.uniform \in Nat \ {0} /\ d.reqs \in Nat /\ d.tokens = d.reqs * d.uniform
  BY <1>2, UniformShape DEF Configs
<1>4. PICK q \in Nat \ {0}, m \in Nat, n \in Nat : q = b.uniform /\ m = d.reqs /\ n = b.reqs
  BY <1>1, <1>3 DEF Batches
<1>5. d.tokens = m * q /\ b.tokens = n * q /\ d.uniform = q
  BY <1>1, <1>3, <1>4
<1>6. m * q >= n * q
  BY <1>1, <1>5
<1>7. m >= n
  <2>1. CASE m < n
    <3>1. PICK e \in Nat \ {0} : n = m + e
      <4>1. n - m \in Nat \ {0} /\ n = m + (n - m)
        BY <2>1
      <4> QED BY <4>1
    <3>2. n * q = m * q + e * q /\ e * q > 0
      BY <3>1
    <3> QED BY <1>6, <3>2
  <2> QED BY <2>1
<1>8. m * q - n * q = (m - n) * q
  OBVIOUS
<1> QED BY <1>4, <1>5, <1>7, <1>8

(* Every shape that is captured fits the buffers that are as large as the  *)
(* largest size (ModelCudaGraphManager.capture: hidden_states), when the   *)
(* sizes do.                                                               *)
THEOREM CapturedShapesFit ==
  ASSUME NEW c \in Configs, \A n \in c.sizes : n <= c.maxSize, NEW d \in CaptureDescs(c)
  PROVE  d.tokens <= c.maxSize
BY UniformShape, VarlenShape, MixedShape DEF CaptureDescs, DecodeDescs

(* With graphs for mixed batches, and sizes that hold whole decodes, every *)
(* batch that fits the largest size is run by a graph, its number of       *)
(* adapters being captured (CudaGraphManager.dispatch).  Without the       *)
(* second condition a decode shape between two sizes hides the mixed one   *)
(* above it, and a mixed batch of that size runs without a graph.          *)
THEOREM BatchesFindAGraph ==
  ASSUME NEW c \in Configs, NEW b \in Batches,
         c.mixedMode # "NONE",
         \A n \in c.sizes, q \in c.decodeLens : RoundUp(n, q) \in c.sizes,
         b.tokens > 0, b.reqs <= b.tokens, b.reqs <= c.maxReqs,
         \E n \in c.sizes : b.tokens <= n,
         EffectiveLoras(c, b.loras) \in c.loraCases,
         NEW d \in Dispatch(c, CaptureDescs(c), TRUE, b)
  PROVE  d \in CaptureDescs(c) /\ Compatible(d, b, EffectiveLoras(c, b.loras))
<1>1. PICK loras \in c.loraCases : loras = EffectiveLoras(c, b.loras)
  OBVIOUS
<1>2. /\ c.sizes \subseteq Nat /\ c.maxReqs \in Nat \ {0}
      /\ b.tokens \in Nat /\ b.reqs \in Nat
  BY DEF Configs, Batches
<1> DEFINE S == {n \in c.sizes : b.tokens <= n}
<1>3. PICK m \in S : \A n \in S : m <= n
  <2>1. S \in SUBSET Nat /\ S # {}
    BY <1>2
  <2> HIDE DEF S
  <2>2. Min(S) \in S /\ \A n \in S : Min(S) <= n
    BY <2>1, MinFact
  <2> QED BY <2>2
<1>4. m \in c.sizes /\ m \in Nat /\ b.tokens <= m
  BY <1>2, <1>3
<1>5. PICK e : e = Desc(c.mixedMode, m, MixedReqs(c, m), 0, 0, loras)
  OBVIOUS
<1>6. e \in CaptureDescs(c)
  BY <1>4, <1>5 DEF CaptureDescs, MixedDescs
<1>7. /\ e.tokens = m /\ e.uniform = 0 /\ e.longest = 0 /\ e.loras = loras
      /\ e.reqs = IF c.mixedMode = "FULL" THEN Min({m, c.maxReqs}) ELSE 0
  BY <1>5 DEF Desc, MixedReqs
<1>8. e.reqs = 0 \/ e.reqs >= b.reqs
  <2>1. m \in Int /\ c.maxReqs \in Int
    BY <1>2, <1>4
  <2>2. Min({m, c.maxReqs}) = IF m <= c.maxReqs THEN m ELSE c.maxReqs
    BY <2>1, MinOfTwo
  <2> QED BY <1>2, <1>4, <1>7, <2>2
<1>9. Compatible(e, b, loras)
  BY <1>4, <1>7, <1>8 DEF Compatible
<1>10. ASSUME NEW x \in CaptureDescs(c), b.tokens <= x.tokens
       PROVE  m <= x.tokens
  <2>1. x.tokens \in c.sizes
    BY UniformShape, VarlenShape, MixedShape DEF CaptureDescs, DecodeDescs
  <2> QED BY <1>3, <1>10, <2>1
<1>11. e \in Candidates(CaptureDescs(c), b, loras)
  BY <1>4, <1>6, <1>7, <1>10 DEF Candidates
<1>12. PICK fitting : fitting = {x \in Candidates(CaptureDescs(c), b, loras) : Compatible(x, b, loras)}
  OBVIOUS
<1>13. e \in fitting /\ d \in fitting
  <2>1. e \in fitting
    BY <1>9, <1>11, <1>12
  <2>2. Dispatch(c, CaptureDescs(c), TRUE, b) \in SUBSET fitting
    BY <1>1, <1>12, <2>1 DEF Dispatch
  <2> QED BY <2>1, <2>2
<1> QED BY <1>1, <1>12, <1>13 DEF Candidates

-----------------------------------------------------------------------------
(* The state of the graphs.  The first shape that is captured is the       *)
(* largest, and allocates the buffer for all the others.                   *)
CaptureInv ==
  /\ conf \in Confs
  /\ descs = CaptureDescs(conf)
  /\ left \subseteq descs
  /\ graphs = {d \in descs \ left : d.mode = "FULL"}
  /\ captured \in BOOLEAN
  /\ captured => left = {}
  /\ hidden \in 0 .. conf.maxSize
  /\ hidden = 0 => left = descs
  /\ hidden # 0 => \A d \in descs : d.tokens <= hidden
  /\ failed = FALSE

LEMMA ConfIs ==
  ASSUME NEW c \in Confs
  PROVE  c \in Configs /\ Consistent(c)
BY ForwardAssumption

LEMMA ShapeIs ==
  ASSUME NEW c \in Confs, NEW d \in CaptureDescs(c)
  PROVE  /\ d.tokens \in 1 .. c.maxSize
         /\ c.sizes # {}
<1>1. c \in Configs /\ Consistent(c)
  BY ConfIs
<1>2. d.tokens <= c.maxSize /\ d.tokens \in Nat
  BY <1>1, CapturedShapesFit, TokensType DEF Consistent
<1>3. c.sizes \subseteq Nat \ {0} /\ c.decodeLens \subseteq Nat \ {0}
  BY <1>1 DEF Configs
<1>4. CASE d \in UniformDescs(c)
  <2>1. PICK n \in c.sizes, q \in c.decodeLens : d.tokens = RoundUp(n, q)
    BY <1>1, <1>4, UniformShape
  <2>2. n \in Nat \ {0} /\ q \in Nat \ {0}
    BY <1>3
  <2>3. RoundUp(n, q) >= n
    BY <2>2, RoundUpIs
  <2> QED BY <1>1, <1>2, <2>1, <2>2, <2>3 DEF Configs
<1>5. CASE d \in VarlenDescs(c) \cup MixedDescs(c)
  <2>1. d.tokens \in c.sizes
    BY <1>1, <1>5, VarlenShape, MixedShape
  <2> QED BY <1>2, <1>3, <2>1
<1> QED BY <1>4, <1>5 DEF CaptureDescs, DecodeDescs

(* No shape is larger than the one captured first.                         *)
LEMMA LargestFirst ==
  ASSUME NEW c \in Confs, NEW d \in NextToCapture(CaptureDescs(c)), NEW e \in CaptureDescs(c)
  PROVE  e.tokens <= d.tokens
<1>1. c \in Configs /\ Consistent(c)
  BY ConfIs
<1>2. PICK all : all = CaptureDescs(c)
  OBVIOUS
<1> DEFINE piecewise == {x \in all : x.mode = "PIECEWISE"}
<1>3. CASE piecewise = {}
  <2>1. d \in {x \in all : \A y \in all : y.tokens <= x.tokens}
    BY <1>2, <1>3 DEF NextToCapture
  <2> QED BY <1>2, <2>1
<1>4. CASE piecewise # {}
  <2>1. d \in piecewise /\ \A y \in piecewise : y.tokens <= d.tokens
    BY <1>2, <1>4 DEF NextToCapture
  <2>2. d \in MixedDescs(c)
    <3>1. CASE d \in UniformDescs(c)
      <4>1. d.mode = c.decodeMode /\ c.separate
        BY <1>1, <3>1, UniformShape DEF UniformDescs
      <4> QED BY <1>1, <2>1, <4>1 DEF Consistent
    <3>2. CASE d \in VarlenDescs(c)
      <4>1. d.mode = c.decodeMode /\ c.separate
        BY <1>1, <3>2, VarlenShape, VarlenIs
      <4> QED BY <1>1, <2>1, <4>1 DEF Consistent
    <3> QED BY <1>2, <2>1, <3>1, <3>2 DEF CaptureDescs, DecodeDescs
  <2>3. c.mixedMode = "PIECEWISE"
    BY <1>1, <2>1, <2>2, MixedShape
  <2>4. PICK l \in c.loraCases : TRUE
    BY <1>1 DEF Consistent
  <2>5. c.maxSize \in c.sizes
    BY <1>1, <2>1, <1>2, ShapeIs DEF Consistent
  <2>6. PICK x : x = Desc(c.mixedMode, c.maxSize, MixedReqs(c, c.maxSize), 0, 0, l)
    OBVIOUS
  <2>7. x \in piecewise /\ x.tokens = c.maxSize
    BY <1>2, <2>3, <2>5, <2>6 DEF CaptureDescs, MixedDescs, Desc
  <2>8. c.maxSize <= d.tokens
    BY <2>1, <2>7
  <2>9. e.tokens \in 1 .. c.maxSize /\ d.tokens \in 1 .. c.maxSize /\ c.maxSize \in Nat
    BY <1>1, <1>2, <2>1, ShapeIs DEF Configs
  <2> QED BY <2>8, <2>9
<1> QED BY <1>3, <1>4

(* A full graph that is chosen was captured, and fits the buffer.          *)
LEMMA ChosenIsCaptured ==
  ASSUME CaptureInv, captured, NEW b, NEW d \in Dispatch(conf, descs, captured, b)
  PROVE  d.mode = "FULL" => /\ d \in descs
                            /\ d \in graphs
                            /\ d.tokens <= hidden
<1>1. SUFFICES ASSUME d.mode = "FULL"
               PROVE  d \in descs /\ d \in graphs /\ d.tokens <= hidden
  OBVIOUS
<1>2. d \in descs
  <2>1. d # Desc("NONE", b.tokens, b.reqs, 0, 0, EffectiveLoras(conf, b.loras))
    BY <1>1 DEF Desc
  <2>2. d \in Candidates(descs, b, EffectiveLoras(conf, b.loras))
    BY <2>1, Chosen
  <2> QED BY <2>2 DEF Candidates
<1>3. left = {} /\ d \in graphs
  BY <1>1, <1>2 DEF CaptureInv
<1>4. d.tokens <= hidden
  BY <1>2, <1>3 DEF CaptureInv
<1> QED BY <1>2, <1>3, <1>4

LEMMA CaptureInvStep ==
  ASSUME CaptureInv, [Next]_vars
  PROVE  CaptureInv'
<1>1. CASE CaptureGraph
  <2>1. PICK d \in NextToCapture(left) :
          /\ hidden' = HiddenRows(d)
          /\ failed' = (failed \/ d.tokens > HiddenRows(d) \/ d \in graphs)
          /\ graphs' = IF d.mode = "FULL" THEN graphs \cup {d} ELSE graphs
          /\ left' = left \ {d}
    BY <1>1 DEF CaptureGraph
  <2>2. UNCHANGED <<conf, descs, captured>> /\ ~captured
    BY <1>1 DEF CaptureGraph
  <2>3. d \in left /\ d \in descs
    BY <2>1 DEF NextToCapture, CaptureInv
  <2>4. d.tokens \in 1 .. conf.maxSize /\ conf.maxSize \in Nat
    BY <2>3, ShapeIs, ConfIs DEF CaptureInv, Configs
  <2>5. hidden' \in 1 .. conf.maxSize /\ \A e \in descs : e.tokens <= hidden'
    <3>1. CASE hidden = 0
      <4>1. hidden' = d.tokens
        BY <2>1, <3>1 DEF HiddenRows
      <4>2. conf \in Confs /\ d \in NextToCapture(CaptureDescs(conf)) /\ descs = CaptureDescs(conf)
        BY <2>1, <3>1 DEF CaptureInv
      <4> QED BY <2>4, <4>1, <4>2, LargestFirst
    <3>2. CASE hidden # 0
      BY <2>1, <3>2 DEF HiddenRows, CaptureInv
    <3> QED BY <3>1, <3>2
  <2>6. ~failed'
    <3>1. d \notin graphs /\ ~failed
      BY <2>3 DEF CaptureInv
    <3>2. ~ (d.tokens > hidden')
      BY <2>3, <2>4, <2>5
    <3> QED BY <2>1, <3>1, <3>2
  <2>7. graphs' = {x \in descs \ left' : x.mode = "FULL"}
    BY <2>1, <2>3 DEF CaptureInv
  <2>8. failed' \in BOOLEAN
    BY <2>1, ~failed DEF CaptureInv
  <2> QED BY <2>1, <2>2, <2>5, <2>6, <2>7, <2>8 DEF CaptureInv
<1>2. CASE CaptureDone
  BY <1>2 DEF CaptureDone, CaptureInv
<1>3. CASE \E r \in Requests : Add(r) \/ Finish(r)
  BY <1>3 DEF Add, Finish, CaptureInv
<1>4. CASE Step
  <2>1. PICK work : \E d \in Dispatch(conf, descs, captured, Batch(work)) :
                      Forward(d, BatchOrder(work), work)
    BY <1>4 DEF Step
  <2>2. PICK d \in Dispatch(conf, descs, captured, Batch(work)) : Forward(d, BatchOrder(work), work)
    BY <2>1
  <2>3. failed' = (failed \/ (d.mode = "FULL" /\ (d \notin graphs \/ d.tokens > hidden)))
    BY <2>2 DEF Forward
  <2>4. captured /\ UNCHANGED <<conf, descs, left, graphs, hidden, captured>>
    BY <1>4 DEF Step
  <2>5. PICK b : b = Batch(work)
    OBVIOUS
  <2>6. d.mode = "FULL" => d \in graphs /\ d.tokens <= hidden
    BY <2>4, <2>5, ChosenIsCaptured
  <2>7. d.mode = "FULL" => d.tokens \in Nat /\ hidden \in Nat
    <3>1. d.mode = "FULL" => d \in descs
      BY <2>4, <2>5, ChosenIsCaptured
    <3> QED BY <3>1, ShapeIs, ConfIs DEF CaptureInv, Configs
  <2>8. ~ (d.mode = "FULL" /\ (d \notin graphs \/ d.tokens > hidden))
    BY <2>6, <2>7
  <2>9. failed' = FALSE
    <3>1. failed = FALSE
      BY DEF CaptureInv
    <3> HIDE DEF CaptureInv
    <3> QED BY Zenon, <2>3, <2>8, <3>1
  <2> QED BY <2>4, <2>9 DEF CaptureInv
<1>5. CASE DummyRun
  <2>1. PICK b : \E d \in Dispatch(conf, descs, captured, b) :
                   failed' = (failed \/ (d.mode = "FULL" /\ d \notin graphs))
    BY <1>5 DEF DummyRun
  <2>2. PICK d \in Dispatch(conf, descs, captured, b) :
          failed' = (failed \/ (d.mode = "FULL" /\ d \notin graphs))
    BY <2>1
  <2>3. captured /\ UNCHANGED <<conf, descs, left, graphs, hidden, captured>>
    BY <1>5 DEF DummyRun
  <2>4. d.mode = "FULL" => d \in graphs
    BY <2>3, ChosenIsCaptured
  <2>5. failed' = FALSE
    BY <2>2, <2>4 DEF CaptureInv
  <2> QED BY <2>3, <2>5 DEF CaptureInv
<1>6. CASE UNCHANGED vars
  BY <1>6 DEF vars, CaptureInv
<1> QED BY <1>1, <1>2, <1>3, <1>4, <1>5, <1>6 DEF Next

LEMMA CaptureInvAtFirst ==
  ASSUME Init
  PROVE  CaptureInv
<1>1. conf.maxSize \in Nat
  BY ConfIs DEF Init, Configs
<1>2. graphs = {d \in descs \ left : d.mode = "FULL"}
  BY DEF Init
<1>3. hidden \in 0 .. conf.maxSize /\ hidden = 0
  BY <1>1 DEF Init
<1>4. captured = FALSE /\ failed = FALSE /\ conf \in Confs /\ descs = CaptureDescs(conf) /\ left = descs
  BY Zenon DEF Init
<1> QED BY Zenon, <1>2, <1>3, <1>4 DEF CaptureInv

(* No shape is captured twice, the buffer of hidden states holds every     *)
(* captured shape, and a shape that is chosen was captured.                *)
THEOREM NothingFailsCorrect == Spec => []NothingFails
<1>1. Init => CaptureInv
  BY CaptureInvAtFirst
<1>2. CaptureInv /\ [Next]_vars => CaptureInv'
  BY CaptureInvStep
<1>3. CaptureInv => NothingFails
  BY DEF CaptureInv, NothingFails
<1> QED BY <1>1, <1>2, <1>3, PTL DEF Spec

-----------------------------------------------------------------------------
(* The batch: its order is one of its requests, each once.                 *)

LEMMA WorkIs ==
  ASSUME NEW w \in Works
  PROVE  /\ w.count \in Nat \ {0}
         /\ w.drafts \in Seq(Words)
         /\ w.drafts # << >> => w.count = Len(w.drafts) + 1
         /\ w.drafts = << >> <=> Len(w.drafts) = 0
<1>1. CASE w \in [count : 1 .. MaxPrompt, drafts : {<< >>}]
  <2>1. w.count \in 1 .. MaxPrompt /\ w.drafts = << >>
    BY <1>1
  <2> QED BY <2>1, ForwardAssumption
<1>2. CASE w \in {[count |-> Len(d) + 1, drafts |-> d] : d \in Drafts}
  <2>1. PICK d \in Drafts : w = [count |-> Len(d) + 1, drafts |-> d]
    BY <1>2
  <2>2. PICK n \in Numbers : d \in [1 .. n -> Words]
    BY <2>1 DEF Drafts
  <2>3. PICK c \in Confs : n \in 1 .. c.drafts
    BY <2>2 DEF Numbers
  <2>4. n \in Nat
    BY <2>3, ConfIs DEF Configs
  <2>5. d \in Seq(Words) /\ Len(d) \in Nat
    BY <2>2, <2>4
  <2> QED BY <2>1, <2>5
<1> QED BY <1>1, <1>2 DEF Works

LEMMA FirstDifference ==
  ASSUME NEW a \in Int, NEW b \in Int, NEW c \in Int, NEW d \in Int,
         NEW e \in Int, NEW f \in Int, NEW g \in Int, NEW h \in Int
  PROVE  (\E i \in 1 .. 4 : /\ <<a, b, c, d>>[i] < <<e, f, g, h>>[i]
                            /\ \A j \in 1 .. i - 1 : <<a, b, c, d>>[j] = <<e, f, g, h>>[j])
         <=> \/ a < e
             \/ a = e /\ b < f
             \/ a = e /\ b = f /\ c < g
             \/ a = e /\ b = f /\ c = g /\ d < h
<1> DEFINE k == <<a, b, c, d>>
           l == <<e, f, g, h>>
           P(i) == k[i] < l[i] /\ \A j \in 1 .. i - 1 : k[j] = l[j]
<1>1. k[1] = a /\ k[2] = b /\ k[3] = c /\ k[4] = d
  OBVIOUS
<1>2. l[1] = e /\ l[2] = f /\ l[3] = g /\ l[4] = h
  OBVIOUS
<1> HIDE DEF k, l
<1>3. P(1) <=> a < e
  BY <1>1, <1>2
<1>4. P(2) <=> a = e /\ b < f
  <2>1. 1 .. 2 - 1 = {1}
    OBVIOUS
  <2> QED BY <1>1, <1>2, <2>1
<1>5. P(3) <=> a = e /\ b = f /\ c < g
  <2>1. 1 .. 3 - 1 = {1, 2}
    OBVIOUS
  <2> QED BY <1>1, <1>2, <2>1
<1>6. P(4) <=> a = e /\ b = f /\ c = g /\ d < h
  <2>1. 1 .. 4 - 1 = {1, 2, 3}
    OBVIOUS
  <2> QED BY <1>1, <1>2, <2>1
<1> HIDE DEF P
<1>7. (\E i \in 1 .. 4 : P(i)) <=> P(1) \/ P(2) \/ P(3) \/ P(4)
  <2>1. 1 .. 4 = {1, 2, 3, 4}
    OBVIOUS
  <2> QED BY Zenon, <2>1
<1>8. (\E i \in 1 .. 4 : P(i))
      <=> \/ a < e
          \/ a = e /\ b < f
          \/ a = e /\ b = f /\ c < g
          \/ a = e /\ b = f /\ c = g /\ d < h
  BY <1>3, <1>4, <1>5, <1>6, <1>7
<1> QED BY <1>8 DEF P, k, l

(* Before is a strict order in which any two requests compare.             *)
LEMMA BeforeIsOrder ==
  ASSUME NEW batch \in SUBSET Requests, NEW work \in [batch -> Works]
  PROVE  /\ \A r \in batch : ~Before(r, r, work)
         /\ \A q, r \in batch : q = r \/ Before(q, r, work) \/ Before(r, q, work)
         /\ \A p, q, r \in batch :
              Before(p, q, work) /\ Before(q, r, work) => Before(p, r, work)
<1> DEFINE A(x) == IF work[x].drafts = << >> THEN 1 ELSE 0
           B(x) == IF work[x].count = Width THEN 0 ELSE 1
           C(x) == work[x].count
<1>1. \A x \in batch : A(x) \in Int /\ B(x) \in Int /\ C(x) \in Int /\ x \in Int
  <2> TAKE x \in batch
  <2>1. work[x] \in Works
    OBVIOUS
  <2>2. work[x].count \in Int
    BY <2>1, WorkIs
  <2>3. x \in Int
    BY ForwardAssumption
  <2> QED BY <2>2, <2>3
<1>2. \A q, r \in batch :
        Before(q, r, work) <=>
          \/ A(q) < A(r)
          \/ A(q) = A(r) /\ B(q) < B(r)
          \/ A(q) = A(r) /\ B(q) = B(r) /\ C(q) < C(r)
          \/ A(q) = A(r) /\ B(q) = B(r) /\ C(q) = C(r) /\ q < r
  <2> TAKE q, r \in batch
  <2>1. Before(q, r, work) <=>
          \E i \in 1 .. 4 : /\ <<A(q), B(q), C(q), q>>[i] < <<A(r), B(r), C(r), r>>[i]
                            /\ \A j \in 1 .. i - 1 :
                                 <<A(q), B(q), C(q), q>>[j] = <<A(r), B(r), C(r), r>>[j]
    BY DEF Before
  <2> HIDE DEF A, B, C
  <2>2. A(q) \in Int /\ B(q) \in Int /\ C(q) \in Int /\ q \in Int
    BY <1>1
  <2>3. A(r) \in Int /\ B(r) \in Int /\ C(r) \in Int /\ r \in Int
    BY <1>1
  <2> QED BY <2>1, <2>2, <2>3, FirstDifference
<1> HIDE DEF A, B, C
<1>3. \A r \in batch : ~Before(r, r, work)
  BY <1>1, <1>2
<1>4. \A q, r \in batch : q = r \/ Before(q, r, work) \/ Before(r, q, work)
  <2> TAKE q, r \in batch
  <2>1. A(q) \in Int /\ B(q) \in Int /\ C(q) \in Int /\ q \in Int
    BY <1>1
  <2>2. A(r) \in Int /\ B(r) \in Int /\ C(r) \in Int /\ r \in Int
    BY <1>1
  <2> QED BY <1>2, <2>1, <2>2
<1>5. ASSUME NEW p \in batch, NEW q \in batch, NEW r \in batch,
             Before(p, q, work), Before(q, r, work)
      PROVE  Before(p, r, work)
  <2>1. A(p) \in Int /\ B(p) \in Int /\ C(p) \in Int /\ p \in Int
    BY <1>1
  <2>2. A(q) \in Int /\ B(q) \in Int /\ C(q) \in Int /\ q \in Int
    BY <1>1
  <2>3. A(r) \in Int /\ B(r) \in Int /\ C(r) \in Int /\ r \in Int
    BY <1>1
  <2> QED BY <1>2, <1>5, <2>1, <2>2, <2>3
<1> QED BY <1>3, <1>4, <1>5

Orders(order, batch) ==
  /\ order \in [1 .. Cardinality(batch) -> batch]
  /\ \A i, j \in 1 .. Cardinality(batch) : order[i] = order[j] => i = j
  /\ \A r \in batch : \E i \in 1 .. Cardinality(batch) : order[i] = r

(* The requests before a request are as many as its place is high: places  *)
(* differ, and so all are taken.                                           *)
LEMMA OrderIs ==
  ASSUME NEW batch \in SUBSET Requests, NEW work \in [batch -> Works]
  PROVE  Orders(BatchOrder(work), batch)
<1>1. IsFiniteSet(batch) /\ Cardinality(batch) \in Nat
  BY ForwardAssumption, FS_Subset, FS_CardinalityType
<1>2. PICK n \in Nat : n = Cardinality(batch)
  BY <1>1
<1> DEFINE below(r) == {q \in batch : Before(q, r, work)}
           rank == [r \in batch |-> Cardinality(below(r))]
<1>3. \A r \in batch : IsFiniteSet(below(r)) /\ below(r) \in SUBSET batch /\ r \notin below(r)
  BY <1>1, FS_Subset, BeforeIsOrder
<1>4. \A r \in batch : rank[r] \in 0 .. n - 1
  <2> TAKE r \in batch
  <2>1. Cardinality(below(r)) \in Nat /\ Cardinality(below(r)) <= n
    BY <1>1, <1>2, <1>3, FS_Subset, FS_CardinalityType
  <2>2. Cardinality(below(r)) # n
    BY <1>1, <1>2, <1>3, FS_Subset
  <2> QED BY <2>1, <2>2
<1>5. ASSUME NEW q \in batch, NEW r \in batch, Before(q, r, work)
      PROVE  rank[q] < rank[r]
  <2>1. below(q) \in SUBSET below(r)
    BY <1>5, BeforeIsOrder
  <2>2. below(q) # below(r)
    BY <1>3, <1>5
  <2>3. Cardinality(below(q)) <= Cardinality(below(r)) /\ Cardinality(below(q)) # Cardinality(below(r))
    BY <1>3, <2>1, <2>2, FS_Subset
  <2>4. rank[q] \in 0 .. n - 1 /\ rank[r] \in 0 .. n - 1
    BY <1>4
  <2> HIDE DEF below
  <2> QED BY <2>3, <2>4
<1>6. ASSUME NEW q \in batch, NEW r \in batch, rank[q] = rank[r]
      PROVE  q = r
  <2>1. rank[q] \in 0 .. n - 1 /\ rank[r] \in 0 .. n - 1
    BY <1>4
  <2> HIDE DEF rank
  <2>2. ~Before(q, r, work) /\ ~Before(r, q, work)
    BY <1>5, <1>6, <2>1
  <2> QED BY <2>2, BeforeIsOrder
<1>7. rank \in Injection(batch, 0 .. n - 1)
  <2>1. rank \in [batch -> 0 .. n - 1]
    BY <1>4
  <2>2. DOMAIN rank = batch
    OBVIOUS
  <2> HIDE DEF rank
  <2> QED BY <1>6, <2>1, <2>2 DEF Injection, IsInjective
<1>8. IsFiniteSet(0 .. n - 1) /\ Cardinality(0 .. n - 1) = n
  <2>1. 0 \in Int /\ n - 1 \in Int
    OBVIOUS
  <2>2. Cardinality(0 .. n - 1) = IF 0 > n - 1 THEN 0 ELSE n - 1 - 0 + 1
    BY <2>1, FS_Interval
  <2> QED BY <2>1, <2>2, FS_Interval
<1>9. rank \in Surjection(batch, 0 .. n - 1)
  <2> HIDE DEF rank
  <2> QED BY <1>2, <1>7, <1>8, FS_Injection
<1>10. \A k \in 0 .. n - 1 : \E r \in batch : rank[r] = k
  <2> HIDE DEF rank
  <2> QED BY <1>9 DEF Surjection
<1>11. PICK order : order = BatchOrder(work)
  OBVIOUS
<1> DEFINE place(r) == Cardinality({q \in DOMAIN work : Before(q, r, work)})
<1>12. order = [i \in 1 .. n |-> CHOOSE r \in DOMAIN work : place(r) = i - 1]
  <2>1. n = Cardinality(DOMAIN work)
    BY <1>2
  <2> HIDE DEF rank
  <2> QED BY <1>11, <2>1 DEF BatchOrder
<1>13. \A i \in 1 .. n : order[i] \in batch /\ rank[order[i]] = i - 1
  <2> TAKE i \in 1 .. n
  <2>1. \A r \in batch : place(r) = rank[r]
    OBVIOUS
  <2> HIDE DEF place, rank
  <2>2. i - 1 \in 0 .. n - 1
    OBVIOUS
  <2>3. \E r \in DOMAIN work : place(r) = i - 1
    BY <1>10, <2>1, <2>2
  <2>4. order[i] \in DOMAIN work /\ place(order[i]) = i - 1
    BY Zenon, <1>12, <2>3
  <2> QED BY <2>1, <2>4
<1> HIDE DEF place
<1> HIDE DEF rank
<1>14. order \in [1 .. n -> batch]
  BY <1>12, <1>13
<1>15. \A i, j \in 1 .. n : order[i] = order[j] => i = j
  BY <1>13
<1>16. ASSUME NEW r \in batch
       PROVE  \E i \in 1 .. n : order[i] = r
  <2>1. rank[r] \in 0 .. n - 1
    BY <1>4
  <2>2. PICK i \in 1 .. n : i = rank[r] + 1
    BY <2>1
  <2>3. order[i] \in batch /\ rank[order[i]] = rank[r]
    BY <1>13, <2>1, <2>2
  <2> QED BY <1>6, <2>3
<1> QED BY <1>2, <1>11, <1>14, <1>15, <1>16 DEF Orders

-----------------------------------------------------------------------------
(* Where the requests' tokens start.                                       *)

Sums(start, n, c) ==
  /\ start \in [0 .. n -> Nat]
  /\ start[0] = 0
  /\ \A i \in 1 .. n : start[i] = start[i - 1] + c[i]

LEMMA SumsExist ==
  ASSUME NEW n \in Nat, NEW c \in [1 .. n -> Nat]
  PROVE  \E start : Sums(start, n, c)
<1> DEFINE S == {m \in Nat : m <= n /\ ~ \E f : Sums(f, m, c)}
<1>1. SUFFICES ASSUME S # {} PROVE FALSE
  <2>1. n <= n
    OBVIOUS
  <2>2. n \notin S => \E f : Sums(f, n, c)
    BY Zenon, <2>1
  <2>3. S = {}
    BY <1>1
  <2> QED BY Zenon, <2>2, <2>3
<1>2. PICK m \in S : \A k \in S : m <= k
  <2>1. S \in SUBSET Nat
    OBVIOUS
  <2> HIDE DEF S
  <2>2. Min(S) \in S /\ \A k \in S : Min(S) <= k
    BY <1>1, <2>1, MinFact
  <2> QED BY <2>2
<1>3. CASE m = 0
  <2>1. PICK f : f = [i \in 0 .. 0 |-> 0]
    OBVIOUS
  <2>2. Sums(f, 0, c)
    BY <2>1 DEF Sums
  <2> QED BY <1>2, <1>3, <2>2
<1>4. CASE m # 0
  <2>1. m - 1 \in Nat /\ m - 1 <= n /\ m \in Nat /\ m <= n
    BY <1>2, <1>4
  <2>2. m - 1 \notin S
    BY <1>2, <2>1
  <2>3. PICK f : Sums(f, m - 1, c)
    BY <2>1, <2>2
  <2>4. /\ f \in [0 .. m - 1 -> Nat] /\ f[0] = 0
        /\ \A i \in 1 .. m - 1 : f[i] = f[i - 1] + c[i]
    BY <2>3 DEF Sums
  <2>5. PICK g : g = [i \in 0 .. m |-> IF i = m THEN f[m - 1] + c[m] ELSE f[i]]
    OBVIOUS
  <2>6. c[m] \in Nat
    BY <1>4, <2>1
  <2>7. g \in [0 .. m -> Nat]
    <3>1. \A i \in 0 .. m : i # m => i \in 0 .. m - 1
      BY <2>1
    <3>2. f[m - 1] \in Nat
      BY <2>1, <2>4
    <3> QED BY <2>4, <2>5, <2>6, <3>1, <3>2
  <2>8. g[0] = 0
    BY <1>4, <2>1, <2>4, <2>5
  <2>9. ASSUME NEW i \in 1 .. m
        PROVE  g[i] = g[i - 1] + c[i]
    <3>1. CASE i = m
      BY <2>1, <2>5, <3>1
    <3>2. CASE i # m
      <4>1. i \in 1 .. m - 1 /\ i \in 0 .. m /\ i - 1 \in 0 .. m /\ i - 1 # m
        BY <2>1, <3>2
      <4> QED BY <2>4, <2>5, <3>2, <4>1
    <3> QED BY <3>1, <3>2
  <2>10. Sums(g, m, c)
    BY <2>7, <2>8, <2>9 DEF Sums
  <2> QED BY <1>2, <2>10
<1> QED BY <1>3, <1>4

LEMMA SumsGrow ==
  ASSUME NEW n \in Nat, NEW c \in [1 .. n -> Nat], NEW start, Sums(start, n, c),
         NEW a \in 0 .. n, NEW b \in a .. n
  PROVE  start[a] <= start[b]
<1>1. /\ start \in [0 .. n -> Nat]
      /\ \A i \in 1 .. n : start[i] = start[i - 1] + c[i]
  BY DEF Sums
<1> DEFINE S == {m \in Nat : m \in a .. n /\ ~ (start[a] <= start[m])}
<1>2. SUFFICES ASSUME S # {} PROVE FALSE
  OBVIOUS
<1>3. PICK m \in S : \A k \in S : m <= k
  <2>1. S \in SUBSET Nat
    OBVIOUS
  <2> HIDE DEF S
  <2>2. Min(S) \in S /\ \A k \in S : Min(S) <= k
    BY <1>2, <2>1, MinFact
  <2> QED BY <2>2
<1>4. m \in a .. n /\ start[a] \in Nat /\ start[m] \in Nat
  BY <1>1, <1>3
<1>5. m # a
  BY <1>3, <1>4
<1>6. m - 1 \in a .. n /\ m - 1 \in Nat /\ m \in 1 .. n
  BY <1>4, <1>5
<1>7. start[a] <= start[m - 1]
  BY <1>3, <1>6
<1>8. start[m] = start[m - 1] + c[m] /\ c[m] \in Nat /\ start[m - 1] \in Nat
  BY <1>1, <1>6
<1>9. start[a] <= start[m]
  BY <1>4, <1>7, <1>8
<1> QED BY <1>3, <1>9

LEMMA StartsAre ==
  ASSUME NEW order, NEW work, NEW n \in Nat, Len(order) = n, NEW c \in [1 .. n -> Nat],
         \A i \in 1 .. n : work[order[i]].count = c[i]
  PROVE  Sums(Starts(order, work), n, c)
<1> DEFINE F(f) == [i \in 0 .. Len(order) |->
                      IF i = 0 THEN 0 ELSE f[i - 1] + work[order[i]].count]
<1>1. Starts(order, work) = CHOOSE f : f = F(f)
  BY DEF Starts
<1>2. PICK g : Sums(g, n, c)
  BY SumsExist
<1>3. /\ g \in [0 .. n -> Nat] /\ g[0] = 0
      /\ \A i \in 1 .. n : g[i] = g[i - 1] + c[i]
  BY <1>2 DEF Sums
<1>4. g = F(g)
  <2>1. \A i \in 0 .. n : g[i] = IF i = 0 THEN 0 ELSE g[i - 1] + work[order[i]].count
    <3> TAKE i \in 0 .. n
    <3>1. CASE i = 0
      BY <1>3, <3>1
    <3>2. CASE i # 0
      <4>1. i \in 1 .. n
        BY <3>2
      <4> QED BY <1>3, <3>2, <4>1
    <3> QED BY <3>1, <3>2
  <2> QED BY <1>3, <2>1
<1>5. PICK f : f = Starts(order, work)
  OBVIOUS
<1>6. f = F(f)
  <2> HIDE DEF F
  <2>1. \E h : h = F(h)
    BY <1>4
  <2>2. f = CHOOSE h : h = F(h)
    BY <1>1, <1>5
  <2> QED BY <2>1, <2>2
<1>7. /\ f = [i \in 0 .. n |-> f[i]] /\ f[0] = 0
      /\ \A i \in 1 .. n : f[i] = f[i - 1] + c[i]
  <2>1. \A i \in 0 .. n : f[i] = IF i = 0 THEN 0 ELSE f[i - 1] + work[order[i]].count
    BY <1>6
  <2>2. DOMAIN f = 0 .. n /\ f = [i \in DOMAIN f |-> f[i]]
    BY <1>6
  <2>3. f[0] = 0
    BY <2>1
  <2>4. \A i \in 1 .. n : f[i] = f[i - 1] + c[i]
    <3> TAKE i \in 1 .. n
    <3>1. i \in 0 .. n /\ i # 0
      OBVIOUS
    <3> QED BY <2>1, <3>1
  <2> QED BY <2>2, <2>3, <2>4
<1>8. f = g
  <2> DEFINE S == {m \in Nat : m \in 0 .. n /\ f[m] # g[m]}
  <2>1. S = {}
    <3>1. SUFFICES ASSUME S # {} PROVE FALSE
      OBVIOUS
    <3>2. PICK m \in S : \A k \in S : m <= k
      <4>1. S \in SUBSET Nat
        OBVIOUS
      <4> HIDE DEF S
      <4>2. Min(S) \in S /\ \A k \in S : Min(S) <= k
        BY <3>1, <4>1, MinFact
      <4> QED BY <4>2
    <3>3. m # 0
      BY <1>3, <1>7, <3>2
    <3>4. m \in 1 .. n /\ m - 1 \in 0 .. n /\ m - 1 \in Nat /\ m - 1 < m
      BY <3>2, <3>3
    <3>5. f[m - 1] = g[m - 1]
      BY <3>2, <3>4
    <3>6. f[m] = f[m - 1] + c[m] /\ g[m] = g[m - 1] + c[m]
      BY <1>3, <1>7, <3>4
    <3>7. f[m] # g[m]
      BY <3>2
    <3> QED BY <3>5, <3>6, <3>7
  <2>2. \A m \in 0 .. n : f[m] = g[m]
    BY <2>1
  <2> QED BY <1>3, <1>7, <2>2
<1> QED BY <1>2, <1>5, <1>8

-----------------------------------------------------------------------------
(* The requests: while a prompt is computed its text is the prompt; then   *)
(* the last token of the text is the only one that is not computed.        *)

SoundRequest(r) ==
  /\ req[r].slot # NullSlot
  /\ req[r].accepted \in 1 .. Width
  /\ Len(req[r].text) \in req[r].prompt .. MaxText
  /\ Prefilling(r) => Len(req[r].text) = req[r].prompt /\ req[r].accepted = 1
  /\ ~Prefilling(r) => Len(req[r].text) = req[r].computed + 1

RequestInv ==
  /\ req \in [Requests -> [text : Seq(Words), prompt : Nat, computed : Nat,
                           accepted : Nat, slot : Slots]]
  /\ \A r \in Requests : r \notin Live => req[r] = NoRequest
  /\ \A r \in Live : SoundRequest(r)
  /\ \A q, r \in Live : q # r => req[q].slot # req[r].slot

LEMMA SlotsAre == Slots \in SUBSET Nat /\ Cardinality(Requests) \in Nat
                  /\ Slots = 0 .. Cardinality(Requests)
BY ForwardAssumption, FS_CardinalityType DEF Slots, NullSlot

LEMMA WidthIs ==
  ASSUME conf \in Confs
  PROVE  Width \in Nat \ {0} /\ conf.drafts \in Nat /\ Width = conf.drafts + 1
BY ConfIs DEF Width, Configs

LEMMA RequestIs ==
  ASSUME RequestInv, NEW r \in Live
  PROVE  /\ r \in Requests
         /\ req[r].text \in Seq(Words) /\ Len(req[r].text) \in Nat
         /\ req[r].prompt \in Nat \ {0} /\ req[r].computed \in Nat
         /\ req[r].accepted \in Nat /\ req[r].slot \in Slots
         /\ req[r].computed <= Len(req[r].text)
         /\ SoundRequest(r)
<1>1. r \in Requests /\ req[r].prompt > 0
  BY DEF Live
<1>2. req[r] \in [text : Seq(Words), prompt : Nat, computed : Nat, accepted : Nat, slot : Slots]
  BY <1>1 DEF RequestInv
<1>3. SoundRequest(r)
  BY DEF RequestInv
<1>4. req[r].computed <= Len(req[r].text)
  BY <1>1, <1>2, <1>3 DEF SoundRequest, Prefilling
<1> QED BY <1>1, <1>2, <1>3, <1>4

(* What a forward is fed of a request: its computed text, then the tokens  *)
(* to compute.                                                             *)
FedShows(r, w, fed) ==
  /\ fed \in Seq(Words)
  /\ Len(fed) = req[r].computed + w.count
  /\ \A p \in 1 .. req[r].computed + w.count - Len(w.drafts) : fed[p] = req[r].text[p]
  /\ \A k \in 1 .. Len(w.drafts) : fed[req[r].computed + w.count - Len(w.drafts) + k] = w.drafts[k]

LEMMA FedIs ==
  ASSUME RequestInv, NEW r \in Live, NEW w \in Works, Suits(w, r)
  PROVE  /\ FedShows(r, w, Fed(r, w))
         /\ req[r].computed + w.count - Len(w.drafts) \in 1 .. Len(req[r].text)
         /\ req[r].computed <= req[r].computed + w.count - Len(w.drafts)
<1>1. PICK text : text = req[r].text
  OBVIOUS
<1>2. PICK n : n = req[r].computed + w.count - Len(w.drafts)
  OBVIOUS
<1>3. text \in Seq(Words) /\ Len(text) \in Nat /\ req[r].computed \in Nat /\ req[r].prompt \in Nat
  BY <1>1, RequestIs
<1>4. w.count \in Nat \ {0} /\ w.drafts \in Seq(Words) /\ Len(w.drafts) \in Nat
  BY WorkIs
<1>5. n \in 1 .. Len(text) /\ req[r].computed <= n
  <2>1. CASE Prefilling(r)
    <3>1. w.drafts = << >> /\ w.count <= req[r].prompt - req[r].computed /\ Len(w.drafts) = 0
      BY <2>1, WorkIs DEF Suits
    <3>2. Len(text) = req[r].prompt
      BY <1>1, <2>1, RequestIs DEF SoundRequest
    <3> QED BY <1>2, <1>3, <1>4, <3>1, <3>2
  <2>2. CASE ~Prefilling(r)
    <3>1. w.count = Len(w.drafts) + 1
      BY <2>2 DEF Suits
    <3>2. Len(text) = req[r].computed + 1
      BY <1>1, <2>2, RequestIs DEF SoundRequest
    <3> QED BY <1>2, <1>3, <1>4, <3>1, <3>2
  <2> QED BY <2>1, <2>2
<1>6. PICK head : head = SubSeq(text, 1, n)
  OBVIOUS
<1>7. head \in Seq(Words) /\ Len(head) = n /\ \A i \in 1 .. n : head[i] = text[i]
  <2>1. 1 \in 1 .. Len(text) + 1 /\ n \in 1 - 1 .. Len(text)
    BY <1>3, <1>5
  <2>2. Slices(head, Words, text, 1, n)
    BY <1>3, <1>6, <2>1, Slice
  <2>3. n - 1 + 1 = n /\ \A i \in 1 .. n : 1 + i - 1 = i
    BY <1>5
  <2> QED BY <2>2, <2>3 DEF Slices
<1>8. PICK drafts : drafts = w.drafts
  OBVIOUS
<1>9. PICK fed : fed = head \o drafts
  OBVIOUS
<1>10. Joins(fed, Words, head, drafts)
  BY <1>4, <1>7, <1>8, <1>9, Join
<1>11. /\ fed \in Seq(Words) /\ Len(fed) = n + Len(drafts)
       /\ \A i \in 1 .. n + Len(drafts) : fed[i] = IF i <= n THEN head[i] ELSE drafts[i - n]
  BY <1>7, <1>10 DEF Joins
<1>12. \A p \in 1 .. n : fed[p] = text[p]
  <2> TAKE p \in 1 .. n
  <2>1. p \in 1 .. n + Len(drafts) /\ p <= n
    BY <1>4, <1>5, <1>8
  <2> QED BY <1>7, <1>11, <2>1
<1>13. \A k \in 1 .. Len(drafts) : fed[n + k] = drafts[k]
  <2> TAKE k \in 1 .. Len(drafts)
  <2>1. n + k \in 1 .. n + Len(drafts) /\ ~ (n + k <= n) /\ (n + k) - n = k
    BY <1>4, <1>5, <1>8
  <2> QED BY <1>11, <2>1
<1>14. n + Len(drafts) = req[r].computed + w.count
  BY <1>2, <1>3, <1>4, <1>8
<1>15. Fed(r, w) = fed
  BY <1>1, <1>2, <1>6, <1>8, <1>9 DEF Fed
<1> QED BY <1>1, <1>2, <1>5, <1>8, <1>11, <1>12, <1>13, <1>14, <1>15 DEF FedShows

LEMMA TupleIs ==
  ASSUME NEW T, NEW n \in Nat, NEW y \in [1 .. n -> T]
  PROVE  y \in Seq(T) /\ Len(y) = n
OBVIOUS

(* What a forward leaves of a request: a part of what it was fed, and the  *)
(* token after it if the prompt is done.                                   *)
Leaves(r, w, end, x) ==
  /\ x.text \in Seq(Words) /\ x.prompt = req[r].prompt /\ x.slot = req[r].slot
  /\ x.accepted = end.kept + 1 /\ end.kept \in 0 .. Len(w.drafts)
  /\ x.computed = req[r].computed + w.count - Len(w.drafts) + end.kept
  /\ \A p \in 1 .. x.computed : x.text[p] = Fed(r, w)[p]
  /\ Len(x.text) = Len(req[r].text) + end.kept + IF Completes(r, w) THEN 1 ELSE 0
  /\ DOMAIN x = {"text", "prompt", "computed", "accepted", "slot"}
  /\ x = [text |-> x.text, prompt |-> x.prompt, computed |-> x.computed,
          accepted |-> x.accepted, slot |-> x.slot]

LEMMA AfterIs ==
  ASSUME RequestInv, conf \in Confs, NEW r \in Live, NEW w \in Works, Suits(w, r),
         NEW end \in Endings, Ends(end, r, w)
  PROVE  Leaves(r, w, end, After(r, w, end))
<1>1. PICK x : x = After(r, w, end)
  OBVIOUS
<1>2. PICK text, n, kept, some, next, drafts :
        /\ text = req[r].text /\ n = req[r].computed + w.count - Len(w.drafts)
        /\ kept = end.kept /\ next = end.next /\ drafts = w.drafts
        /\ some = SubSeq(drafts, 1, kept)
  OBVIOUS
<1>3. text \in Seq(Words) /\ Len(text) \in Nat /\ req[r].computed \in Nat /\ n \in 1 .. Len(text)
  BY <1>2, RequestIs, FedIs
<1>4. drafts \in Seq(Words) /\ Len(drafts) \in Nat /\ w.count \in Nat \ {0}
  BY <1>2, WorkIs
<1>5. kept \in 0 .. Len(drafts)
  <2>1. kept \in {0} \cup Numbers /\ kept <= Len(drafts)
    BY <1>2 DEF Endings, Ends
  <2>2. Numbers \subseteq Nat
    BY ConfIs DEF Numbers, Configs
  <2> QED BY <1>4, <2>1, <2>2
<1>6. next \in Seq(Words) /\ Len(next) = IF Completes(r, w) THEN 1 ELSE 0
  <2>1. next \in {<< >>} \cup [1 .. 1 -> Words]
    BY <1>2 DEF Endings
  <2>2. IF Completes(r, w) THEN next # << >> ELSE next = << >>
    BY <1>2 DEF Ends
  <2>3. CASE Completes(r, w)
    <3>1. next \in [1 .. 1 -> Words]
      BY <2>1, <2>2, <2>3
    <3> QED BY <2>3, <3>1, TupleIs
  <2>4. CASE ~Completes(r, w)
    <3>1. next = << >>
      BY <2>2, <2>4
    <3> QED BY <2>4, <3>1
  <2> QED BY <2>3, <2>4
<1>7. some \in Seq(Words) /\ Len(some) = kept /\ \A i \in 1 .. kept : some[i] = drafts[i]
  <2>1. 1 \in 1 .. Len(drafts) + 1 /\ kept \in 1 - 1 .. Len(drafts)
    BY <1>4, <1>5
  <2>2. Slices(some, Words, drafts, 1, kept)
    BY <1>2, <1>4, <2>1, Slice
  <2>3. kept - 1 + 1 = kept /\ \A i \in 1 .. kept : 1 + i - 1 = i
    BY <1>5
  <2> QED BY <2>2, <2>3 DEF Slices
<1>8. PICK longer, whole : longer = text \o some /\ whole = longer \o next
  OBVIOUS
<1>9. /\ longer \in Seq(Words) /\ Len(longer) = Len(text) + kept
      /\ \A i \in 1 .. Len(text) + kept : longer[i] = IF i <= Len(text) THEN text[i] ELSE some[i - Len(text)]
  <2>1. Joins(longer, Words, text, some)
    BY <1>3, <1>7, <1>8, Join
  <2> QED BY <1>7, <2>1 DEF Joins
<1>10. /\ whole \in Seq(Words) /\ Len(whole) = Len(text) + kept + Len(next)
       /\ \A i \in 1 .. Len(text) + kept : whole[i] = longer[i]
  <2>1. Joins(whole, Words, longer, next)
    BY <1>6, <1>8, <1>9, Join
  <2>2. \A i \in 1 .. Len(text) + kept : i \in 1 .. Len(longer) + Len(next) /\ i <= Len(longer)
    BY <1>3, <1>5, <1>6, <1>9
  <2> QED BY <1>9, <2>1, <2>2 DEF Joins
<1>11. /\ x.text = whole /\ x.computed = req[r].computed + w.count - Len(w.drafts) + kept
       /\ x.accepted = kept + 1 /\ x.prompt = req[r].prompt /\ x.slot = req[r].slot
       /\ DOMAIN x = {"text", "prompt", "computed", "accepted", "slot"}
       /\ x = [text |-> x.text, prompt |-> x.prompt, computed |-> x.computed,
               accepted |-> x.accepted, slot |-> x.slot]
  <2>1. req[r] \in [text : Seq(Words), prompt : Nat, computed : Nat, accepted : Nat, slot : Slots]
    BY RequestIs DEF RequestInv
  <2> QED BY <1>1, <1>2, <1>8, <2>1 DEF After
<1>12. PICK fed : fed = Fed(r, w)
  OBVIOUS
<1>13. /\ \A p \in 1 .. n : fed[p] = text[p]
       /\ \A k \in 1 .. Len(drafts) : fed[n + k] = drafts[k]
  <2>1. FedShows(r, w, fed)
    BY <1>12, FedIs
  <2> QED BY <1>2, <2>1 DEF FedShows
<1>14. kept > 0 => n = Len(text)
  <2>1. CASE Prefilling(r)
    <3>1. Len(drafts) = 0
      BY <1>2, <2>1, WorkIs DEF Suits
    <3> QED BY <1>5, <3>1
  <2>2. CASE ~Prefilling(r)
    <3>1. w.count = Len(w.drafts) + 1 /\ Len(text) = req[r].computed + 1
      BY <1>2, <2>2, RequestIs DEF Suits, SoundRequest
    <3> QED BY <1>2, <1>3, <1>4, <3>1
  <2> QED BY <2>1, <2>2
<1>15. \A p \in 1 .. n + kept : whole[p] = fed[p]
  <2> TAKE p \in 1 .. n + kept
  <2>1. CASE p <= n
    <3>1. p \in 1 .. n /\ p \in 1 .. Len(text) + kept /\ p <= Len(text)
      BY <1>3, <1>5, <2>1
    <3> QED BY <1>9, <1>10, <1>13, <3>1
  <2>2. CASE p > n
    <3>1. n = Len(text) /\ kept > 0
      BY <1>3, <1>5, <1>14, <2>2
    <3>2. PICK k \in 1 .. kept : k = p - n
      BY <1>3, <1>5, <2>2
    <3>3. /\ p = n + k /\ p \in 1 .. Len(text) + kept /\ ~ (p <= Len(text)) /\ p - Len(text) = k
          /\ k \in 1 .. Len(drafts)
      BY <1>3, <1>5, <2>2, <3>1, <3>2
    <3>4. whole[p] = some[k]
      BY <1>9, <1>10, <3>3
    <3> QED BY <1>7, <1>13, <3>2, <3>3, <3>4
  <2> QED BY <1>3, <1>5, <2>1, <2>2
<1>16. x.computed = n + kept
  BY <1>2, <1>11
<1> QED BY <1>1, <1>2, <1>5, <1>6, <1>10, <1>11, <1>12, <1>15, <1>16 DEF Leaves

Keeps(x) ==
  /\ x.accepted \in 1 .. Width
  /\ Len(x.text) \in x.prompt .. MaxText
  /\ x.computed < x.prompt => Len(x.text) = x.prompt /\ x.accepted = 1
  /\ ~(x.computed < x.prompt) => Len(x.text) = x.computed + 1

LEMMA AfterKeeps ==
  ASSUME RequestInv, conf \in Confs, NEW r \in Live, NEW w \in Works, Suits(w, r),
         Len(req[r].text) + Len(w.drafts) + (IF Completes(r, w) THEN 1 ELSE 0) <= MaxText,
         NEW end \in Endings, NEW x, Leaves(r, w, end, x)
  PROVE  Keeps(x) /\ x.computed \in Nat
<1>1. PICK more : more = IF Completes(r, w) THEN 1 ELSE 0
  OBVIOUS
<1>2. PICK len \in Nat, computed \in Nat, prompt \in Nat :
        len = Len(req[r].text) /\ computed = req[r].computed /\ prompt = req[r].prompt
  BY RequestIs
<1>3. PICK count \in Nat \ {0}, drafts \in Nat : count = w.count /\ drafts = Len(w.drafts)
  BY WorkIs
<1>4. more \in {0, 1} /\ (more = 1 <=> computed + count >= prompt)
  BY <1>1, <1>2, <1>3 DEF Completes
<1>5. PICK kept \in 0 .. drafts :
        /\ kept = end.kept /\ x.accepted = kept + 1 /\ x.prompt = prompt
        /\ x.computed = computed + count - drafts + kept
        /\ Len(x.text) = len + kept + more
  BY <1>1, <1>2, <1>3 DEF Leaves
<1>6. len + drafts + more <= MaxText
  BY <1>1, <1>2, <1>3
<1>7. len >= prompt /\ MaxText \in Nat
  <2>1. len \in prompt .. MaxText
    BY <1>2, RequestIs DEF SoundRequest
  <2> QED BY <2>1, ForwardAssumption
<1>8. Len(x.text) \in x.prompt .. MaxText
  <2>1. PICK m \in Nat : m = len + kept + more
    BY <1>4
  <2>2. m >= prompt /\ m <= MaxText
    BY <1>4, <1>6, <1>7, <2>1
  <2>3. m \in prompt .. MaxText
    BY <1>7, <2>2
  <2> QED BY <1>5, <2>1, <2>3
<1>9. CASE Prefilling(r)
  <2>1. drafts = 0 /\ count <= prompt - computed
    BY <1>2, <1>3, <1>9, WorkIs DEF Suits
  <2>2. len = prompt /\ computed < prompt
    BY <1>2, <1>9, RequestIs DEF SoundRequest, Prefilling
  <2>3. kept = 0 /\ x.computed = computed + count /\ x.accepted = 1
    BY <1>5, <2>1
  <2>4. Len(x.text) = prompt + more
    BY <1>4, <1>5, <2>2, <2>3
  <2>5. x.computed < x.prompt => Len(x.text) = x.prompt
    BY <1>4, <1>5, <2>3, <2>4
  <2>6. ~(x.computed < x.prompt) => Len(x.text) = x.computed + 1
    BY <1>4, <1>5, <2>1, <2>3, <2>4
  <2>7. x.accepted \in 1 .. Width /\ x.computed \in Nat
    BY <2>3, WidthIs
  <2> QED BY <1>8, <2>3, <2>5, <2>6, <2>7 DEF Keeps
<1>10. CASE ~Prefilling(r)
  <2>1. count = drafts + 1 /\ count <= Width
    BY <1>3, <1>10 DEF Suits
  <2>2. len = computed + 1 /\ ~(computed < prompt)
    BY <1>2, <1>10, RequestIs DEF SoundRequest, Prefilling
  <2>3. x.computed = computed + 1 + kept /\ more = 1
    BY <1>4, <1>5, <2>1, <2>2
  <2>4. Len(x.text) = x.computed + 1 /\ ~(x.computed < x.prompt) /\ x.computed \in Nat
    BY SMTT(20), <1>5, <2>2, <2>3
  <2>5. x.accepted \in 1 .. Width
    BY SMTT(20), <1>5, <2>1, WidthIs
  <2> QED BY <1>8, <2>4, <2>5 DEF Keeps
<1> QED BY <1>9, <1>10

(* One request fewer than there are leaves a row free.                     *)
LEMMA FreeSlot ==
  ASSUME RequestInv, Live # Requests
  PROVE  LET free == Slots \ ({NullSlot} \cup {req[q].slot : q \in Live})
         IN  Min(free) \in free
<1> DEFINE used == {req[q].slot : q \in Live}
           free == Slots \ ({NullSlot} \cup used)
<1>1. PICK n \in Nat : n = Cardinality(Requests)
  BY SlotsAre
<1>2. Slots = 0 .. n /\ Slots \in SUBSET Nat
  BY <1>1, SlotsAre
<1>3. Live \in SUBSET Requests
  BY DEF Live
<1>4. IsFiniteSet(Live) /\ Cardinality(Live) \in Nat /\ Cardinality(Live) < n
  <2>1. IsFiniteSet(Live) /\ Cardinality(Live) <= n /\ Cardinality(Live) # n
    BY <1>1, <1>3, ForwardAssumption, FS_Subset
  <2> QED BY <1>1, <2>1, FS_CardinalityType
<1>5. IsFiniteSet(used) /\ Cardinality(used) <= Cardinality(Live) /\ Cardinality(used) \in Nat
  <2>1. PICK f : f = [q \in Live |-> req[q].slot]
    OBVIOUS
  <2>2. f \in Surjection(Live, used)
    BY <2>1 DEF Surjection
  <2> QED BY <1>4, <2>2, FS_Surjection, FS_CardinalityType
<1>6. IsFiniteSet(1 .. n) /\ Cardinality(1 .. n) = n
  <2>1. 1 \in Int /\ n \in Int
    OBVIOUS
  <2>2. Cardinality(1 .. n) = IF 1 > n THEN 0 ELSE n - 1 + 1
    BY <2>1, FS_Interval
  <2> QED BY <2>1, <2>2, FS_Interval
<1>7. free # {}
  <2>1. SUFFICES ASSUME 1 .. n \in SUBSET used PROVE FALSE
    BY <1>2 DEF NullSlot
  <2> HIDE DEF used
  <2>2. n <= Cardinality(used)
    BY <1>5, <1>6, <2>1, FS_Subset
  <2> QED BY <1>4, <1>5, <2>2
<1>8. free \in SUBSET Nat
  BY <1>2
<1> HIDE DEF free
<1>9. Min(free) \in free
  BY <1>7, <1>8, MinFact
<1> QED BY <1>9 DEF free

LEMMA RequestInvStep ==
  ASSUME CaptureInv, RequestInv, [Next]_vars
  PROVE  RequestInv'
<1> DEFINE Record == [text : Seq(Words), prompt : Nat, computed : Nat, accepted : Nat, slot : Slots]
<1>1. req \in [Requests -> Record] /\ conf \in Confs
  BY DEF RequestInv, CaptureInv
<1>a. ASSUME UNCHANGED <<conf, req>>
      PROVE  RequestInv'
  BY <1>a DEF RequestInv, Live, SoundRequest, Prefilling, Width
<1>2. CASE CaptureGraph \/ CaptureDone \/ DummyRun \/ UNCHANGED vars
  BY <1>2, <1>a DEF CaptureGraph, CaptureDone, DummyRun, vars
<1>3. ASSUME NEW r \in Requests, Add(r)
      PROVE  RequestInv'
  <2>1. r \notin Live /\ Live # Requests /\ conf' = conf
    <3>1. Live # Requests /\ r = Min(Requests \ Live) /\ conf' = conf
      BY <1>3 DEF Add
    <3>2. Requests \ Live \in SUBSET Nat /\ Requests \ Live # {}
      BY <3>1, ForwardAssumption DEF Live
    <3>3. Min(Requests \ Live) \in Requests \ Live
      BY <3>2, MinFact
    <3> QED BY <3>1, <3>3
  <2>2. PICK n, text, slot :
          /\ n \in 1 .. MaxPrompt
          /\ text \in [1 .. n -> Words]
          /\ slot = Min(Slots \ ({NullSlot} \cup {req[q].slot : q \in Live}))
          /\ req' = [req EXCEPT ![r] = [text |-> text, prompt |-> n, computed |-> 0,
                                        accepted |-> 1, slot |-> slot]]
    <3>1. PICK n \in 1 .. MaxPrompt : \E text \in {t \in [1 .. n -> Words] : Bounded(t)} :
            req' = [req EXCEPT ![r] =
                      [text |-> text, prompt |-> n, computed |-> 0, accepted |-> 1,
                       slot |-> Min(Slots \ ({NullSlot} \cup {req[q].slot : q \in Live}))]]
      BY <1>3 DEF Add
    <3> QED BY <3>1
  <2>3. slot \in Slots /\ slot # NullSlot /\ \A q \in Live : req[q].slot # slot
    BY <2>1, <2>2, FreeSlot
  <2>4. n \in Nat \ {0} /\ n <= MaxText /\ text \in Seq(Words) /\ Len(text) = n
    <3>1. n \in Nat \ {0} /\ n <= MaxText
      BY <2>2, ForwardAssumption
    <3>2. n \in Nat /\ text \in [1 .. n -> Words]
      BY <2>2, <3>1
    <3> QED BY <3>1, <3>2, TupleIs
  <2>5. PICK x : x = [text |-> text, prompt |-> n, computed |-> 0, accepted |-> 1, slot |-> slot]
    OBVIOUS
  <2>6. x \in Record
    BY <2>3, <2>4, <2>5
  <2>7. req' \in [Requests -> Record] /\ req'[r] = x /\ \A q \in Requests : q # r => req'[q] = req[q]
    BY <1>1, <2>2, <2>5, <2>6
  <2> HIDE DEF Record
  <2>8. Live' = Live \cup {r}
    <3>1. x.prompt > 0
      BY <2>4, <2>5
    <3> QED BY <2>7, <3>1 DEF Live
  <2>9. Width' = Width
    BY <2>1 DEF Width
  <2>10. ASSUME NEW q \in Live'
         PROVE  SoundRequest(q)'
    <3>1. CASE q = r
      <4>1. /\ req'[q].slot = slot /\ req'[q].accepted = 1 /\ req'[q].prompt = n
            /\ req'[q].computed = 0 /\ req'[q].text = text
        BY <2>5, <2>7, <3>1
      <4>2. 1 \in 1 .. Width
        BY <1>1, WidthIs
      <4> QED BY <2>3, <2>4, <2>9, <4>1, <4>2, ForwardAssumption DEF SoundRequest, Prefilling
    <3>2. CASE q # r
      <4>1. q \in Live /\ req'[q] = req[q]
        BY <2>7, <2>8, <3>2 DEF Live
      <4>2. SoundRequest(q)
        BY <4>1 DEF RequestInv
      <4> QED BY <2>9, <4>1, <4>2 DEF SoundRequest, Prefilling
    <3> QED BY <3>1, <3>2
  <2>11. ASSUME NEW p \in Live', NEW q \in Live', p # q
         PROVE  req'[p].slot # req'[q].slot
    <3>1. \A s \in Live : s # r /\ req'[s] = req[s]
      BY <2>1, <2>7 DEF Live
    <3>2. req'[r].slot = slot
      BY <2>5, <2>7
    <3>3. \A s, t \in Live : s # t => req[s].slot # req[t].slot
      BY DEF RequestInv
    <3> QED BY <2>3, <2>8, <2>11, <3>1, <3>2, <3>3
  <2>12. \A q \in Requests : q \notin Live' => req'[q] = NoRequest
    BY <2>7, <2>8 DEF RequestInv
  <2> QED BY <2>7, <2>10, <2>11, <2>12 DEF RequestInv, Record
<1>4. ASSUME NEW r \in Requests, Finish(r)
      PROVE  RequestInv'
  <2>1. r \in Live /\ req' = [req EXCEPT ![r] = NoRequest] /\ conf' = conf
    BY <1>4 DEF Finish
  <2>2. NoRequest \in Record
    BY SlotsAre DEF NoRequest, NullSlot
  <2>3. req' \in [Requests -> Record] /\ req'[r] = NoRequest
        /\ \A q \in Requests : q # r => req'[q] = req[q]
    BY <1>1, <2>1, <2>2
  <2> HIDE DEF Record
  <2>4. Live' = Live \ {r}
    BY <2>3 DEF Live, NoRequest
  <2>5. Width' = Width
    BY <2>1 DEF Width
  <2>6. \A q \in Live' : q \in Live /\ q # r /\ req'[q] = req[q]
    BY <2>3, <2>4 DEF Live
  <2>7. ASSUME NEW q \in Live'
        PROVE  SoundRequest(q)'
    <3>1. SoundRequest(q)
      BY <2>6 DEF RequestInv
    <3> QED BY <2>5, <2>6, <3>1 DEF SoundRequest, Prefilling
  <2>8. \A q \in Requests : q \notin Live' => req'[q] = NoRequest
    BY <2>3, <2>4 DEF RequestInv
  <2>9. \A p, q \in Live' : p # q => req'[p].slot # req'[q].slot
    BY <2>6 DEF RequestInv
  <2> QED BY <2>3, <2>7, <2>8, <2>9 DEF RequestInv, Record
<1>5. CASE Step
  <2>1. PICK batch, work, end :
          /\ batch \in SUBSET Live
          /\ work \in [batch -> Works] /\ end \in [batch -> Endings]
          /\ Schedulable(work)
          /\ \A r \in batch : Ends(end[r], r, work[r])
          /\ req' = [r \in Requests |-> IF r \in batch THEN After(r, work[r], end[r]) ELSE req[r]]
    <3>1. PICK batch \in (SUBSET Live) \ {{}} : \E work \in [batch -> Works] :
            /\ Schedulable(work)
            /\ \E end \in [batch -> Endings] :
                 /\ \A r \in batch : Ends(end[r], r, work[r])
                 /\ req' = [r \in Requests |-> IF r \in batch THEN After(r, work[r], end[r]) ELSE req[r]]
      BY <1>5 DEF Step
    <3> QED BY <3>1
  <2>2. conf' = conf /\ Width' = Width
    BY <1>5 DEF Step, Width
  <2>3. ASSUME NEW r \in batch
        PROVE  Leaves(r, work[r], end[r], req'[r]) /\ Keeps(req'[r]) /\ req'[r].computed \in Nat
               /\ r \in Live
    <3>1. /\ r \in Live /\ r \in Requests /\ work[r] \in Works /\ end[r] \in Endings
          /\ Ends(end[r], r, work[r]) /\ req'[r] = After(r, work[r], end[r])
      BY <2>1, <2>3 DEF Live
    <3>2. /\ Suits(work[r], r)
          /\ Len(req[r].text) + (Len(work[r].drafts) + IF Completes(r, work[r]) THEN 1 ELSE 0)
               <= MaxText
      BY <2>1, <2>3 DEF Schedulable
    <3>3. PICK a \in Nat, b \in Nat, c \in {0, 1} :
            /\ a = Len(req[r].text) /\ b = Len(work[r].drafts)
            /\ c = IF Completes(r, work[r]) THEN 1 ELSE 0
      BY <3>1, RequestIs, WorkIs
    <3>4. a + b + c <= MaxText
      <4>1. a + (b + c) <= MaxText
        BY <3>2, <3>3
      <4>2. a + (b + c) = a + b + c
        OBVIOUS
      <4> QED BY <4>1, <4>2
    <3>5. Leaves(r, work[r], end[r], req'[r])
      BY <1>1, <3>1, <3>2, AfterIs
    <3> QED BY <1>1, <3>1, <3>2, <3>3, <3>4, <3>5, AfterKeeps
  <2>4. \A r \in Requests : r \notin batch => req'[r] = req[r]
    BY <2>1
  <2>5. \A r \in batch : /\ req'[r].slot = req[r].slot /\ req'[r].prompt = req[r].prompt
                         /\ r \in Live /\ r \in Requests
    BY <2>3 DEF Leaves, Live
  <2>6. ASSUME NEW r \in batch
        PROVE  req'[r] \in Record
    <3>1. PICK x : x = req'[r]
      OBVIOUS
    <3>2. /\ x.text \in Seq(Words) /\ x.prompt = req[r].prompt /\ x.slot = req[r].slot
          /\ x = [text |-> x.text, prompt |-> x.prompt, computed |-> x.computed,
                  accepted |-> x.accepted, slot |-> x.slot]
      BY <2>3, <3>1 DEF Leaves
    <3>3. x.computed \in Nat /\ x.accepted \in Nat
      BY <1>1, <2>3, <3>1, WidthIs DEF Keeps
    <3>4. x.prompt \in Nat /\ x.slot \in Slots
      BY <2>5, <3>2, RequestIs
    <3> QED BY <3>1, <3>2, <3>3, <3>4
  <2> HIDE DEF Record
  <2>7. req' \in [Requests -> Record]
    <3>1. \A r \in Requests : req'[r] \in Record
      BY <1>1, <2>4, <2>6
    <3>2. DOMAIN req' = Requests /\ req' = [r \in Requests |-> req'[r]]
      BY <2>1
    <3> QED BY <3>1, <3>2
  <2>8. Live' = Live
    BY <2>4, <2>5 DEF Live
  <2>9. ASSUME NEW r \in Live
        PROVE  SoundRequest(r)'
    <3>1. r \in Requests /\ SoundRequest(r)
      BY RequestIs
    <3>2. CASE r \in batch
      <4>1. Keeps(req'[r]) /\ req'[r].slot = req[r].slot
        BY <2>3, <2>5, <3>2
      <4> QED BY <2>2, <3>1, <4>1 DEF SoundRequest, Keeps, Prefilling
    <3>3. CASE r \notin batch
      BY <2>2, <2>4, <3>1, <3>3 DEF SoundRequest, Prefilling
    <3> QED BY <3>2, <3>3
  <2>10. \A r \in Requests : r \notin Live' => req'[r] = NoRequest
    BY <2>4, <2>5, <2>8 DEF RequestInv
  <2>11. \A q, r \in Live' : q # r => req'[q].slot # req'[r].slot
    <3>1. \A r \in Live : req'[r].slot = req[r].slot
      BY <2>4, <2>5 DEF Live
    <3> QED BY <2>8, <3>1 DEF RequestInv
  <2> QED BY <2>7, <2>8, <2>9, <2>10, <2>11 DEF RequestInv, Record
<1> QED BY <1>2, <1>3, <1>4, <1>5 DEF Next

-----------------------------------------------------------------------------
(* A batch as it is run.                                                   *)

LEMMA ShapeReqs ==
  ASSUME NEW c \in Confs, NEW d \in CaptureDescs(c)
  PROVE  d.reqs \in Nat /\ (d.mode = "FULL" => d.reqs \in 1 .. c.maxReqs)
<1>1. c \in Configs /\ Consistent(c) /\ c.maxReqs \in Nat \ {0}
  BY ConfIs DEF Configs
<1>2. d.tokens \in Nat \ {0}
  <2>1. d.tokens \in 1 .. c.maxSize
    BY ShapeIs
  <2> QED BY <2>1
<1>3. CASE d \in UniformDescs(c)
  <2>1. d.reqs \in Nat /\ d.tokens = d.reqs * d.uniform /\ d.reqs <= c.maxReqs
        /\ d.uniform \in c.decodeLens
    BY <1>1, <1>3, UniformShape
  <2>2. d.uniform \in Nat \ {0}
    BY <1>1, <2>1 DEF Configs
  <2>3. d.reqs # 0
    BY <1>2, <2>1, <2>2
  <2> QED BY <1>1, <2>1, <2>3
<1>4. CASE d \in VarlenDescs(c)
  <2>1. PICK n \in c.sizes, l \in c.loraCases :
          d = Desc(c.decodeMode, n, Min({n, c.maxReqs}), 0, c.queryLen, l)
    BY <1>4, VarlenIs
  <2>2. n \in Nat \ {0} /\ d.reqs = Min({n, c.maxReqs})
    BY <1>1, <2>1 DEF Configs, Desc
  <2> QED BY <1>1, <2>2, MinOfTwo
<1>5. CASE d \in MixedDescs(c)
  <2>1. PICK n \in c.sizes, l \in c.loraCases :
          d = Desc(c.mixedMode, n, MixedReqs(c, n), 0, 0, l)
    BY <1>5 DEF MixedDescs
  <2>2. n \in Nat \ {0} /\ d.reqs = MixedReqs(c, n) /\ d.mode = c.mixedMode
    BY <1>1, <2>1 DEF Configs, Desc
  <2>3. Min({n, c.maxReqs}) \in 1 .. c.maxReqs
    BY <1>1, <2>2, MinOfTwo
  <2> QED BY <1>1, <2>2, <2>3 DEF MixedReqs
<1> QED BY <1>3, <1>4, <1>5 DEF CaptureDescs, DecodeDescs

Batched(batch, work, desc) ==
  /\ captured
  /\ batch \in (SUBSET Live) \ {{}}
  /\ work \in [batch -> Works]
  /\ Schedulable(work)
  /\ desc \in Dispatch(conf, descs, captured, Batch(work))

(* The requests of a batch lie one after the other in it.                  *)
Lies(work, n, order, starts) ==
  /\ n \in Nat \ {0}
  /\ order \in [1 .. n -> Live] /\ Len(order) = n
  /\ \A i \in 1 .. n : /\ order[i] \in Requests /\ order[i] \in DOMAIN work
                       /\ work[order[i]] \in Works /\ Suits(work[order[i]], order[i])
                       /\ work[order[i]].count \in Nat \ {0}
  /\ \A i, j \in 1 .. n : order[i] = order[j] => i = j
  /\ starts \in [0 .. n -> Nat] /\ starts[0] = 0
  /\ \A i \in 1 .. n : starts[i] = starts[i - 1] + work[order[i]].count
  /\ \A a, b \in 0 .. n : a <= b => starts[a] <= starts[b]

LEMMA BatchLies ==
  ASSUME RequestInv, NEW batch, NEW work, NEW desc, Batched(batch, work, desc)
  PROVE  LET order == BatchOrder(work) IN
         /\ Lies(work, Cardinality(batch), order, Starts(order, work))
         /\ DOMAIN work = batch
         /\ \A r \in batch : \E i \in 1 .. Cardinality(batch) : order[i] = r
<1>1. /\ batch \in SUBSET Live /\ batch # {} /\ work \in [batch -> Works] /\ Schedulable(work)
      /\ batch \in SUBSET Requests
  BY DEF Batched, Live
<1>2. PICK n : n = Cardinality(batch)
  OBVIOUS
<1>3. IsFiniteSet(batch) /\ n \in Nat \ {0}
  BY <1>1, <1>2, ForwardAssumption, FS_Subset, FS_CardinalityType, FS_EmptySet
<1>4. PICK order : order = BatchOrder(work)
  OBVIOUS
<1>5. /\ order \in [1 .. n -> batch]
      /\ \A i, j \in 1 .. n : order[i] = order[j] => i = j
      /\ \A r \in batch : \E i \in 1 .. n : order[i] = r
  BY <1>1, <1>2, <1>4, OrderIs DEF Orders
<1>6. Len(order) = n
  BY <1>3, <1>5
<1>7. \A i \in 1 .. n : /\ order[i] \in Requests /\ order[i] \in DOMAIN work
                        /\ work[order[i]] \in Works /\ Suits(work[order[i]], order[i])
                        /\ work[order[i]].count \in Nat \ {0}
  <2> TAKE i \in 1 .. n
  <2>1. order[i] \in batch
    BY <1>5
  <2>2. work[order[i]] \in Works
    BY <1>1, <2>1
  <2>3. Suits(work[order[i]], order[i])
    BY <1>1, <2>1 DEF Schedulable
  <2>4. DOMAIN work = batch
    BY <1>1
  <2> QED BY <1>1, <2>1, <2>2, <2>3, <2>4, WorkIs
<1>8. PICK c : c = [i \in 1 .. n |-> work[order[i]].count]
  OBVIOUS
<1>9. c \in [1 .. n -> Nat]
  BY <1>7, <1>8
<1>10. PICK starts : starts = Starts(order, work)
  OBVIOUS
<1>11. Sums(starts, n, c)
  <2>1. \A i \in 1 .. n : work[order[i]].count = c[i]
    BY <1>8
  <2> QED BY <1>3, <1>6, <1>9, <1>10, <2>1, StartsAre
<1>12. \A a, b \in 0 .. n : a <= b => starts[a] <= starts[b]
  <2> TAKE a, b \in 0 .. n
  <2>1. SUFFICES ASSUME a <= b PROVE starts[a] <= starts[b]
    OBVIOUS
  <2>2. b \in a .. n /\ n \in Nat
    BY <1>3, <2>1
  <2> QED BY <1>9, <1>11, <2>2, SumsGrow
<1>13. /\ starts \in [0 .. n -> Nat] /\ starts[0] = 0
       /\ \A i \in 1 .. n : starts[i] = starts[i - 1] + work[order[i]].count
  BY <1>8, <1>11 DEF Sums
<1>14. order \in [1 .. n -> Live]
  BY <1>1, <1>5
<1>15. Lies(work, n, order, starts)
  BY <1>3, <1>5, <1>6, <1>7, <1>12, <1>13, <1>14 DEF Lies
<1>16. DOMAIN work = batch
  BY <1>1
<1> QED BY <1>2, <1>4, <1>5, <1>10, <1>15, <1>16

(* The shape that runs a batch holds it and fits the buffers.              *)
Holds(desc, n, tokens) ==
  /\ desc.tokens \in Nat /\ tokens <= desc.tokens /\ desc.tokens <= MaxWidth
  /\ desc.reqs \in Nat /\ (desc.reqs = 0 \/ n <= desc.reqs)
  /\ desc.mode = "FULL" => desc.reqs \in 1 .. conf.maxReqs

LEMMA ShapeHolds ==
  ASSUME CaptureInv, RequestInv, NEW batch, NEW work, NEW desc, Batched(batch, work, desc)
  PROVE  LET order == BatchOrder(work) IN
         Holds(desc, Cardinality(batch), Starts(order, work)[Cardinality(batch)])
<1>1. PICK n, order, starts : /\ n = Cardinality(batch) /\ order = BatchOrder(work)
                              /\ starts = Starts(order, work)
  OBVIOUS
<1>2. Lies(work, n, order, starts) /\ DOMAIN work = batch
  BY <1>1, BatchLies
<1>3. n \in Nat \ {0} /\ starts[n] \in Nat
  BY <1>2 DEF Lies
<1>4. Tokens(work) = starts[n]
  BY <1>1, <1>2 DEF Tokens
<1>5. starts[n] <= MaxWidth /\ MaxWidth \in Nat
  BY <1>4, ForwardAssumption DEF Batched, Schedulable
<1>6. PICK b : b = Batch(work)
  OBVIOUS
<1>7. b.tokens = starts[n] /\ b.reqs = n
  BY <1>1, <1>2, <1>4, <1>6 DEF Batch
<1>8. PICK l : l = EffectiveLoras(conf, b.loras)
  OBVIOUS
<1>9. desc \in Dispatch(conf, descs, captured, b)
  BY <1>6 DEF Batched
<1>10. CASE desc \in Candidates(descs, b, l) /\ Compatible(desc, b, l)
  <2>1. desc \in CaptureDescs(conf) /\ conf \in Confs
    BY <1>10 DEF Candidates, CaptureInv
  <2>2. desc.tokens >= b.tokens /\ (desc.reqs = 0 \/ desc.reqs >= b.reqs)
    BY <1>10 DEF Compatible
  <2>3. desc.tokens \in 1 .. conf.maxSize /\ conf.maxSize <= MaxWidth /\ conf.maxSize \in Nat
    BY <2>1, ShapeIs, ConfIs DEF Consistent, Configs
  <2>4. desc.reqs \in Nat /\ (desc.mode = "FULL" => desc.reqs \in 1 .. conf.maxReqs)
    BY <2>1, ShapeReqs
  <2>5. desc.tokens \in Nat /\ starts[n] <= desc.tokens /\ desc.tokens <= MaxWidth
    BY <1>3, <1>5, <1>7, <2>2, <2>3
  <2>6. desc.reqs = 0 \/ n <= desc.reqs
    BY <1>3, <1>7, <2>2, <2>4
  <2> QED BY <1>1, <2>4, <2>5, <2>6 DEF Holds
<1>11. CASE desc = Desc("NONE", b.tokens, b.reqs, 0, 0, l)
  BY <1>1, <1>3, <1>5, <1>7, <1>11 DEF Desc, Holds
<1> QED BY <1>8, <1>9, <1>10, <1>11, Chosen

(* The text of a request up to the k-th token of the forward.              *)
Seen(r, w, k) == SubSeq(Fed(r, w), 1, req[r].computed + k)

(* The input of a token: its request and the text up to it.                *)
InputShows(order, work, starts, count, i, k) ==
  /\ starts[i - 1] + k \in 1 .. count
  /\ Inputs(order, work, starts, count)[starts[i - 1] + k]
       = <<order[i]>> \o Seen(order[i], work[order[i]], k)

LEMMA InputIs ==
  ASSUME RequestInv, NEW work, NEW n, NEW order, NEW starts, Lies(work, n, order, starts),
         NEW count \in Nat, starts[n] <= count,
         NEW i \in 1 .. n, NEW k \in 1 .. work[order[i]].count
  PROVE  InputShows(order, work, starts, count, i, k)
<1>1. n \in Nat \ {0}
  BY DEF Lies
<1>2. /\ n \in Nat \ {0} /\ Len(order) = n /\ DOMAIN order = 1 .. n
      /\ starts \in [0 .. n -> Nat]
      /\ \A j \in 1 .. n : starts[j] = starts[j - 1] + work[order[j]].count
      /\ \A a, b \in 0 .. n : a <= b => starts[a] <= starts[b]
      /\ work[order[i]].count \in Nat \ {0}
  BY DEF Lies
<1>3. PICK p : p = starts[i - 1] + k
  OBVIOUS
<1>4. /\ i - 1 \in 0 .. n /\ i \in 0 .. n /\ n \in 0 .. n /\ i <= n
      /\ starts[i - 1] \in Nat /\ starts[i] \in Nat /\ starts[n] \in Nat
  BY <1>2
<1>5. starts[i] = starts[i - 1] + work[order[i]].count /\ starts[i] <= starts[n]
  BY <1>2, <1>4
<1>6. p \in starts[i - 1] + 1 .. starts[i] /\ p \in 1 .. count /\ ~(p > starts[n])
  <2>1. PICK a \in Nat, b \in Nat, m \in Nat, c \in Nat \ {0} :
          /\ a = starts[i - 1] /\ b = starts[i] /\ m = starts[n] /\ c = work[order[i]].count
    BY <1>2, <1>4
  <2>2. b = a + c /\ b <= m /\ m <= count /\ p = a + k /\ k \in 1 .. c
    BY <1>3, <1>5, <2>1
  <2> QED BY <2>1, <2>2
<1>7. ASSUME NEW j \in 1 .. n, p \in starts[j - 1] + 1 .. starts[j]
      PROVE  j = i
  <2>1. /\ j - 1 \in 0 .. n /\ j \in 0 .. n
        /\ starts[j - 1] \in Nat /\ starts[j] \in Nat
    <3>1. j - 1 \in 0 .. n /\ j \in 0 .. n
      BY <1>1
    <3> QED BY <1>2, <3>1
  <2>2. CASE j < i
    <3>1. starts[j] <= starts[i - 1]
      BY <1>2, <1>4, <2>1, <2>2
    <3> QED BY <1>4, <1>6, <1>7, <2>1, <3>1
  <2>3. CASE j > i
    <3>1. starts[i] <= starts[j - 1]
      BY <1>2, <1>4, <2>1, <2>3
    <3> QED BY <1>4, <1>6, <1>7, <2>1, <3>1
  <2> QED BY <2>2, <2>3
<1>8. (CHOOSE j \in DOMAIN order : p \in starts[j - 1] + 1 .. starts[j]) = i
  BY <1>2, <1>6, <1>7
<1>9. p - starts[i - 1] = k
  BY <1>3, <1>4
<1>10. req[order[i]].computed + p - starts[i - 1] = req[order[i]].computed + k
  <2>1. req[order[i]].computed \in Nat
    BY RequestIs DEF Lies
  <2> QED BY <1>3, <1>4, <2>1
<1>11. Inputs(order, work, starts, count)[p]
         = <<order[i]>> \o SubSeq(Fed(order[i], work[order[i]]), 1,
                                  req[order[i]].computed + p - starts[i - 1])
  <2>1. Inputs(order, work, starts, count)[p]
          = LET j == CHOOSE j \in DOMAIN order : p \in starts[j - 1] + 1 .. starts[j]
                r == order[j]
            IN  <<r>> \o SubSeq(Fed(r, work[r]), 1, req[r].computed + p - starts[j - 1])
    BY <1>2, <1>6 DEF Inputs
  <2> QED BY <1>8, <2>1
<1> QED BY <1>3, <1>6, <1>10, <1>11 DEF InputShows, Seen

-----------------------------------------------------------------------------
(* The n-grams of a batch.                                                 *)

LEMMA PaddedIs ==
  ASSUME NEW work, NEW n, NEW order, NEW starts, Lies(work, n, order, starts),
         NEW rows \in Nat, n <= rows, NEW all, all = Padded(starts, n, rows)
  PROVE  /\ Ragged(all, rows) /\ all[rows] = starts[n]
         /\ \A i \in 0 .. n : all[i] = starts[i]
<1>1. /\ n \in Nat \ {0} /\ starts \in [0 .. n -> Nat] /\ starts[0] = 0
      /\ \A a, b \in 0 .. n : a <= b => starts[a] <= starts[b]
  BY DEF Lies
<1>2. all = [i \in 0 .. rows |-> IF i <= n THEN starts[i] ELSE starts[n]]
  BY DEF Padded
<1>3. \A i \in 0 .. n : all[i] = starts[i]
  BY <1>1, <1>2
<1>4. all[rows] = starts[n]
  BY <1>1, <1>2
<1>5. all \in [0 .. rows -> Nat]
  <2>1. \A i \in 0 .. rows : i <= n => i \in 0 .. n
    BY <1>1
  <2>2. n \in 0 .. n
    BY <1>1
  <2> QED BY <1>1, <1>2, <2>1, <2>2
<1>6. ASSUME NEW a \in 0 .. rows, NEW b \in 0 .. rows, a <= b
      PROVE  all[a] <= all[b]
  <2>1. n \in 0 .. n /\ starts[n] \in Nat
    BY <1>1
  <2>2. CASE b <= n
    <3>1. a \in 0 .. n /\ b \in 0 .. n
      BY <1>1, <1>6, <2>2
    <3> QED BY <1>1, <1>3, <1>6, <3>1
  <2>3. CASE ~(b <= n) /\ a <= n
    <3>1. a \in 0 .. n /\ all[b] = starts[n]
      BY <1>1, <1>2, <2>3
    <3> QED BY <1>1, <1>3, <2>1, <2>3, <3>1
  <2>4. CASE ~(b <= n) /\ ~(a <= n)
    <3>1. all[a] = starts[n] /\ all[b] = starts[n]
      BY <1>2, <2>4
    <3> QED BY <2>1, <3>1
  <2> QED BY <2>2, <2>3, <2>4
<1>7. all[0] = 0
  BY <1>1, <1>3
<1> QED BY <1>3, <1>4, <1>5, <1>6, <1>7 DEF Ragged

(* Contexts and n-grams look back only.                                    *)
LEMMA ContextLooksBack ==
  ASSUME NEW a, NEW b, NEW computed \in Nat, \A p \in 1 .. computed : a[p] = b[p]
  PROVE  Context(a, computed) = Context(b, computed)
<1>1. ContextLen \in Nat
  BY DEF ContextLen
<1>2. \A i \in 1 .. ContextLen :
        (IF computed - ContextLen + i >= 1 THEN a[computed - ContextLen + i] ELSE Eos)
          = (IF computed - ContextLen + i >= 1 THEN b[computed - ContextLen + i] ELSE Eos)
  <2> TAKE i \in 1 .. ContextLen
  <2>1. computed - ContextLen + i >= 1 => computed - ContextLen + i \in 1 .. computed
    BY <1>1
  <2> QED BY <2>1
<1> QED BY <1>2 DEF Context

LEMMA GramLooksBack ==
  ASSUME NEW a, NEW b, NEW p \in Nat \ {0}, \A j \in 1 .. p : a[j] = b[j]
  PROVE  WholeGram(a, p) = WholeGram(b, p)
<1> DEFINE at(s, shift) == IF p - shift >= 1 /\ \A j \in p - shift .. p - 1 : s[j] # Eos
                             THEN s[p - shift] ELSE Eos
<1>1. ASSUME NEW shift \in 0 .. Size - 1
      PROVE  at(a, shift) = at(b, shift)
  <2>1. CASE p - shift >= 1
    <3>1. p - shift \in 1 .. p /\ \A j \in p - shift .. p - 1 : j \in 1 .. p
      BY <2>1
    <3> QED BY <3>1
  <2>2. CASE ~(p - shift >= 1)
    BY <2>2
  <2> QED BY <2>1, <2>2
<1>2. a[p] = b[p]
  OBVIOUS
<1>3. /\ WholeGram(a, p) = [shift \in 0 .. Size - 1 |-> IF shift = 0 THEN a[p] ELSE at(a, shift)]
      /\ WholeGram(b, p) = [shift \in 0 .. Size - 1 |-> IF shift = 0 THEN b[p] ELSE at(b, shift)]
  BY DEF WholeGram
<1> HIDE DEF at
<1> QED BY <1>1, <1>2, <1>3

LEMMA LastIs ==
  ASSUME NEW T, NEW x \in Seq(T), NEW r, NEW m \in 1 .. Len(x)
  PROVE  /\ LastOf(<<r>> \o SubSeq(x, 1, m)) = x[m]
         /\ SubSeq(x, 1, m) \in Seq(T) /\ Len(SubSeq(x, 1, m)) = m
         /\ \A j \in 1 .. m : SubSeq(x, 1, m)[j] = x[j]
<1>1. PICK s : s = SubSeq(x, 1, m)
  OBVIOUS
<1>2. s \in Seq(T) /\ Len(s) = m /\ \A j \in 1 .. m : s[j] = x[j]
  <2>1. 1 \in 1 .. Len(x) + 1 /\ m \in 1 - 1 .. Len(x)
    OBVIOUS
  <2>2. Slices(s, T, x, 1, m)
    BY <1>1, <2>1, Slice
  <2>3. m - 1 + 1 = m /\ \A j \in 1 .. m : 1 + j - 1 = j
    OBVIOUS
  <2> QED BY <2>2, <2>3 DEF Slices
<1>3. PICK U : U = T \cup {r}
  OBVIOUS
<1>4. s \in Seq(U) /\ <<r>> \in Seq(U) /\ Len(<<r>>) = 1
  <2>1. s \in [1 .. m -> U]
    BY <1>2, <1>3
  <2> QED BY <1>3, <2>1
<1>5. PICK y : y = <<r>> \o s
  OBVIOUS
<1>6. Len(y) = m + 1 /\ y[m + 1] = s[m]
  <2>1. Joins(y, U, <<r>>, s)
    BY <1>4, <1>5, Join
  <2>2. m + 1 \in 1 .. 1 + m /\ ~ (m + 1 <= 1) /\ (m + 1) - 1 = m
    OBVIOUS
  <2> QED BY <1>2, <1>4, <2>1, <2>2 DEF Joins
<1>7. m \in 1 .. m
  OBVIOUS
<1> QED BY <1>1, <1>2, <1>5, <1>6, <1>7 DEF LastOf

(* The tokens of a batch, and the tokens before each of its requests, as   *)
(* the layer is given them.                                                *)
IdsAre(ids, work, order, starts, count) ==
  ids = [p \in 0 .. count - 1 |-> LastOf(Inputs(order, work, starts, count)[p + 1])]

ContextsAre(context, order, n, known) ==
  context = [i \in 0 .. known - 1 |->
               IF i < n THEN Context(req[order[i + 1]].text, req[order[i + 1]].computed)
                        ELSE [k \in 1 .. ContextLen |-> Eos]]

RowsOf(desc, n) == IF desc.reqs = 0 THEN n ELSE desc.reqs

KnownTo(desc, n) == IF conf.offload THEN n ELSE RowsOf(desc, n)

ShowsGram(gram, desc, work, n, order, starts, i, k) ==
  \E ids, context :
    /\ IdsAre(ids, work, order, starts, desc.tokens)
    /\ ContextsAre(context, order, n, KnownTo(desc, n))
    /\ gram = GramAt(conf.offload, Padded(starts, n, KnownTo(desc, n)), KnownTo(desc, n), ids,
                     desc.tokens, MaxWidth, context, starts[i - 1] + k - 1)

LEMMA RowsEnough ==
  ASSUME NEW desc, NEW n \in Nat \ {0}, NEW tokens, Holds(desc, n, tokens)
  PROVE  /\ RowsOf(desc, n) \in Nat /\ n <= RowsOf(desc, n)
         /\ KnownTo(desc, n) \in Nat /\ n <= KnownTo(desc, n)
BY DEF Holds, RowsOf, KnownTo

(* Every token of a forward gets the n-gram of its request's text.         *)
LEMMA GramIs ==
  ASSUME RequestInv, conf \in Confs,
         NEW work, NEW n, NEW order, NEW starts, Lies(work, n, order, starts),
         NEW desc, Holds(desc, n, starts[n]),
         NEW i \in 1 .. n, NEW k \in 1 .. work[order[i]].count,
         NEW gram, ShowsGram(gram, desc, work, n, order, starts, i, k),
         NEW text, text = Seen(order[i], work[order[i]], k)
  PROVE  gram = WholeGram(text, Len(text))
<1>k. n \in Nat \ {0}
  BY DEF Lies
<1>z. PICK known \in Nat : known = KnownTo(desc, n) /\ n <= known
  BY <1>k, RowsEnough
<1>x. PICK ids, context :
        /\ IdsAre(ids, work, order, starts, desc.tokens)
        /\ ContextsAre(context, order, n, known)
        /\ gram = GramAt(conf.offload, Padded(starts, n, known), known, ids, desc.tokens, MaxWidth,
                         context, starts[i - 1] + k - 1)
  BY <1>z DEF ShowsGram
<1>1. PICK q, w : q = order[i] /\ w = work[q]
  OBVIOUS
<1>2. PICK fed : fed = Fed(q, w)
  OBVIOUS
<1>3. PICK count : count = desc.tokens
  OBVIOUS
<1>4. /\ n \in Nat \ {0} /\ starts \in [0 .. n -> Nat]
      /\ q \in Live /\ w \in Works /\ Suits(w, q) /\ w.count \in Nat \ {0}
      /\ starts[i] = starts[i - 1] + w.count /\ starts[i] <= starts[n]
  <2>1. \A a, b \in 0 .. n : a <= b => starts[a] <= starts[b]
    BY DEF Lies
  <2>2. i \in 0 .. n /\ n \in 0 .. n /\ i <= n
    BY <1>k
  <2>3. starts[i] <= starts[n]
    BY <2>1, <2>2
  <2> QED BY <1>1, <2>3 DEF Lies
<1>m. PICK m \in Nat \ {0} : m = w.count /\ k \in 1 .. m
  BY <1>1, <1>4
<1>5. /\ count \in Nat /\ starts[n] <= count /\ count <= MaxWidth /\ MaxWidth \in Nat \ {0}
  BY <1>3, ForwardAssumption DEF Holds
<1>6. PICK c \in Nat : c = req[q].computed
  BY <1>4, RequestIs
<1>7. FedShows(q, w, fed) /\ c <= c + m - Len(w.drafts) /\ Len(w.drafts) \in Nat
  <2>1. Len(w.drafts) \in Nat
    BY <1>4, WorkIs
  <2> QED BY <1>2, <1>4, <1>m, <1>6, <2>1, FedIs
<1>8. /\ fed \in Seq(Words) /\ Len(fed) = c + m
      /\ \A p \in 1 .. c : fed[p] = req[q].text[p]
  <2>1. \A p \in 1 .. c : p \in 1 .. c + m - Len(w.drafts)
    BY <1>m, <1>7
  <2> QED BY <1>m, <1>6, <1>7, <2>1 DEF FedShows
<1>l. Len(fed) = c + m /\ Len(fed) \in Nat
  BY <1>8
<1>9. PICK all : all = Padded(starts, n, known)
  OBVIOUS
<1>10. /\ Ragged(all, known) /\ all[known] = starts[n]
       /\ \A j \in 0 .. n : all[j] = starts[j]
  BY <1>z, <1>9, PaddedIs
<1>11. PICK a \in Nat : a = starts[i - 1]
  <2>1. i - 1 \in 0 .. n
    BY <1>4
  <2> QED BY <1>4, <2>1
<1>12. PICK r \in 0 .. known - 1 : r = i - 1
  BY <1>z, <1>4
<1>13. all[r] = a /\ all[r + 1] = a + m
  <2>1. r \in 0 .. n /\ r + 1 \in 0 .. n /\ r + 1 = i /\ i - 1 = r
    BY <1>4, <1>12
  <2> QED BY <1>4, <1>m, <1>10, <1>11, <2>1
<1>14. PICK p \in a .. a + m - 1 : p = a + k - 1
  BY <1>m
<1>15. PICK T : T = Words \cup {ids[j] : j \in 0 .. count - 1}
  OBVIOUS
<1>16. /\ Eos \in T /\ ids \in [0 .. count - 1 -> T] /\ fed \in Seq(T)
  <2>1. Eos \in T /\ ids \in [0 .. count - 1 -> T]
    BY <1>x, <1>3, <1>15 DEF Words, IdsAre
  <2>2. PICK s \in Nat : s = Len(fed)
    BY <1>8
  <2>3. fed \in [1 .. s -> T]
    BY <1>8, <1>15, <2>2
  <2> QED BY <2>1, <2>3
<1>17. context[r] = Context(fed, c)
  <2>1. r < n /\ r + 1 = i
    BY <1>4, <1>12
  <2>2. context[r] = Context(req[q].text, c)
    BY <1>x, <1>1, <1>6, <2>1 DEF ContextsAre
  <2>3. \A j \in 1 .. c : req[q].text[j] = fed[j]
    BY <1>8
  <2> QED BY <2>2, <2>3, ContextLooksBack
<1>18. ASSUME NEW j \in a .. p
       PROVE  ids[j] = fed[c + (j - a + 1)]
  <2>1. PICK h \in 1 .. m : h = j - a + 1
    BY <1>4, <1>14
  <2>2. a + h \in 1 .. count /\ Inputs(order, work, starts, count)[a + h] = <<q>> \o SubSeq(fed, 1, c + h)
    <3>1. h \in 1 .. work[order[i]].count
      BY <1>1, <1>m, <2>1
    <3>2. InputShows(order, work, starts, count, i, h)
      BY <1>5, <3>1, InputIs
    <3> QED BY <1>1, <1>2, <1>6, <1>11, <3>2 DEF InputShows, Seen
  <2>3. j \in 0 .. count - 1 /\ j + 1 = a + h
    BY <1>5, <2>1, <2>2
  <2>4. c + h \in 1 .. Len(fed)
    BY <1>l
  <2>5. LastOf(<<q>> \o SubSeq(fed, 1, c + h)) = fed[c + h]
    BY <1>8, <2>4, LastIs
  <2>6. ids[j] = LastOf(Inputs(order, work, starts, count)[j + 1])
    BY <1>x, <1>3, <2>3 DEF IdsAre
  <2> QED BY <2>1, <2>2, <2>3, <2>5, <2>6
<1>19. p - a + 1 = k /\ c + k \in 1 .. Len(fed)
  <2>1. p - a + 1 = k
    BY <1>m, <1>14
  <2>2. c + k \in 1 .. c + m
    BY <1>m
  <2> QED BY <1>l, <2>1, <2>2
<1>20. GramAt(conf.offload, all, known, ids, count, MaxWidth, context, p) = WholeGram(fed, c + k)
  <2>a. conf.offload \in BOOLEAN
    BY ConfIs DEF Configs
  <2>b. known \in Nat \ {0}
    BY <1>z, <1>4
  <2>1. /\ known \in Nat \ {0} /\ conf.offload \in BOOLEAN
        /\ all[known] <= count /\ c \in 0 .. Len(fed) /\ c + (p - a + 1) <= Len(fed)
    BY <1>5, <1>l, <1>10, <1>19, <2>a, <2>b
  <2>2. p \in all[r] .. all[r + 1] - 1
    BY <1>13
  <2>3. \A j \in all[r] .. p : ids[j] = fed[c + (j - all[r] + 1)]
    BY <1>13, <1>18
  <2>4. c + (p - all[r] + 1) <= Len(fed)
    BY <1>13, <2>1
  <2>5. InBatch(T, known, all, conf.offload, count, MaxWidth, ids, context, r, p, fed, c)
    BY <1>5, <1>10, <1>16, <1>17, <2>1, <2>2, <2>3, <2>4 DEF InBatch
  <2>6. GramAt(conf.offload, all, known, ids, count, MaxWidth, context, p)
          = WholeGram(fed, c + (p - all[r] + 1))
    BY <2>5, BatchKeepsTexts
  <2> QED BY <1>13, <1>19, <2>6
<1>21. Len(text) = c + k /\ \A j \in 1 .. c + k : text[j] = fed[j]
  <2>1. PICK to \in 1 .. Len(fed) : to = c + k
    BY <1>19
  <2>2. text = SubSeq(fed, 1, to)
    BY <1>1, <1>2, <1>6, <2>1 DEF Seen
  <2>3. Len(text) = to /\ \A j \in 1 .. to : text[j] = fed[j]
    BY <1>8, <2>2, LastIs
  <2> QED BY <2>1, <2>3
<1>22. WholeGram(fed, c + k) = WholeGram(text, Len(text))
  <2>1. c + k \in Nat \ {0} /\ \A j \in 1 .. c + k : fed[j] = text[j]
    BY <1>19, <1>21
  <2> QED BY <1>21, <2>1, GramLooksBack
<1>23. starts[i - 1] + k - 1 = p
  BY <1>11, <1>14
<1> QED BY <1>x, <1>3, <1>9, <1>20, <1>22, <1>23

-----------------------------------------------------------------------------
(* What a forward shows.                                                   *)

Results(desc, work, n, order, starts) ==
  Convolved(Read(desc, Metadata(order, work, RowsOf(desc, n))),
            Padded(starts, n, RowsOf(desc, n)), Inputs(order, work, starts, desc.tokens))

ShowsToken(t, desc, work, n, order, starts, i, k) ==
  /\ t.req = order[i]
  /\ t.text = Seen(order[i], work[order[i]], k)
  /\ t.window = Results(desc, work, n, order, starts)[i].outputs[k]
  /\ ShowsGram(t.gram, desc, work, n, order, starts, i, k)

LEMMA ShownIs ==
  ASSUME NEW desc, NEW work, NEW n, NEW order, NEW starts,
         starts = Starts(order, work), Len(order) = n,
         Forward(desc, order, work), NEW t \in shown'
  PROVE  \E i \in 1 .. n : \E k \in 1 .. work[order[i]].count :
           ShowsToken(t, desc, work, n, order, starts, i, k)
<1>1. PICK known, ids, context, inputs :
        /\ known = KnownTo(desc, n)
        /\ inputs = Inputs(order, work, starts, desc.tokens)
        /\ ids = [p \in 0 .. desc.tokens - 1 |-> LastOf(inputs[p + 1])]
        /\ context = [i \in 0 .. known - 1 |->
                        IF i < n THEN Context(req[order[i + 1]].text, req[order[i + 1]].computed)
                                 ELSE [k \in 1 .. ContextLen |-> Eos]]
  OBVIOUS
<1>2. PICK results : results = Results(desc, work, n, order, starts)
  OBVIOUS
<1>3. shown' = UNION {
        {[req |-> order[i],
          text |-> SubSeq(Fed(order[i], work[order[i]]), 1, req[order[i]].computed + k),
          window |-> results[i].outputs[k],
          gram |-> GramAt(conf.offload, Padded(starts, n, known), known, ids, desc.tokens,
                          MaxWidth, context, starts[i - 1] + k - 1)] :
           k \in 1 .. work[order[i]].count} : i \in 1 .. n}
  BY <1>1, <1>2 DEF Forward, Results, RowsOf, KnownTo
<1> DEFINE S(i) ==
        {[req |-> order[i],
          text |-> SubSeq(Fed(order[i], work[order[i]]), 1, req[order[i]].computed + k),
          window |-> results[i].outputs[k],
          gram |-> GramAt(conf.offload, Padded(starts, n, known), known, ids, desc.tokens,
                          MaxWidth, context, starts[i - 1] + k - 1)] :
           k \in 1 .. work[order[i]].count}
<1>4. PICK i \in 1 .. n : t \in S(i)
  <2>1. t \in UNION {S(i) : i \in 1 .. n}
    BY <1>3
  <2> HIDE DEF S
  <2> QED BY <2>1
<1>5. PICK k \in 1 .. work[order[i]].count :
        t = [req |-> order[i],
             text |-> SubSeq(Fed(order[i], work[order[i]]), 1, req[order[i]].computed + k),
             window |-> results[i].outputs[k],
             gram |-> GramAt(conf.offload, Padded(starts, n, known), known, ids, desc.tokens,
                             MaxWidth, context, starts[i - 1] + k - 1)]
  BY <1>4
<1>6. IdsAre(ids, work, order, starts, desc.tokens) /\ ContextsAre(context, order, n, known)
  BY Zenon, <1>1 DEF IdsAre, ContextsAre
<1>7. ShowsGram(t.gram, desc, work, n, order, starts, i, k)
  BY <1>1, <1>5, <1>6 DEF ShowsGram
<1>8. /\ t.req = order[i] /\ t.window = results[i].outputs[k]
      /\ t.text = Seen(order[i], work[order[i]], k)
  BY <1>5 DEF Seen
<1> QED BY <1>2, <1>7, <1>8 DEF ShowsToken

(* A step as a batch that is run.                                          *)
Running(batch, work, desc, n, order, starts) ==
  /\ Batched(batch, work, desc)
  /\ Lies(work, n, order, starts) /\ Holds(desc, n, starts[n])
  /\ order = BatchOrder(work) /\ starts = Starts(order, work) /\ n = Cardinality(batch)
  /\ Forward(desc, order, work)

(* What a step makes of the requests of its batch, and of the others.      *)
StepLeaves(batch, work) ==
  \A r \in Requests :
    IF r \in batch
      THEN \E end : end.kept \in 0 .. Len(work[r].drafts) /\ Leaves(r, work[r], end, req'[r])
      ELSE req'[r] = req[r]

LEMMA StepRuns ==
  ASSUME CaptureInv, RequestInv, Step
  PROVE  \E batch, work, desc, n, order, starts :
           /\ Running(batch, work, desc, n, order, starts)
           /\ StepLeaves(batch, work)
<1>1. PICK batch \in (SUBSET Live) \ {{}} : \E work \in [batch -> Works] :
        /\ Schedulable(work)
        /\ \E desc \in Dispatch(conf, descs, captured, Batch(work)) :
             Forward(desc, BatchOrder(work), work)
        /\ \E end \in [batch -> Endings] :
             /\ \A r \in batch : Ends(end[r], r, work[r])
             /\ req' = [r \in Requests |-> IF r \in batch THEN After(r, work[r], end[r]) ELSE req[r]]
             /\ \A r \in batch : Bounded(req'[r].text)
  BY DEF Step
<1>2. PICK work \in [batch -> Works] :
        /\ Schedulable(work)
        /\ \E desc \in Dispatch(conf, descs, captured, Batch(work)) :
             Forward(desc, BatchOrder(work), work)
        /\ \E end \in [batch -> Endings] :
             /\ \A r \in batch : Ends(end[r], r, work[r])
             /\ req' = [r \in Requests |-> IF r \in batch THEN After(r, work[r], end[r]) ELSE req[r]]
  BY <1>1
<1>3. PICK desc \in Dispatch(conf, descs, captured, Batch(work)) :
        Forward(desc, BatchOrder(work), work)
  BY <1>2
<1>4. captured /\ conf \in Confs
  BY DEF Step, CaptureInv
<1>5. Batched(batch, work, desc)
  BY <1>2, <1>3, <1>4 DEF Batched
<1>6. PICK n, order, starts : /\ n = Cardinality(batch) /\ order = BatchOrder(work)
                              /\ starts = Starts(order, work)
  OBVIOUS
<1>7. Lies(work, n, order, starts)
  BY <1>5, <1>6, BatchLies
<1>8. Holds(desc, n, starts[n])
  BY <1>5, <1>6, ShapeHolds
<1>9. Forward(desc, order, work)
  BY <1>3, <1>6
<1>10. Running(batch, work, desc, n, order, starts)
  BY <1>5, <1>6, <1>7, <1>8, <1>9 DEF Running
<1>11. PICK end \in [batch -> Endings] :
         /\ \A r \in batch : Ends(end[r], r, work[r])
         /\ req' = [r \in Requests |-> IF r \in batch THEN After(r, work[r], end[r]) ELSE req[r]]
  BY <1>2
<1>12. ASSUME NEW r \in batch
       PROVE  /\ end[r].kept \in 0 .. Len(work[r].drafts)
              /\ Leaves(r, work[r], end[r], After(r, work[r], end[r]))
  <2>1. r \in Live /\ work[r] \in Works /\ end[r] \in Endings /\ Suits(work[r], r)
        /\ Ends(end[r], r, work[r])
    BY <1>2, <1>11 DEF Schedulable
  <2>2. Leaves(r, work[r], end[r], After(r, work[r], end[r]))
    BY <1>4, <2>1, AfterIs
  <2> QED BY <2>2 DEF Leaves
<1>13. ASSUME NEW r \in Requests
       PROVE  IF r \in batch
                THEN \E e : e.kept \in 0 .. Len(work[r].drafts) /\ Leaves(r, work[r], e, req'[r])
                ELSE req'[r] = req[r]
  <2>1. CASE r \in batch
    <3>1. req'[r] = After(r, work[r], end[r])
      BY <1>11, <2>1
    <3> QED BY <1>12, <2>1, <3>1
  <2>2. CASE r \notin batch
    BY <1>11, <2>2
  <2> QED BY <2>1, <2>2
<1> QED BY <1>10, <1>13 DEF StepLeaves

(* The only action that shows tokens is Step.                              *)
LEMMA OnlyStepShows ==
  ASSUME [Next]_vars
  PROVE  Step \/ shown' = {} \/ shown' = shown
BY DEF Next, vars, CaptureGraph, CaptureDone, Add, Finish, DummyRun

LEMMA GramsStep ==
  ASSUME CaptureInv, RequestInv, GramsAreHistory, [Next]_vars
  PROVE  GramsAreHistory'
<1>1. SUFFICES ASSUME Step
               PROVE  GramsAreHistory'
  BY OnlyStepShows DEF GramsAreHistory
<1>2. PICK batch, work, desc, n, order, starts : Running(batch, work, desc, n, order, starts)
  BY <1>1, StepRuns
<1>3. /\ Lies(work, n, order, starts) /\ Holds(desc, n, starts[n])
      /\ starts = Starts(order, work) /\ Forward(desc, order, work)
  BY <1>2 DEF Running
<1>4. n \in Nat \ {0} /\ Len(order) = n
  BY <1>3 DEF Lies
<1>5. conf \in Confs
  BY DEF CaptureInv
<1>6. ASSUME NEW t \in shown'
      PROVE  t.gram = WholeGram(t.text, Len(t.text))
  <2>1. PICK i \in 1 .. n : \E k \in 1 .. work[order[i]].count :
          ShowsToken(t, desc, work, n, order, starts, i, k)
    BY <1>4, <1>3, ShownIs
  <2>2. PICK k \in 1 .. work[order[i]].count : ShowsToken(t, desc, work, n, order, starts, i, k)
    BY <2>1
  <2>3. ShowsGram(t.gram, desc, work, n, order, starts, i, k)
        /\ t.text = Seen(order[i], work[order[i]], k)
    BY <2>2 DEF ShowsToken
  <2> QED BY <1>3, <1>5, <2>3, GramIs
<1> QED BY <1>6 DEF GramsAreHistory

LEMMA RequestInvAtFirst ==
  ASSUME Init
  PROVE  RequestInv
<1>1. req = [r \in Requests |-> NoRequest]
  BY DEF Init
<1>2. NoRequest \in [text : Seq(Words), prompt : Nat, computed : Nat, accepted : Nat, slot : Slots]
  BY SlotsAre DEF NoRequest, NullSlot
<1>3. Live = {}
  BY <1>1 DEF Live, NoRequest
<1> HIDE DEF NoRequest
<1> QED BY <1>1, <1>2, <1>3 DEF RequestInv

(* The layer looks up the n-grams of the text.                             *)
THEOREM GramsAreHistoryCorrect == Spec => []GramsAreHistory
<1>1. Init => CaptureInv /\ RequestInv /\ GramsAreHistory
  BY CaptureInvAtFirst, RequestInvAtFirst DEF Init, GramsAreHistory
<1>2. CaptureInv /\ RequestInv /\ GramsAreHistory /\ [Next]_vars
        => CaptureInv' /\ RequestInv' /\ GramsAreHistory'
  BY CaptureInvStep, RequestInvStep, GramsStep
<1> QED BY <1>1, <1>2, PTL DEF Spec

-----------------------------------------------------------------------------
(* The inputs of a request's convolution, zeros before its start.          *)
Entries == {Zero} \cup Seq(Requests \cup Words \cup {Junk})

PastOf(r, text, n) ==
  [j \in 1 .. StateLen + n |->
     IF j <= StateLen THEN Zero ELSE <<r>> \o SubSeq(text, 1, j - StateLen)]

LEMMA EntryIs ==
  ASSUME NEW r \in Requests, NEW text \in Seq(Words), NEW p \in 0 .. Len(text)
  PROVE  <<r>> \o SubSeq(text, 1, p) \in Entries
<1>1. PICK U, s : U = Requests \cup Words \cup {Junk} /\ s = SubSeq(text, 1, p)
  OBVIOUS
<1>2. 1 \in 1 .. Len(text) + 1 /\ p \in 1 - 1 .. Len(text)
  OBVIOUS
<1>3. Slices(s, Words, text, 1, p)
  BY <1>1, <1>2, Slice
<1>4. s \in Seq(Words)
  BY <1>3 DEF Slices
<1>5. s \in Seq(U)
  <2>1. PICK m \in Nat : s \in [1 .. m -> Words] /\ Len(s) = m
    BY <1>4
  <2>2. s \in [1 .. m -> U]
    BY <1>1, <2>1
  <2> QED BY <2>2
<1>6. <<r>> \in Seq(U)
  BY <1>1
<1>7. <<r>> \o s \in Seq(U)
  BY <1>5, <1>6
<1> QED BY <1>1, <1>7 DEF Entries

LEMMA PastType ==
  ASSUME NEW r \in Requests, NEW text \in Seq(Words), NEW n \in 0 .. Len(text)
  PROVE  PastOf(r, text, n) \in Seq(Entries) /\ Len(PastOf(r, text, n)) = StateLen + n
<1>1. Zero \in Entries
  BY DEF Entries
<1>2. ASSUME NEW j \in 1 .. StateLen + n
      PROVE  (IF j <= StateLen THEN Zero ELSE <<r>> \o SubSeq(text, 1, j - StateLen)) \in Entries
  <2>1. CASE j <= StateLen
    BY <1>1, <2>1
  <2>2. CASE ~(j <= StateLen)
    <3>1. j - StateLen \in 0 .. Len(text)
      BY <2>2
    <3> QED BY <2>2, <3>1, EntryIs
  <2> QED BY <2>1, <2>2
<1>3. PICK m \in Nat : m = StateLen + n
  OBVIOUS
<1>4. PastOf(r, text, n) \in [1 .. m -> Entries]
  BY <1>2, <1>3 DEF PastOf
<1> QED BY <1>3, <1>4, TupleIs

LEMMA SameStart ==
  ASSUME NEW T, NEW a \in Seq(T), NEW b \in Seq(T), NEW p \in Nat, p <= Len(a), p <= Len(b),
         \A j \in 1 .. p : a[j] = b[j]
  PROVE  SubSeq(a, 1, p) = SubSeq(b, 1, p)
<1>1. PICK x, y : x = SubSeq(a, 1, p) /\ y = SubSeq(b, 1, p)
  OBVIOUS
<1>2. Slices(x, T, a, 1, p)
  <2>1. 1 \in 1 .. Len(a) + 1 /\ p \in 1 - 1 .. Len(a)
    OBVIOUS
  <2> QED BY <1>1, <2>1, Slice
<1>3. Slices(y, T, b, 1, p)
  <2>1. 1 \in 1 .. Len(b) + 1 /\ p \in 1 - 1 .. Len(b)
    OBVIOUS
  <2> QED BY <1>1, <2>1, Slice
<1>4. p - 1 + 1 = p /\ \A j \in 1 .. p : 1 + j - 1 = j
  OBVIOUS
<1>5. /\ x \in Seq(T) /\ y \in Seq(T) /\ Len(x) = p /\ Len(y) = p
      /\ \A j \in 1 .. p : x[j] = a[j] /\ y[j] = b[j]
  BY <1>2, <1>3, <1>4 DEF Slices
<1>6. x = y
  BY <1>5, SeqEqual
<1> QED BY <1>1, <1>6

LEMMA PastLooksBack ==
  ASSUME NEW r, NEW a \in Seq(Words), NEW b \in Seq(Words), NEW n \in Nat,
         n <= Len(a), n <= Len(b), \A j \in 1 .. n : a[j] = b[j]
  PROVE  PastOf(r, a, n) = PastOf(r, b, n)
<1>1. ASSUME NEW j \in 1 .. StateLen + n, ~(j <= StateLen)
      PROVE  SubSeq(a, 1, j - StateLen) = SubSeq(b, 1, j - StateLen)
  <2>1. PICK p \in 1 .. n : p = j - StateLen
    BY <1>1
  <2>2. p \in Nat /\ p <= Len(a) /\ p <= Len(b) /\ \A i \in 1 .. p : a[i] = b[i]
    OBVIOUS
  <2> QED BY <2>1, <2>2, SameStart
<1> QED BY <1>1 DEF PastOf

(* The inputs of the next m positions.                                     *)
OwnInputs(own, r, fed, n, m) ==
  /\ own \in Seq(Entries) /\ Len(own) = m
  /\ \A k \in 1 .. m : own[k] = <<r>> \o SubSeq(fed, 1, n + k)

LEMMA PastGrows ==
  ASSUME NEW r \in Requests, NEW fed \in Seq(Words), NEW n \in Nat, NEW m \in Nat,
         n + m <= Len(fed), NEW own, OwnInputs(own, r, fed, n, m)
  PROVE  PastOf(r, fed, n) \o own = PastOf(r, fed, n + m)
<1>1. PICK a, b, line : /\ a = PastOf(r, fed, n) /\ b = PastOf(r, fed, n + m)
                        /\ line = a \o own
  OBVIOUS
<1>2. n \in 0 .. Len(fed) /\ n + m \in 0 .. Len(fed)
  OBVIOUS
<1>3. /\ a \in Seq(Entries) /\ Len(a) = StateLen + n
      /\ b \in Seq(Entries) /\ Len(b) = StateLen + (n + m)
  BY <1>1, <1>2, PastType
<1>4. own \in Seq(Entries) /\ Len(own) = m
  BY DEF OwnInputs
<1>5. /\ line \in Seq(Entries) /\ Len(line) = StateLen + n + m
      /\ \A j \in 1 .. StateLen + n + m :
           line[j] = IF j <= StateLen + n THEN a[j] ELSE own[j - (StateLen + n)]
  <2>1. Joins(line, Entries, a, own)
    BY <1>1, <1>3, <1>4, Join
  <2> QED BY <1>3, <1>4, <2>1 DEF Joins
<1>6. ASSUME NEW j \in 1 .. StateLen + n + m
      PROVE  line[j] = b[j]
  <2>1. b[j] = IF j <= StateLen THEN Zero ELSE <<r>> \o SubSeq(fed, 1, j - StateLen)
    <3>1. j \in 1 .. StateLen + (n + m)
      OBVIOUS
    <3> QED BY <1>1, <3>1 DEF PastOf
  <2>2. CASE j <= StateLen + n
    <3>1. a[j] = IF j <= StateLen THEN Zero ELSE <<r>> \o SubSeq(fed, 1, j - StateLen)
      BY <1>1, <2>2 DEF PastOf
    <3> QED BY <1>5, <2>1, <2>2, <3>1
  <2>3. CASE ~(j <= StateLen + n)
    <3>1. PICK k \in 1 .. m : k = j - (StateLen + n)
      BY <2>3
    <3>2. own[k] = <<r>> \o SubSeq(fed, 1, n + k)
      BY DEF OwnInputs
    <3>3. n + k = j - StateLen /\ ~(j <= StateLen)
      BY <2>3, <3>1
    <3> QED BY <1>5, <2>1, <2>3, <3>1, <3>2, <3>3
  <2> QED BY <2>2, <2>3
<1>7. Len(line) = Len(b)
  BY <1>3, <1>5
<1>8. line = b
  BY <1>3, <1>5, <1>6, <1>7, SeqEqual
<1> QED BY <1>1, <1>8

(* The window at a position of the past is the history that               *)
(* WindowsAreHistory speaks of.                                            *)
HistoryOf(r, text) ==
  [i \in 1 .. StateLen + 1 |->
     LET p == Len(text) - StateLen - 1 + i
     IN  IF p >= 1 THEN <<r>> \o SubSeq(text, 1, p) ELSE Zero]

WindowOf(r, fed, end, n) == Window(PastOf(r, fed, end), StateLen + n)

LEMMA WindowIsHistory ==
  ASSUME NEW r \in Requests, NEW fed \in Seq(Words), NEW n \in 1 .. Len(fed),
         NEW end \in n .. Len(fed), NEW text, text = SubSeq(fed, 1, n)
  PROVE  /\ Len(text) = n
         /\ WindowOf(r, fed, end, n) = HistoryOf(r, text)
<1>1. text \in Seq(Words) /\ Len(text) = n /\ \A j \in 1 .. n : text[j] = fed[j]
  BY LastIs
<1>2. PICK past : past = PastOf(r, fed, end)
  OBVIOUS
<1>3. ASSUME NEW i \in 1 .. StateLen + 1
      PROVE  past[StateLen + n - StateLen - 1 + i]
               = IF n - StateLen - 1 + i >= 1 THEN <<r>> \o SubSeq(text, 1, n - StateLen - 1 + i) ELSE Zero
  <2>1. PICK j \in 1 .. StateLen + end : j = StateLen + n - StateLen - 1 + i
    OBVIOUS
  <2>2. past[j] = IF j <= StateLen THEN Zero ELSE <<r>> \o SubSeq(fed, 1, j - StateLen)
    BY <1>2 DEF PastOf
  <2>3. PICK p \in Int : p = n - StateLen - 1 + i
    OBVIOUS
  <2>4. p = j - StateLen /\ (p >= 1 <=> ~(j <= StateLen)) /\ p <= n
    BY <2>1, <2>3
  <2>5. CASE p >= 1
    <3>1. p \in Nat /\ p <= Len(text) /\ p <= Len(fed) /\ \A k \in 1 .. p : text[k] = fed[k]
      BY <1>1, <2>4, <2>5
    <3>2. SubSeq(text, 1, p) = SubSeq(fed, 1, p)
      BY <1>1, <3>1, SameStart
    <3> QED BY <2>1, <2>2, <2>3, <2>4, <2>5, <3>2
  <2>6. CASE ~(p >= 1)
    BY <2>1, <2>2, <2>3, <2>4, <2>6
  <2> QED BY <2>5, <2>6
<1>4. Window(past, StateLen + n)
        = [i \in 1 .. StateLen + 1 |-> past[StateLen + n - StateLen - 1 + i]]
  BY DEF Window
<1>5. Window(past, StateLen + n)
        = [i \in 1 .. StateLen + 1 |->
             IF n - StateLen - 1 + i >= 1 THEN <<r>> \o SubSeq(text, 1, n - StateLen - 1 + i) ELSE Zero]
  BY <1>3, <1>4
<1> QED BY <1>1, <1>2, <1>5 DEF HistoryOf, WindowOf

-----------------------------------------------------------------------------
(* The rows of a forward.                                                  *)
RowRecord ==
  [slot : Slots, initial : BOOLEAN, accepted : Nat, count : Nat,
   kind : {"spec", "decode", "prefill"}]

LEMMA NullRowType ==
  ASSUME conf \in Confs
  PROVE  NullRow \in RowRecord /\ NullRow.slot = NullSlot /\ NullRow.kind \in {"spec", "decode"}
<1>1. NullSlot \in Slots
  BY SlotsAre DEF NullSlot
<1> QED BY <1>1 DEF NullRow, RowRecord

(* What the metadata say of a request.                                     *)
MetaOf(row, q, work) ==
  /\ row \in RowRecord
  /\ row.slot = req[q].slot
  /\ row.initial <=> req[q].computed > 0
  /\ row.accepted = req[q].accepted
  /\ row.count = work[q].count
  /\ row.kind = "spec" <=> Drafted(work) /\ ~Prefilling(q)
  /\ row.kind = "decode" => work[q].count = 1

LEMMA MetaIs ==
  ASSUME RequestInv, conf \in Confs,
         NEW work, NEW n, NEW order, NEW starts, Lies(work, n, order, starts),
         NEW m \in Nat, n <= m, NEW meta, meta = Metadata(order, work, m)
  PROVE  /\ meta \in [1 .. m -> RowRecord]
         /\ \A i \in 1 .. m : i > n => meta[i] = NullRow
         /\ \A i \in 1 .. n : MetaOf(meta[i], order[i], work)
<1> DEFINE V(r) == Drafted(work) /\ ~Prefilling(r)
           Kind(i) == IF V(order[i]) THEN "spec"
                      ELSE IF \A j \in 1 .. i : V(order[j]) \/ work[order[j]].count = 1
                             THEN "decode" ELSE "prefill"
           Row(i) == [slot |-> req[order[i]].slot, initial |-> req[order[i]].computed > 0,
                      accepted |-> req[order[i]].accepted, count |-> work[order[i]].count,
                      kind |-> Kind(i)]
<1>1. Len(order) = n /\ n \in Nat \ {0}
  BY DEF Lies
<1>2. meta = [i \in 1 .. m |-> IF i > n THEN NullRow ELSE Row(i)]
  BY <1>1 DEF Metadata
<1>3. ASSUME NEW i \in 1 .. n
      PROVE  MetaOf(Row(i), order[i], work)
  <2>1. order[i] \in Live /\ work[order[i]].count \in Nat
    BY DEF Lies
  <2>2. /\ req[order[i]].slot \in Slots /\ req[order[i]].computed \in Nat
        /\ req[order[i]].accepted \in Nat
    BY <2>1, RequestIs
  <2>3. Kind(i) \in {"spec", "decode", "prefill"} /\ (Kind(i) = "spec" <=> V(order[i]))
    OBVIOUS
  <2>4. Kind(i) = "decode" => work[order[i]].count = 1
    <3>1. i \in 1 .. i
      BY <1>1
    <3> QED BY <3>1
  <2>5. Row(i) = [slot |-> req[order[i]].slot, initial |-> req[order[i]].computed > 0,
                  accepted |-> req[order[i]].accepted, count |-> work[order[i]].count,
                  kind |-> Kind(i)]
    OBVIOUS
  <2>6. (req[order[i]].computed > 0) \in BOOLEAN
    OBVIOUS
  <2> HIDE DEF Kind
  <2>7. Row(i).initial <=> req[order[i]].computed > 0
    BY Zenon
  <2> HIDE DEF Row
  <2>8. Row(i) \in RowRecord
    BY <2>1, <2>2, <2>3, <2>5, <2>6 DEF RowRecord
  <2> QED BY <2>3, <2>4, <2>5, <2>8, <2>7 DEF MetaOf
<1> HIDE DEF Row
<1>4. \A i \in 1 .. m : i > n => meta[i] = NullRow
  BY <1>2
<1>5. \A i \in 1 .. n : meta[i] = Row(i)
  BY <1>1, <1>2
<1>6. \A i \in 1 .. m : meta[i] \in RowRecord
  <2> TAKE i \in 1 .. m
  <2>1. CASE i > n
    BY <1>4, <2>1, NullRowType
  <2>2. CASE ~(i > n)
    <3>1. i \in 1 .. n
      BY <1>1, <2>2
    <3> QED BY <1>3, <1>5, <3>1 DEF MetaOf
  <2> QED BY <2>1, <2>2
<1>7. meta \in [1 .. m -> RowRecord]
  BY <1>2, <1>6
<1> QED BY <1>3, <1>4, <1>5, <1>7

(* The slots that a full graph reads.                                      *)
StagedInv == staged \in [1 .. conf.maxReqs -> Slots]

LEMMA StagedIs ==
  ASSUME StagedInv, conf \in Confs, NEW m \in Nat, NEW rows \in [1 .. m -> RowRecord], NEW desc
  PROVE  Staged(desc, rows) \in [1 .. conf.maxReqs -> Slots]
<1>1. conf.maxReqs \in Nat /\ DOMAIN staged = 1 .. conf.maxReqs
  BY ConfIs DEF Configs, StagedInv
<1>2. Len(rows) = m
  OBVIOUS
<1>3. \A i \in 1 .. conf.maxReqs :
        (IF desc.mode = "FULL" /\ i <= m THEN rows[i].slot ELSE staged[i]) \in Slots
  <2> TAKE i \in 1 .. conf.maxReqs
  <2>1. CASE desc.mode = "FULL" /\ i <= m
    <3>1. rows[i] \in RowRecord
      BY <1>1, <2>1
    <3> QED BY <2>1, <3>1 DEF RowRecord
  <2>2. CASE ~(desc.mode = "FULL" /\ i <= m)
    BY <2>2 DEF StagedInv
  <2> QED BY <2>1, <2>2
<1> QED BY <1>1, <1>2, <1>3 DEF Staged

(* A full graph reads what was staged for it.                              *)
LEMMA ReadIs ==
  ASSUME StagedInv, conf \in Confs, NEW m \in Nat, NEW rows \in [1 .. m -> RowRecord], NEW desc,
         desc.mode = "FULL" => m <= conf.maxReqs, staged' = Staged(desc, rows)
  PROVE  Read(desc, rows) = rows
<1>1. conf.maxReqs \in Nat /\ DOMAIN staged = 1 .. conf.maxReqs /\ Len(rows) = m
  BY ConfIs DEF Configs, StagedInv
<1>2. CASE desc.mode = "FULL"
  <2>1. \A i \in 1 .. m : staged'[i] = rows[i].slot
    BY <1>1, <1>2 DEF Staged
  <2>2. \A i \in 1 .. m : [rows[i] EXCEPT !.slot = staged'[i]] = rows[i]
    <3> TAKE i \in 1 .. m
    <3>1. rows[i] \in RowRecord
      OBVIOUS
    <3> QED BY <2>1, <3>1 DEF RowRecord
  <2>3. Read(desc, rows) = [i \in 1 .. m |-> [rows[i] EXCEPT !.slot = staged'[i]]]
    BY <1>2 DEF Read
  <2> QED BY <2>2, <2>3
<1>3. CASE desc.mode # "FULL"
  BY <1>3 DEF Read
<1> QED BY <1>2, <1>3

LEMMA NullResult ==
  ASSUME NEW row, row.slot = NullSlot, row.kind \in {"spec", "decode"},
         NEW cache, NEW inputs, NEW width
  PROVE  RowResult(row, cache, inputs, width).cache = cache
<1>1. ~Valid(row)
  BY DEF Valid
<1>2. SpecRow(row, cache, inputs, width).cache = cache
  BY <1>1 DEF SpecRow
<1>3. DecodeRow(row, cache, inputs).cache = cache
  BY <1>1 DEF DecodeRow
<1> QED BY <1>2, <1>3 DEF RowResult

LEMMA OwnInputsAre ==
  ASSUME RequestInv, NEW work, NEW n, NEW order, NEW starts, Lies(work, n, order, starts),
         NEW count \in Nat, starts[n] <= count, NEW i \in 1 .. n
  PROVE  OwnInputs(SubSeq(Inputs(order, work, starts, count), starts[i - 1] + 1, starts[i]),
                   order[i], Fed(order[i], work[order[i]]), req[order[i]].computed,
                   work[order[i]].count)
<1>1. PICK q, w, all : q = order[i] /\ w = work[q] /\ all = Inputs(order, work, starts, count)
  OBVIOUS
<1>2. PICK fed : fed = Fed(q, w)
  OBVIOUS
<1>3. /\ q \in Live /\ q \in Requests /\ w \in Works /\ Suits(w, q) /\ n \in Nat \ {0}
      /\ w.count \in Nat \ {0} /\ starts \in [0 .. n -> Nat] /\ starts[i] = starts[i - 1] + w.count
  BY <1>1 DEF Lies
<1>4. PICK a \in Nat, m \in Nat \ {0}, c \in Nat :
        a = starts[i - 1] /\ m = w.count /\ c = req[q].computed
  <2>1. i - 1 \in 0 .. n
    BY <1>3
  <2> QED BY <1>3, <2>1, RequestIs
<1>5. fed \in Seq(Words) /\ Len(fed) = c + m
  <2>1. FedShows(q, w, fed)
    BY <1>2, <1>3, FedIs
  <2> QED BY <1>4, <2>1 DEF FedShows
<1>6. ASSUME NEW k \in 1 .. m
      PROVE  all[a + k] = <<q>> \o SubSeq(fed, 1, c + k) /\ all[a + k] \in Entries
  <2>1. InputShows(order, work, starts, count, i, k)
    <3>1. k \in 1 .. work[order[i]].count
      BY <1>1, <1>4
    <3> QED BY <3>1, InputIs
  <2>2. all[a + k] = <<q>> \o SubSeq(fed, 1, c + k)
    BY <1>1, <1>2, <1>4, <2>1 DEF InputShows, Seen
  <2>3. c + k \in 0 .. Len(fed)
    BY <1>5
  <2> QED BY <1>3, <1>5, <2>2, <2>3, EntryIs
<1>7. PICK own : own = SubSeq(all, a + 1, a + m)
  OBVIOUS
<1>8. own \in Seq(Entries) /\ Len(own) = m /\ \A k \in 1 .. m : own[k] = all[a + k]
  <2>1. \A j \in a + 1 .. a + m : all[j] \in Entries
    <3> TAKE j \in a + 1 .. a + m
    <3>1. PICK k \in 1 .. m : j = a + k
      <4>1. j - a \in 1 .. m /\ j = a + (j - a)
        OBVIOUS
      <4> QED BY <4>1
    <3> QED BY <1>6, <3>1
  <2>2. a + 1 \in Int /\ a + m \in Int
    OBVIOUS
  <2>3. /\ own \in Seq(Entries)
        /\ Len(own) = IF a + 1 <= a + m THEN a + m - (a + 1) + 1 ELSE 0
        /\ \A k \in 1 .. a + m - (a + 1) + 1 : own[k] = all[a + 1 + k - 1]
    BY <1>7, <2>1, <2>2, SubSeqProperties
  <2>4. /\ a + 1 <= a + m /\ a + m - (a + 1) + 1 = m
        /\ \A k \in 1 .. m : a + 1 + k - 1 = a + k
    OBVIOUS
  <2> QED BY <2>3, <2>4
<1>9. OwnInputs(own, q, fed, c, m)
  BY <1>6, <1>8 DEF OwnInputs
<1>10. a + m = starts[i] /\ a + 1 = starts[i - 1] + 1
  BY <1>3, <1>4
<1> QED BY <1>1, <1>2, <1>4, <1>7, <1>9, <1>10

-----------------------------------------------------------------------------
(* The cache.  The row of a request shows the inputs of what is computed   *)
(* of it, behind as many inputs as there were accepted drafts.             *)
Remembers(q, cache) ==
  req[q].computed > 0 =>
    Recent(cache, req[q].accepted - 1, PastOf(q, req[q].text, req[q].computed))

ConvInv ==
  /\ StagedInv
  /\ conv \in [Slots -> Seq(Entries)]
  /\ \A s \in Slots : Len(conv[s]) = StateLen + conf.drafts
  /\ \A r \in Live : Remembers(r, conv[req[r].slot])

(* What a request's row of a forward has to give: windows of its text, and *)
(* a cache that serves however many drafts are kept.                       *)
GoodResult(result, q, w) ==
  /\ \A k \in 1 .. w.count :
       result.outputs[k] = Window(PastOf(q, Fed(q, w), req[q].computed + w.count),
                                  StateLen + (req[q].computed + k))
  /\ result.cache \in Seq(Entries) /\ Len(result.cache) = StateLen + conf.drafts
  /\ \A kept \in 0 .. Len(w.drafts) :
       Recent(result.cache, kept,
              PastOf(q, Fed(q, w), req[q].computed + w.count - Len(w.drafts) + kept))

LEMMA PrefillIs ==
  ASSUME NEW T, Zero \in T, NEW row, Valid(row), row.initial \in BOOLEAN,
         NEW cache \in Seq(T), Len(cache) >= StateLen,
         NEW inputs \in Seq(T), row.kind = "decode" => Len(inputs) = 1,
         row.kind \in {"decode", "prefill"}, NEW width
  PROVE  RowResult(row, cache, inputs, width) = PrefillRow(row, cache, inputs)
<1>1. CASE row.kind = "decode"
  <2>1. RowResult(row, cache, inputs, width) = DecodeRow(row, cache, inputs)
    BY <1>1 DEF RowResult
  <2> QED BY <1>1, <2>1, DecodeIsAChunk
<1>2. CASE row.kind = "prefill"
  BY <1>2 DEF RowResult
<1> QED BY <1>1, <1>2

(* A row of a forward: a request's, its metadata and its inputs.            *)
RowOfForward(work, q, w, row, own) ==
  /\ w = work[q] /\ w \in Works /\ Suits(w, q)
  /\ ~Drafted(work) => w.drafts = << >> /\ (Prefilling(q) \/ req[q].accepted <= 1)
  /\ MetaOf(row, q, work)
  /\ OwnInputs(own, q, Fed(q, w), req[q].computed, w.count)

LEMMA RowGood ==
  ASSUME RequestInv, ConvInv, conf \in Confs,
         NEW work, NEW q \in Live, NEW w, NEW row, NEW own, RowOfForward(work, q, w, row, own)
  PROVE  GoodResult(RowResult(row, conv[req[q].slot], own, Width), q, w)
<1>1. /\ w = work[q] /\ w \in Works /\ Suits(w, q)
      /\ ~Drafted(work) => w.drafts = << >> /\ (Prefilling(q) \/ req[q].accepted <= 1)
      /\ MetaOf(row, q, work)
      /\ OwnInputs(own, q, Fed(q, w), req[q].computed, w.count)
  BY DEF RowOfForward
<1>2. PICK fed, cache, result :
        /\ fed = Fed(q, w) /\ cache = conv[req[q].slot]
        /\ result = RowResult(row, cache, own, Width)
  OBVIOUS
<1>3. PICK c \in Nat, m \in Nat \ {0}, d \in Nat :
        c = req[q].computed /\ m = w.count /\ d = Len(w.drafts)
  BY <1>1, RequestIs, WorkIs
<1>4. /\ q \in Requests /\ req[q].slot \in Slots /\ req[q].slot # NullSlot
      /\ req[q].accepted \in 1 .. Width /\ req[q].prompt \in Nat \ {0}
      /\ req[q].text \in Seq(Words) /\ c <= Len(req[q].text) /\ Len(req[q].text) \in Nat
  BY <1>3, RequestIs DEF SoundRequest
<1>5. /\ fed \in Seq(Words) /\ Len(fed) = c + m
      /\ \A p \in 1 .. c : fed[p] = req[q].text[p]
  <2>1. FedShows(q, w, fed) /\ c <= c + m - d
    BY <1>1, <1>2, <1>3, FedIs
  <2>2. \A p \in 1 .. c : p \in 1 .. c + m - d
    BY <2>1
  <2> QED BY <1>3, <2>1, <2>2 DEF FedShows
<1>6. /\ cache \in Seq(Entries) /\ Len(cache) = StateLen + conf.drafts
      /\ Width \in Nat \ {0} /\ conf.drafts = Width - 1 /\ conf.drafts \in Nat
  <2>1. cache \in Seq(Entries) /\ Len(cache) = StateLen + conf.drafts
    BY <1>2, <1>4 DEF ConvInv
  <2> QED BY <2>1, WidthIs
<1>7. /\ own \in Seq(Entries) /\ Len(own) = m /\ OwnInputs(own, q, fed, c, m)
  BY <1>1, <1>2, <1>3 DEF OwnInputs
<1>8. PICK past : past = PastOf(q, fed, c)
  OBVIOUS
<1>9. past = PastOf(q, req[q].text, c)
  <2>1. c <= Len(fed)
    BY <1>5
  <2> QED BY <1>4, <1>5, <1>8, <2>1, PastLooksBack
<1>10. past \in Seq(Entries) /\ Len(past) = StateLen + c /\ Zero \in Entries
  <2>1. c \in 0 .. Len(fed)
    BY <1>5
  <2> QED BY <1>4, <1>5, <1>8, <2>1, PastType DEF Entries
<1>11. past \o own = PastOf(q, fed, c + m)
  <2>1. c + m <= Len(fed) /\ fed \in Seq(Words) /\ m \in Nat
    BY <1>5
  <2>2. q \in Requests /\ OwnInputs(own, q, fed, c, m)
    BY <1>4, <1>7
  <2>3. PastOf(q, fed, c) \o own = PastOf(q, fed, c + m)
    BY <2>1, <2>2, PastGrows
  <2> QED BY <1>8, <2>3
<1>12. Valid(row) /\ row.initial \in BOOLEAN /\ (row.initial <=> c > 0) /\ row.accepted = req[q].accepted
       /\ row.kind \in {"spec", "decode", "prefill"}
  BY <1>1, <1>3, <1>4 DEF MetaOf, RowRecord, Valid
<1>13. CASE row.kind = "spec"
  <2>1. ~Prefilling(q)
    BY <1>1, <1>13 DEF MetaOf
  <2>2. m = d + 1 /\ m <= Width /\ c > 0
    <3>1. w.count = Len(w.drafts) + 1 /\ w.count <= Width
      BY <1>1, <2>1 DEF Suits
    <3>2. c > 0
      BY <1>3, <1>4, <2>1 DEF Prefilling
    <3> QED BY <1>3, <3>1, <3>2
  <2>3. Recent(cache, row.accepted - 1, past)
    BY <1>2, <1>3, <1>9, <1>12, <2>2 DEF ConvInv, Remembers
  <2>4. row.accepted \in 1 .. Width /\ Len(cache) = StateLen + Width - 1
        /\ Len(past) >= StateLen /\ Len(own) \in 1 .. Width
    BY <1>4, <1>6, <1>7, <1>10, <1>12, <2>2
  <2>5. result = SpecRow(row, cache, own, Width)
    BY <1>2, <1>13 DEF RowResult
  <2>6. /\ \A k \in 1 .. Len(own) : result.outputs[k] = Window(past \o own, Len(past) + k)
        /\ result.cache \in Seq(Entries) /\ Len(result.cache) = StateLen + Width - 1
        /\ \A kept \in 1 .. Len(own) :
             Recent(result.cache, kept - 1, past \o SubSeq(own, 1, kept))
    <3>1. Verified(Entries, Width, row, cache, past, own)
      BY <1>6, <1>7, <1>10, <1>12, <2>3, <2>4 DEF Verified
    <3> QED BY <2>5, <3>1, RejectedDraftsLeaveNoTrace DEF LeavesNoTrace
  <2>7. \A k \in 1 .. m : result.outputs[k] = Window(PastOf(q, fed, c + m), StateLen + (c + k))
    <3> TAKE k \in 1 .. m
    <3>1. Len(past) + k = StateLen + (c + k)
      BY <1>10
    <3> QED BY <1>7, <1>11, <2>6, <3>1
  <2>8. ASSUME NEW kept \in 0 .. d
        PROVE  Recent(result.cache, kept, PastOf(q, fed, c + m - d + kept))
    <3>1. PICK h \in 1 .. m : h = kept + 1
      BY <2>2
    <3>2. PICK some : some = SubSeq(own, 1, h)
      OBVIOUS
    <3>3. some \in Seq(Entries) /\ Len(some) = h /\ \A j \in 1 .. h : some[j] = own[j]
      <4>1. h \in 1 .. Len(own)
        BY <1>7
      <4> QED BY <1>7, <3>2, <4>1, LastIs
    <3>4. OwnInputs(some, q, fed, c, h)
      <4>1. \A j \in 1 .. h : j \in 1 .. m
        OBVIOUS
      <4> QED BY <1>7, <3>3, <4>1 DEF OwnInputs
    <3>5. past \o some = PastOf(q, fed, c + h)
      <4>1. c + h <= Len(fed) /\ h \in Nat /\ fed \in Seq(Words) /\ q \in Requests
        BY <1>4, <1>5
      <4>2. PastOf(q, fed, c) \o some = PastOf(q, fed, c + h)
        BY <3>4, <4>1, PastGrows
      <4> QED BY <1>8, <4>2
    <3>6. Recent(result.cache, h - 1, past \o some)
      <4>1. h \in 1 .. Len(own)
        BY <1>7
      <4> QED BY <2>6, <3>2, <4>1
    <3>7. h - 1 = kept /\ c + h = c + m - d + kept
      BY <2>2, <3>1
    <3> QED BY <3>5, <3>6, <3>7
  <2>9. result.cache \in Seq(Entries) /\ Len(result.cache) = StateLen + conf.drafts
    BY <1>6, <2>6
  <2> QED BY <1>2, <1>3, <2>7, <2>8, <2>9 DEF GoodResult
<1>14. CASE row.kind # "spec"
  <2>1. d = 0
    <3>1. ~Drafted(work) \/ Prefilling(q)
      BY <1>1, <1>14 DEF MetaOf
    <3>2. w.drafts = << >>
      BY <1>1, <3>1 DEF Suits
    <3> QED BY <1>1, <1>3, <3>2, WorkIs
  <2>2. c > 0 => row.accepted = 1
    <3>1. ~Drafted(work) \/ Prefilling(q)
      BY <1>1, <1>14 DEF MetaOf
    <3>2. Prefilling(q) \/ req[q].accepted <= 1
      BY <1>1, <3>1
    <3>3. Prefilling(q) => req[q].accepted = 1
      BY RequestIs DEF SoundRequest
    <3>4. req[q].accepted = 1
      <4>1. req[q].accepted \in Nat /\ req[q].accepted >= 1
        BY <1>4, <1>6
      <4> QED BY <3>2, <3>3, <4>1
    <3> QED BY <1>12, <3>4
  <2>3. IF row.initial THEN Recent(cache, 0, past) ELSE past = Zeros(StateLen)
    <3>1. CASE row.initial
      <4>1. c > 0 /\ req[q].accepted - 1 = 0
        BY <1>12, <2>2, <3>1
      <4>2. Recent(cache, req[q].accepted - 1, past)
        BY <1>2, <1>3, <1>9, <4>1 DEF ConvInv, Remembers
      <4> QED BY <3>1, <4>1, <4>2
    <3>2. CASE ~row.initial
      <4>1. c = 0
        BY <1>12, <3>2
      <4>2. past = [j \in 1 .. StateLen |-> Zero]
        BY <1>8, <4>1 DEF PastOf
      <4> QED BY <3>2, <4>2 DEF Zeros
    <3> QED BY <3>1, <3>2
  <2>4. Len(cache) >= StateLen /\ Len(past) >= StateLen /\ Len(own) > 0
    BY <1>6, <1>7, <1>10
  <2>5. row.kind = "decode" => Len(own) = 1
    BY <1>1, <1>3, <1>7 DEF MetaOf
  <2>6. result = PrefillRow(row, cache, own)
    <3>1. row.kind \in {"decode", "prefill"}
      BY <1>12, <1>14
    <3>2. /\ Zero \in Entries /\ Valid(row) /\ row.initial \in BOOLEAN
          /\ cache \in Seq(Entries) /\ own \in Seq(Entries)
      BY <1>6, <1>7, <1>10, <1>12
    <3> QED BY <1>2, <2>4, <2>5, <3>1, <3>2, PrefillIs
  <2>7. /\ \A k \in 1 .. Len(own) : result.outputs[k] = Window(past \o own, Len(past) + k)
        /\ result.cache \in Seq(Entries) /\ Len(result.cache) = Len(cache)
        /\ Recent(result.cache, 0, past \o own)
    <3>1. Continued(Entries, row, cache, past, own)
      BY <1>6, <1>7, <1>10, <1>12, <2>3, <2>4 DEF Continued
    <3> QED BY <2>6, <3>1, ChunksContinue DEF ContinuesPast
  <2>8. \A k \in 1 .. m : result.outputs[k] = Window(PastOf(q, fed, c + m), StateLen + (c + k))
    <3> TAKE k \in 1 .. m
    <3>1. Len(past) + k = StateLen + (c + k)
      BY <1>10
    <3> QED BY <1>7, <1>11, <2>7, <3>1
  <2>9. ASSUME NEW kept \in 0 .. d
        PROVE  Recent(result.cache, kept, PastOf(q, fed, c + m - d + kept))
    <3>1. kept = 0 /\ c + m - d + kept = c + m
      BY <2>1
    <3> QED BY <1>11, <2>7, <3>1
  <2>10. result.cache \in Seq(Entries) /\ Len(result.cache) = StateLen + conf.drafts
    BY <1>6, <2>7
  <2> QED BY <1>2, <1>3, <2>8, <2>9, <2>10 DEF GoodResult
<1> QED BY <1>13, <1>14

-----------------------------------------------------------------------------
(* The rows of the convolution in a forward.                               *)

(* The metadata are what the layer reads.                                  *)
Rowed(desc, work, n, order, starts, m, meta) ==
  /\ m = RowsOf(desc, n) /\ m \in Nat /\ n <= m
  /\ meta \in [1 .. m -> RowRecord]
  /\ \A i \in 1 .. m : i > n => meta[i] = NullRow
  /\ \A i \in 1 .. n : MetaOf(meta[i], order[i], work)
  /\ Read(desc, meta) = meta
  /\ staged' \in [1 .. conf.maxReqs -> Slots]
  /\ conv' = WriteBack(conv, meta, Results(desc, work, n, order, starts))
  /\ Results(desc, work, n, order, starts)
       = Convolved(meta, Padded(starts, n, m), Inputs(order, work, starts, desc.tokens))

LEMMA ReadsItsRows ==
  ASSUME RequestInv, ConvInv, conf \in Confs,
         NEW batch, NEW work, NEW desc, NEW n, NEW order, NEW starts,
         Running(batch, work, desc, n, order, starts)
  PROVE  \E m, meta : Rowed(desc, work, n, order, starts, m, meta)
<1>1. /\ Lies(work, n, order, starts) /\ Holds(desc, n, starts[n]) /\ Forward(desc, order, work)
      /\ starts = Starts(order, work)
  BY DEF Running
<1>2. n \in Nat \ {0} /\ Len(order) = n
  BY <1>1 DEF Lies
<1>3. PICK m \in Nat : m = RowsOf(desc, n) /\ n <= m
  BY <1>1, <1>2, RowsEnough
<1>4. PICK meta : meta = Metadata(order, work, m)
  OBVIOUS
<1>5. /\ meta \in [1 .. m -> RowRecord]
      /\ \A i \in 1 .. m : i > n => meta[i] = NullRow
      /\ \A i \in 1 .. n : MetaOf(meta[i], order[i], work)
  BY <1>1, <1>3, <1>4, MetaIs
<1>6. staged' = Staged(desc, meta)
  BY <1>1, <1>2, <1>3, <1>4 DEF Forward, RowsOf
<1>7. StagedInv
  BY DEF ConvInv
<1>8. Read(desc, meta) = meta
  <2>1. desc.mode = "FULL" => m <= conf.maxReqs
    <3>1. conf.maxReqs \in Nat
      BY ConfIs DEF Configs
    <3> QED BY <1>1, <1>3, <3>1 DEF Holds, RowsOf
  <2> QED BY <1>5, <1>6, <1>7, <2>1, ReadIs
<1>9. staged' \in [1 .. conf.maxReqs -> Slots]
  BY <1>5, <1>6, <1>7, StagedIs
<1>10. Results(desc, work, n, order, starts)
         = Convolved(meta, Padded(starts, n, m), Inputs(order, work, starts, desc.tokens))
  BY <1>3, <1>4, <1>8 DEF Results
<1>11. conv' = WriteBack(conv, Read(desc, meta),
                         Convolved(Read(desc, meta), Padded(starts, n, m),
                                   Inputs(order, work, starts, desc.tokens)))
  BY <1>1, <1>2, <1>3, <1>4 DEF Forward, RowsOf
<1>12. conv' = WriteBack(conv, meta, Results(desc, work, n, order, starts))
  BY <1>8, <1>10, <1>11
<1> QED BY <1>3, <1>5, <1>8, <1>9, <1>10, <1>12 DEF Rowed

LEMMA ForwardRow ==
  ASSUME RequestInv, ConvInv, conf \in Confs,
         NEW batch, NEW work, NEW desc, NEW n, NEW order, NEW starts,
         Running(batch, work, desc, n, order, starts),
         NEW i \in 1 .. n
  PROVE  GoodResult(Results(desc, work, n, order, starts)[i], order[i], work[order[i]])
<1>1. /\ Lies(work, n, order, starts) /\ Holds(desc, n, starts[n])
      /\ Batched(batch, work, desc)
  BY DEF Running
<1>2. PICK m, meta : Rowed(desc, work, n, order, starts, m, meta)
  BY ReadsItsRows
<1>3. /\ m \in Nat /\ n <= m /\ meta \in [1 .. m -> RowRecord]
      /\ MetaOf(meta[i], order[i], work)
      /\ Results(desc, work, n, order, starts)
           = Convolved(meta, Padded(starts, n, m), Inputs(order, work, starts, desc.tokens))
  BY <1>2 DEF Rowed
<1>4. PICK q, w, row, all, inputs :
        /\ q = order[i] /\ w = work[q] /\ row = meta[i]
        /\ all = Padded(starts, n, m) /\ inputs = Inputs(order, work, starts, desc.tokens)
  OBVIOUS
<1>5. PICK own : own = SubSeq(inputs, starts[i - 1] + 1, starts[i])
  OBVIOUS
<1>6. /\ n \in Nat \ {0} /\ q \in Live /\ w \in Works /\ Suits(w, q) /\ w.count \in Nat \ {0}
      /\ starts[i] = starts[i - 1] + w.count /\ q \in DOMAIN work
  BY <1>1, <1>4 DEF Lies
<1>7. all[i - 1] = starts[i - 1]
  <2>1. i - 1 \in 0 .. n
    BY <1>6
  <2> QED BY <1>1, <1>3, <1>4, <2>1, PaddedIs
<1>8. row.slot = req[q].slot /\ row.count = w.count /\ (row.kind = "decode" => w.count = 1)
  BY <1>3, <1>4 DEF MetaOf
<1>9. Results(desc, work, n, order, starts)[i] = RowResult(row, conv[req[q].slot], own, Width)
  <2>1. i \in 1 .. m /\ DOMAIN meta = 1 .. m
    BY <1>3, <1>6
  <2>2. Convolved(meta, all, inputs)[i]
          = RowResult(row, conv[row.slot],
                      SubSeq(inputs, all[i - 1] + 1,
                             all[i - 1] + IF row.kind = "decode" THEN 1 ELSE row.count), Width)
    BY <1>4, <2>1 DEF Convolved
  <2>3. (IF row.kind = "decode" THEN 1 ELSE row.count) = w.count
    BY <1>8
  <2> QED BY <1>3, <1>4, <1>5, <1>6, <1>7, <1>8, <2>2, <2>3
<1>10. OwnInputs(own, q, Fed(q, w), req[q].computed, w.count)
  <2>1. desc.tokens \in Nat /\ starts[n] <= desc.tokens
    BY <1>1 DEF Holds
  <2> QED BY <1>1, <1>4, <1>5, <2>1, OwnInputsAre
<1>11. ~Drafted(work) => w.drafts = << >> /\ (Prefilling(q) \/ req[q].accepted <= 1)
  <2>1. ~Drafted(work) => \A r \in DOMAIN work : Prefilling(r) \/ req[r].accepted <= 1
    BY <1>1 DEF Batched, Schedulable
  <2>2. ~Drafted(work) => \A r \in DOMAIN work : work[r].drafts = << >>
    BY DEF Drafted
  <2> QED BY <1>4, <1>6, <2>1, <2>2
<1>12. RowOfForward(work, q, w, row, own)
  BY <1>3, <1>4, <1>6, <1>10, <1>11 DEF RowOfForward
<1>13. GoodResult(RowResult(row, conv[req[q].slot], own, Width), q, w)
  BY <1>6, <1>12, RowGood
<1> QED BY <1>4, <1>9, <1>13

(* The last of the rows that have a slot leaves it.                        *)
LEMMA WrittenBack ==
  ASSUME NEW m \in Nat, NEW rows, DOMAIN rows = 1 .. m, NEW results,
         NEW s \in DOMAIN conv, NEW after, after = WriteBack(conv, rows, results)
  PROVE  /\ \/ (\A i \in 1 .. m : rows[i].slot # s) /\ after[s] = conv[s]
            \/ \E i \in 1 .. m : rows[i].slot = s /\ after[s] = results[i].cache
         /\ DOMAIN after = DOMAIN conv
<1> DEFINE here == {i \in 1 .. m : rows[i].slot = s}
<1>1. after[s] = IF here = {} THEN conv[s] ELSE results[Max(here)].cache
  BY DEF WriteBack
<1>2. DOMAIN after = DOMAIN conv
  BY DEF WriteBack
<1>3. here # {} => Max(here) \in here
  <2>1. here \in SUBSET (0 .. m)
    OBVIOUS
  <2> HIDE DEF here
  <2> QED BY <2>1, MaxFact
<1> QED BY <1>1, <1>2, <1>3

(* A forward leaves in the row of a request what the request gives, and    *)
(* every other row as it was.                                              *)
LEMMA ForwardWrites ==
  ASSUME RequestInv, ConvInv, conf \in Confs,
         NEW batch, NEW work, NEW desc, NEW n, NEW order, NEW starts,
         Running(batch, work, desc, n, order, starts),
         NEW s \in Slots
  PROVE  \/ /\ conv'[s] = conv[s]
            /\ s # NullSlot => \A i \in 1 .. n : req[order[i]].slot # s
         \/ \E i \in 1 .. n : /\ req[order[i]].slot = s
                              /\ conv'[s] = Results(desc, work, n, order, starts)[i].cache
<1>1. PICK m, meta : Rowed(desc, work, n, order, starts, m, meta)
  BY ReadsItsRows
<1>2. PICK results : results = Results(desc, work, n, order, starts)
  OBVIOUS
<1>3. /\ m \in Nat /\ n <= m /\ meta \in [1 .. m -> RowRecord]
      /\ \A i \in 1 .. m : i > n => meta[i] = NullRow
      /\ \A i \in 1 .. n : meta[i].slot = req[order[i]].slot
      /\ conv' = WriteBack(conv, meta, results)
      /\ results = Convolved(meta, Padded(starts, n, m), Inputs(order, work, starts, desc.tokens))
  BY <1>1, <1>2 DEF Rowed, MetaOf
<1>4. n \in Nat
  BY DEF Running, Lies
<1>5. DOMAIN meta = 1 .. m /\ s \in DOMAIN conv
  BY <1>3 DEF ConvInv
<1>6. \/ (\A i \in 1 .. m : meta[i].slot # s) /\ conv'[s] = conv[s]
      \/ \E i \in 1 .. m : meta[i].slot = s /\ conv'[s] = results[i].cache
  BY <1>3, <1>5, WrittenBack
<1>7. CASE (\A i \in 1 .. m : meta[i].slot # s) /\ conv'[s] = conv[s]
  <2>1. \A i \in 1 .. n : i \in 1 .. m
    BY <1>3, <1>4
  <2> QED BY <1>3, <1>7, <2>1
<1>8. CASE \E i \in 1 .. m : meta[i].slot = s /\ conv'[s] = results[i].cache
  <2>1. PICK i \in 1 .. m : meta[i].slot = s /\ conv'[s] = results[i].cache
    BY <1>8
  <2>2. CASE i <= n
    <3>1. i \in 1 .. n
      BY <1>3, <1>4, <2>2
    <3> QED BY <1>2, <1>3, <2>1, <3>1
  <2>3. CASE ~(i <= n)
    <3>1. meta[i] = NullRow
      BY <1>3, <1>4, <2>3
    <3>2. s = NullSlot
      BY <2>1, <3>1, NullRowType
    <3>3. \E own : results[i] = RowResult(meta[i], conv[meta[i].slot], own, Width)
      BY <1>3, <1>5 DEF Convolved
    <3>4. results[i].cache = conv[meta[i].slot]
      BY <3>1, <3>3, NullRowType, NullResult
    <3> QED BY <2>1, <3>2, <3>4
  <2> QED BY <2>2, <2>3
<1> QED BY <1>2, <1>6, <1>7, <1>8

-----------------------------------------------------------------------------
(* What is kept of a request finds its inputs in the row.                  *)
LEMMA StillRemembers ==
  ASSUME RequestInv, NEW r \in Live, NEW w \in Works, Suits(w, r),
         NEW end, NEW x, Leaves(r, w, end, x), x.computed <= Len(x.text),
         NEW result, GoodResult(result, r, w)
  PROVE  Recent(result.cache, x.accepted - 1, PastOf(r, x.text, x.computed))
<1>1. PICK fed : fed = Fed(r, w)
  OBVIOUS
<1>2. PICK kept \in 0 .. Len(w.drafts) : kept = end.kept
  BY DEF Leaves
<1>3. /\ req[r].computed \in Nat /\ w.count \in Nat \ {0} /\ Len(w.drafts) \in Nat
  BY RequestIs, WorkIs
<1>4. /\ fed \in Seq(Words) /\ Len(fed) = req[r].computed + w.count
      /\ Len(fed) \in Nat
  BY <1>1, FedIs DEF FedShows
<1>5. /\ x.text \in Seq(Words) /\ x.accepted = kept + 1
      /\ x.computed = req[r].computed + w.count - Len(w.drafts) + kept
      /\ \A p \in 1 .. x.computed : x.text[p] = fed[p]
  BY <1>1, <1>2 DEF Leaves
<1>6. req[r].computed <= req[r].computed + w.count - Len(w.drafts)
  BY FedIs
<1>7. x.computed \in Nat /\ x.computed <= Len(fed)
  <2>1. PICK c \in Nat, m \in Nat, d \in Nat :
          c = req[r].computed /\ m = w.count /\ d = Len(w.drafts)
    BY <1>3
  <2>2. x.computed = c + m - d + kept /\ Len(fed) = c + m /\ kept \in 0 .. d /\ c <= c + m - d
    BY <1>4, <1>5, <1>6, <2>1
  <2> QED BY <2>2
<1>8. PastOf(r, fed, x.computed) = PastOf(r, x.text, x.computed)
  BY <1>4, <1>5, <1>7, PastLooksBack
<1>9. Recent(result.cache, kept, PastOf(r, fed, x.computed))
  BY <1>1, <1>5 DEF GoodResult
<1>10. x.accepted - 1 = kept
  BY <1>2, <1>5
<1> QED BY <1>8, <1>9, <1>10

LEMMA ConvInvInStep ==
  ASSUME CaptureInv, RequestInv, RequestInv', ConvInv, Step
  PROVE  ConvInv'
<1>1. PICK batch, work, desc, n, order, starts :
        /\ Running(batch, work, desc, n, order, starts)
        /\ StepLeaves(batch, work)
  BY StepRuns
<1>2. conf \in Confs /\ conf' = conf
  BY DEF CaptureInv, Step
<1>3. PICK results : results = Results(desc, work, n, order, starts)
  OBVIOUS
<1>4. /\ Batched(batch, work, desc) /\ Lies(work, n, order, starts)
      /\ n = Cardinality(batch) /\ order = BatchOrder(work)
  BY <1>1 DEF Running
<1>5. \A i \in 1 .. n : GoodResult(results[i], order[i], work[order[i]])
  BY <1>1, <1>2, <1>3, ForwardRow
<1>6. \A s \in Slots :
        \/ /\ conv'[s] = conv[s]
           /\ s # NullSlot => \A i \in 1 .. n : req[order[i]].slot # s
        \/ \E i \in 1 .. n : req[order[i]].slot = s /\ conv'[s] = results[i].cache
  BY <1>1, <1>2, <1>3, ForwardWrites
<1>7. PICK m, meta : Rowed(desc, work, n, order, starts, m, meta)
  BY <1>1, <1>2, ReadsItsRows
<1>8. StagedInv'
  BY <1>2, <1>7 DEF Rowed, StagedInv
<1>9. \A s \in Slots : conv'[s] \in Seq(Entries) /\ Len(conv'[s]) = StateLen + conf.drafts
  <2> TAKE s \in Slots
  <2>1. CASE conv'[s] = conv[s]
    BY <2>1 DEF ConvInv
  <2>2. CASE \E i \in 1 .. n : conv'[s] = results[i].cache
    BY <1>5, <2>2 DEF GoodResult
  <2> QED BY <1>6, <2>1, <2>2
<1>10. conv' \in [Slots -> Seq(Entries)]
  <2>1. conv' = WriteBack(conv, meta, results)
    BY <1>3, <1>7 DEF Rowed
  <2>2. conv' = [s \in Slots |-> conv'[s]]
    BY <2>1 DEF WriteBack, ConvInv
  <2> QED BY <1>9, <2>2
<1>11. ASSUME NEW r \in Live'
       PROVE  req'[r].computed > 0 =>
                Recent(conv'[req'[r].slot], req'[r].accepted - 1,
                       PastOf(r, req'[r].text, req'[r].computed))
  <2>1. r \in Requests
    BY DEF Live
  <2>2. CASE r \in batch
    <3>1. PICK i \in 1 .. n : order[i] = r
      BY <1>4, <2>2, BatchLies
    <3>2. PICK end : Leaves(r, work[r], end, req'[r])
      BY <1>1, <2>1, <2>2 DEF StepLeaves
    <3>3. r \in Live /\ work[r] \in Works /\ Suits(work[r], r)
      BY <1>4, <3>1 DEF Lies
    <3>4. req'[r].slot = req[r].slot /\ req[r].slot \in Slots /\ req[r].slot # NullSlot
      BY <3>2, <3>3, RequestIs DEF Leaves, SoundRequest
    <3>5. PICK j \in 1 .. n : /\ req[order[j]].slot = req[r].slot
                              /\ conv'[req[r].slot] = results[j].cache
      BY <1>6, <3>1, <3>4
    <3>6. order[j] = r
      <4>1. order[j] \in Live
        BY <1>4 DEF Lies
      <4> QED BY <3>3, <3>5, <4>1 DEF RequestInv
    <3>7. GoodResult(results[j], r, work[r])
      BY <1>5, <3>6
    <3>8. req'[r].computed <= Len(req'[r].text)
      BY RequestIs DEF Live, RequestInv, SoundRequest, Prefilling
    <3>9. Recent(results[j].cache, req'[r].accepted - 1, PastOf(r, req'[r].text, req'[r].computed))
      BY <3>2, <3>3, <3>7, <3>8, StillRemembers
    <3> QED BY <3>4, <3>5, <3>9
  <2>3. CASE r \notin batch
    <3>1. req'[r] = req[r]
      BY <1>1, <2>1, <2>3 DEF StepLeaves
    <3>2. r \in Live
      BY <2>1, <3>1 DEF Live
    <3>3. req[r].slot \in Slots /\ req[r].slot # NullSlot
      BY <3>2, RequestIs DEF SoundRequest
    <3>4. \A i \in 1 .. n : req[order[i]].slot # req[r].slot
      <4> TAKE i \in 1 .. n
      <4>1. order[i] \in Live /\ order[i] \in DOMAIN work
        BY <1>4 DEF Lies
      <4>2. order[i] # r
        BY <1>4, <2>3, <4>1, BatchLies
      <4> QED BY <3>2, <4>1, <4>2 DEF RequestInv
    <3>5. conv'[req[r].slot] = conv[req[r].slot]
      BY <1>6, <3>3, <3>4
    <3> QED BY <3>1, <3>2, <3>5 DEF ConvInv, Remembers
  <2> QED BY <2>2, <2>3
<1> QED BY <1>2, <1>8, <1>9, <1>10, <1>11 DEF ConvInv, Remembers

-----------------------------------------------------------------------------
(* The row of a request that has left shows nobody's inputs.               *)
LEMMA JunkIs ==
  ASSUME NEW cache \in Seq(Entries), NEW after, after = [i \in DOMAIN cache |-> <<Junk>>]
  PROVE  after \in Seq(Entries) /\ Len(after) = Len(cache)
<1>1. <<Junk>> \in Entries
  <2>1. Junk \in Requests \cup Words \cup {Junk}
    OBVIOUS
  <2> QED BY <2>1 DEF Entries
<1>2. PICK m \in Nat : m = Len(cache) /\ DOMAIN cache = 1 .. m
  OBVIOUS
<1>3. after \in [1 .. m -> Entries]
  BY <1>1, <1>2
<1> QED BY <1>2, <1>3, TupleIs

(* Rows of padding, of any number, leave everything as it was.             *)
LEMMA PaddingLeavesNoTrace ==
  ASSUME ConvInv, conf \in Confs, NEW m \in Nat, NEW rows, rows = [i \in 1 .. m |-> NullRow],
         NEW starts, NEW inputs, NEW after, after = WriteBack(conv, rows, Convolved(rows, starts, inputs))
  PROVE  after = conv
<1>1. DOMAIN rows = 1 .. m /\ \A i \in 1 .. m : rows[i] = NullRow
  OBVIOUS
<1>2. PICK results : results = Convolved(rows, starts, inputs)
  OBVIOUS
<1>3. \A i \in 1 .. m : results[i].cache = conv[NullSlot]
  <2> TAKE i \in 1 .. m
  <2>1. \E own : results[i] = RowResult(rows[i], conv[rows[i].slot], own, Width)
    BY <1>1, <1>2 DEF Convolved
  <2> QED BY <1>1, <2>1, NullRowType, NullResult
<1>4. ASSUME NEW s \in DOMAIN conv
      PROVE  after[s] = conv[s]
  <2>1. \/ (\A i \in 1 .. m : rows[i].slot # s) /\ after[s] = conv[s]
        \/ \E i \in 1 .. m : rows[i].slot = s /\ after[s] = results[i].cache
    BY <1>1, <1>2, WrittenBack
  <2>2. CASE \E i \in 1 .. m : rows[i].slot = s /\ after[s] = results[i].cache
    <3>1. PICK i \in 1 .. m : rows[i].slot = s /\ after[s] = results[i].cache
      BY <2>2
    <3>2. s = NullSlot
      BY <1>1, <3>1, NullRowType
    <3> QED BY <1>3, <3>1, <3>2
  <2> QED BY <2>1, <2>2
<1>5. after = [s \in DOMAIN conv |-> after[s]]
  BY DEF WriteBack
<1>6. conv = [s \in DOMAIN conv |-> conv[s]]
  BY DEF ConvInv
<1> QED BY <1>4, <1>5, <1>6

LEMMA NullRows ==
  ASSUME conf \in Confs, NEW m \in Nat
  PROVE  [i \in 1 .. m |-> NullRow] \in [1 .. m -> RowRecord]
BY NullRowType

LEMMA ConvInvStep ==
  ASSUME CaptureInv, RequestInv, RequestInv', ConvInv, [Next]_vars
  PROVE  ConvInv'
<1>1. conf \in Confs /\ StagedInv
  BY DEF CaptureInv, ConvInv
<1>2. CASE CaptureGraph
  <2>1. PICK d \in NextToCapture(left) : staged' = Staged(d, [i \in 1 .. d.reqs |-> NullRow])
    BY <1>2 DEF CaptureGraph
  <2>2. UNCHANGED <<conf, req, conv>>
    BY <1>2 DEF CaptureGraph
  <2>3. d \in CaptureDescs(conf)
    BY <2>1 DEF NextToCapture, CaptureInv
  <2>4. d.reqs \in Nat
    BY <1>1, <2>3, ShapeReqs
  <2>5. staged' \in [1 .. conf.maxReqs -> Slots]
    BY <1>1, <2>1, <2>4, NullRows, StagedIs
  <2> QED BY <2>2, <2>5 DEF ConvInv, StagedInv, Remembers, Live
<1>3. CASE CaptureDone
  BY <1>3 DEF CaptureDone, ConvInv, StagedInv, Remembers, Live
<1>4. ASSUME NEW r \in Requests, Add(r)
      PROVE  ConvInv'
  <2>1. PICK n, text, slot :
          req' = [req EXCEPT ![r] = [text |-> text, prompt |-> n, computed |-> 0, accepted |-> 1,
                                     slot |-> slot]]
    BY <1>4 DEF Add
  <2>2. UNCHANGED <<conf, conv, staged>>
    BY <1>4 DEF Add
  <2>3. DOMAIN req = Requests
    BY DEF RequestInv
  <2>4. req'[r].computed = 0 /\ \A q \in Requests : q # r => req'[q] = req[q]
    BY <2>1, <2>3
  <2>5. ASSUME NEW q \in Live'
        PROVE  Remembers(q, conv[req[q].slot])'
    <3>1. CASE q = r
      BY <2>4, <3>1 DEF Remembers
    <3>2. CASE q # r
      <4>1. q \in Live /\ req'[q] = req[q]
        BY <2>4, <3>2 DEF Live
      <4> QED BY <2>2, <4>1 DEF ConvInv, Remembers
    <3> QED BY <3>1, <3>2
  <2> QED BY <2>2, <2>5 DEF ConvInv, StagedInv
<1>5. ASSUME NEW r \in Requests, Finish(r)
      PROVE  ConvInv'
  <2>1. PICK s : s = req[r].slot
    OBVIOUS
  <2>2. /\ r \in Live /\ req' = [req EXCEPT ![r] = NoRequest]
        /\ conv' = [conv EXCEPT ![s] = [i \in DOMAIN @ |-> <<Junk>>]]
        /\ UNCHANGED <<conf, staged>>
    BY <1>5, <2>1 DEF Finish
  <2>3. s \in Slots /\ conv \in [Slots -> Seq(Entries)] /\ DOMAIN req = Requests
    BY <2>1, <2>2, RequestIs DEF ConvInv, RequestInv
  <2>4. PICK junk : junk = [i \in DOMAIN conv[s] |-> <<Junk>>]
    OBVIOUS
  <2>5. junk \in Seq(Entries) /\ Len(junk) = StateLen + conf.drafts
    <3>1. conv[s] \in Seq(Entries) /\ Len(conv[s]) = StateLen + conf.drafts
      BY <2>3 DEF ConvInv
    <3> QED BY <2>4, <3>1, JunkIs
  <2>6. conv' = [conv EXCEPT ![s] = junk]
    BY <2>2, <2>4
  <2>7. conv' \in [Slots -> Seq(Entries)] /\ \A t \in Slots : Len(conv'[t]) = StateLen + conf.drafts
    BY <2>3, <2>5, <2>6 DEF ConvInv
  <2>8. ASSUME NEW q \in Live'
        PROVE  Remembers(q, conv[req[q].slot])'
    <3>1. q \in Live /\ q # r /\ req'[q] = req[q]
      BY <2>2, <2>3 DEF Live, NoRequest
    <3>2. req[q].slot # s /\ req[q].slot \in Slots
      BY <2>1, <2>2, <3>1, RequestIs DEF RequestInv
    <3>3. conv'[req[q].slot] = conv[req[q].slot]
      BY <2>3, <2>6, <3>2
    <3> QED BY <3>1, <3>3 DEF ConvInv, Remembers
  <2> QED BY <2>2, <2>7, <2>8 DEF ConvInv, StagedInv
<1>6. CASE DummyRun
  <2>1. PICK n \in 1 .. conf.maxReqs, q \in {1, Width} :
          \E desc \in Dispatch(conf, descs, captured,
                       [reqs |-> n, tokens |-> n * q, uniform |-> q, longest |-> q, loras |-> 0]) :
            LET rows == [i \in 1 .. IF desc.reqs = 0 THEN n ELSE desc.reqs |-> NullRow]
                read == Read(desc, rows)
            IN  /\ staged' = DummyStaged(desc, rows)
                /\ conv' = WriteBack(conv, read,
                             Convolved(read, [i \in 0 .. Len(rows) |-> 0],
                                       [i \in 1 .. desc.tokens |-> <<Junk>>]))
    BY <1>6 DEF DummyRun
  <2>2. PICK b : b = [reqs |-> n, tokens |-> n * q, uniform |-> q, longest |-> q, loras |-> 0]
    OBVIOUS
  <2>3. b.reqs = n
    BY <2>2
  <2>4. PICK desc, m, rows :
          /\ desc \in Dispatch(conf, descs, captured, b)
          /\ m = RowsOf(desc, n) /\ rows = [i \in 1 .. m |-> NullRow]
          /\ staged' = Staged(desc, rows)
          /\ conv' = WriteBack(conv, Read(desc, rows),
                       Convolved(Read(desc, rows), [i \in 0 .. Len(rows) |-> 0],
                                 [i \in 1 .. desc.tokens |-> <<Junk>>]))
    <3> HIDE <1>6
    <3>1. PICK desc \in Dispatch(conf, descs, captured, b) :
            LET rows == [i \in 1 .. IF desc.reqs = 0 THEN n ELSE desc.reqs |-> NullRow]
                read == Read(desc, rows)
            IN  /\ staged' = DummyStaged(desc, rows)
                /\ conv' = WriteBack(conv, read,
                             Convolved(read, [i \in 0 .. Len(rows) |-> 0],
                                       [i \in 1 .. desc.tokens |-> <<Junk>>]))
      BY <2>1, <2>2
    <3>2. PICK m, rows : m = RowsOf(desc, n) /\ rows = [i \in 1 .. m |-> NullRow]
      OBVIOUS
    <3>3. /\ staged' = Staged(desc, rows)
          /\ conv' = WriteBack(conv, Read(desc, rows),
                       Convolved(Read(desc, rows), [i \in 0 .. Len(rows) |-> 0],
                                 [i \in 1 .. desc.tokens |-> <<Junk>>]))
      BY <3>1, <3>2 DEF RowsOf, DummyStaged
    <3> QED BY <3>1, <3>2, <3>3
  <2>5. captured /\ UNCHANGED <<conf, req>>
    BY <1>6 DEF DummyRun
  <2>6. conf.maxReqs \in Nat \ {0} /\ n \in Nat \ {0}
    <3>1. conf.maxReqs \in Nat \ {0}
      BY <1>1, ConfIs DEF Configs
    <3> QED BY <3>1
  <2>7. m \in Nat /\ (desc.mode = "FULL" => m <= conf.maxReqs)
    <3>1. CASE desc \in descs
      <4>1. desc \in CaptureDescs(conf)
        BY <3>1 DEF CaptureInv
      <4>2. desc.reqs \in Nat /\ (desc.mode = "FULL" => desc.reqs \in 1 .. conf.maxReqs)
        BY <1>1, <4>1, ShapeReqs
      <4> QED BY <2>4, <2>6, <4>2 DEF RowsOf
    <3>2. CASE desc \notin descs
      <4>1. desc = Desc("NONE", b.tokens, b.reqs, 0, 0, EffectiveLoras(conf, b.loras))
        BY <2>4, <3>2, Chosen DEF Candidates
      <4>2. desc.mode # "FULL" /\ desc.reqs = n
        BY <2>3, <4>1 DEF Desc
      <4> QED BY <2>4, <2>6, <4>2 DEF RowsOf
    <3> QED BY <3>1, <3>2
  <2>8. rows \in [1 .. m -> RowRecord]
    BY <1>1, <2>4, <2>7, NullRows
  <2>9. staged' \in [1 .. conf.maxReqs -> Slots]
    BY <1>1, <2>4, <2>7, <2>8, StagedIs
  <2>10. Read(desc, rows) = rows
    BY <1>1, <2>4, <2>7, <2>8, ReadIs
  <2>11. PICK starts, inputs :
           conv' = WriteBack(conv, rows, Convolved(rows, starts, inputs))
    BY <2>4, <2>10
  <2>12. conv' = conv
    BY <1>1, <2>4, <2>7, <2>11, PaddingLeavesNoTrace
  <2> QED BY <2>5, <2>9, <2>12 DEF ConvInv, StagedInv, Remembers, Live
<1>7. CASE UNCHANGED vars
  BY <1>7 DEF vars, ConvInv, StagedInv, Remembers, Live
<1> QED BY <1>2, <1>3, <1>4, <1>5, <1>6, <1>7, ConvInvInStep DEF Next

LEMMA ConvInvAtFirst ==
  ASSUME Init
  PROVE  ConvInv
<1>1. conf \in Confs /\ conf.drafts \in Nat
  BY WidthIs DEF Init
<1>2. PICK zeros : zeros = Zeros(StateLen + conf.drafts)
  OBVIOUS
<1>3. zeros \in Seq(Entries) /\ Len(zeros) = StateLen + conf.drafts
  <2>1. Zero \in Entries /\ StateLen + conf.drafts \in Nat
    BY <1>1 DEF Entries
  <2> QED BY <1>2, <2>1, ZerosType
<1>4. conv = [s \in Slots |-> zeros]
  BY <1>2 DEF Init
<1>5. NullSlot \in Slots
  BY SlotsAre DEF NullSlot
<1>6. staged \in [1 .. conf.maxReqs -> Slots]
  BY <1>5 DEF Init
<1>7. Live = {}
  BY DEF Init, Live, NoRequest
<1> QED BY <1>3, <1>4, <1>6, <1>7 DEF ConvInv, StagedInv

-----------------------------------------------------------------------------
LEMMA WindowsStep ==
  ASSUME CaptureInv, RequestInv, ConvInv, WindowsAreHistory, [Next]_vars
  PROVE  WindowsAreHistory'
<1>1. SUFFICES ASSUME Step
               PROVE  WindowsAreHistory'
  BY OnlyStepShows DEF WindowsAreHistory
<1>2. PICK batch, work, desc, n, order, starts : Running(batch, work, desc, n, order, starts)
  BY <1>1, StepRuns
<1>3. /\ Lies(work, n, order, starts) /\ starts = Starts(order, work)
      /\ Forward(desc, order, work)
  BY <1>2 DEF Running
<1>4. Len(order) = n /\ conf \in Confs
  BY <1>3 DEF Lies, CaptureInv
<1>5. ASSUME NEW t \in shown'
      PROVE  t.window = HistoryOf(t.req, t.text)
  <2>1. PICK i \in 1 .. n : \E k \in 1 .. work[order[i]].count :
          ShowsToken(t, desc, work, n, order, starts, i, k)
    BY <1>3, <1>4, ShownIs
  <2>2. PICK k \in 1 .. work[order[i]].count : ShowsToken(t, desc, work, n, order, starts, i, k)
    BY <2>1
  <2>3. PICK q, w, fed : q = order[i] /\ w = work[q] /\ fed = Fed(q, w)
    OBVIOUS
  <2>4. PICK result : result = Results(desc, work, n, order, starts)[i]
    OBVIOUS
  <2>5. /\ t.req = q /\ t.window = result.outputs[k]
        /\ t.text = SubSeq(fed, 1, req[q].computed + k)
    BY <2>2, <2>3, <2>4 DEF ShowsToken, Seen
  <2>6. q \in Live /\ q \in Requests /\ w \in Works /\ Suits(w, q) /\ w.count \in Nat \ {0}
    BY <1>3, <2>3 DEF Lies
  <2>7. PICK c \in Nat, m \in Nat \ {0} : c = req[q].computed /\ m = w.count /\ k \in 1 .. m
    BY <2>3, <2>6, RequestIs
  <2>8. fed \in Seq(Words) /\ Len(fed) = c + m
    BY <2>3, <2>6, <2>7, FedIs DEF FedShows
  <2>9. GoodResult(result, q, w)
    BY <1>2, <1>4, <2>3, <2>4, ForwardRow
  <2>10. result.outputs[k] = Window(PastOf(q, fed, c + m), StateLen + (c + k))
    BY <2>3, <2>7, <2>9 DEF GoodResult
  <2>11. c + k \in 1 .. Len(fed) /\ c + m \in c + k .. Len(fed)
    BY <2>7, <2>8
  <2>12. Window(PastOf(q, fed, c + m), StateLen + (c + k)) = HistoryOf(q, t.text)
    <3>1. PICK at, end, text : at = c + k /\ end = c + m /\ text = t.text
      OBVIOUS
    <3>2. at \in 1 .. Len(fed) /\ end \in at .. Len(fed) /\ text = SubSeq(fed, 1, at)
      BY <2>5, <2>7, <2>11, <3>1
    <3>3. WindowOf(q, fed, end, at) = HistoryOf(q, text)
      BY <2>6, <2>8, <3>2, WindowIsHistory
    <3> QED BY <3>1, <3>3 DEF WindowOf
  <2> QED BY <2>5, <2>10, <2>12
<1> QED BY <1>5 DEF WindowsAreHistory, HistoryOf

(* The short convolution sees history: whatever drafts were rejected,      *)
(* whichever graph ran, whoever had the row of the cache before.           *)
THEOREM WindowsAreHistoryCorrect == Spec => []WindowsAreHistory
<1>1. Init => CaptureInv /\ RequestInv /\ ConvInv /\ WindowsAreHistory
  BY CaptureInvAtFirst, RequestInvAtFirst, ConvInvAtFirst DEF Init, WindowsAreHistory
<1>2. CaptureInv /\ RequestInv /\ ConvInv /\ WindowsAreHistory /\ [Next]_vars
        => CaptureInv' /\ RequestInv' /\ ConvInv' /\ WindowsAreHistory'
  BY CaptureInvStep, RequestInvStep, ConvInvStep, WindowsStep
<1> QED BY <1>1, <1>2, PTL DEF Spec

LEMMA ForwardTyped ==
  ASSUME CaptureInv, RequestInv, ConvInv
  PROVE  TypeOK
<1>1. /\ conf \in Confs /\ left \subseteq descs /\ graphs \subseteq descs
      /\ hidden \in 0 .. conf.maxSize /\ captured \in BOOLEAN
  BY DEF CaptureInv
<1>2. failed \in BOOLEAN
  BY DEF CaptureInv
<1>3. ASSUME NEW r \in Requests
      PROVE  /\ Len(req[r].text) <= MaxText
             /\ req[r].computed <= Len(req[r].text)
             /\ req[r].accepted \in 1 .. Width
             /\ req[r].slot \in Slots
  <2>1. CASE r \in Live
    <3>1. Len(req[r].text) \in req[r].prompt .. MaxText
      BY <2>1, RequestIs DEF SoundRequest
    <3>2. req[r].accepted \in 1 .. Width
      BY <2>1, RequestIs DEF SoundRequest
    <3> QED BY <2>1, <3>1, <3>2, RequestIs
  <2>2. CASE r \notin Live
    <3>1. req[r] = NoRequest
      BY <2>2 DEF RequestInv
    <3>2. Len(req[r].text) = 0 /\ req[r].computed = 0 /\ req[r].accepted = 1 /\ req[r].slot = NullSlot
      BY <3>1 DEF NoRequest
    <3>3. 1 \in 1 .. Width
      BY <1>1, WidthIs
    <3>4. NullSlot \in Slots
      BY SlotsAre DEF NullSlot
    <3> QED BY <3>2, <3>3, <3>4, ForwardAssumption
  <2> QED BY <2>1, <2>2
<1>4. \A s \in Slots : Len(conv[s]) = StateLen + conf.drafts
  BY DEF ConvInv
<1> QED BY <1>1, <1>2, <1>3, <1>4 DEF TypeOK

(* The types of the composition.                                           *)
THEOREM ForwardTypeCorrect == Spec => []TypeOK
<1>1. Init => CaptureInv /\ RequestInv /\ ConvInv
  BY CaptureInvAtFirst, RequestInvAtFirst, ConvInvAtFirst
<1>2. CaptureInv /\ RequestInv /\ ConvInv /\ [Next]_vars => CaptureInv' /\ RequestInv' /\ ConvInv'
  BY CaptureInvStep, RequestInvStep, ConvInvStep
<1>3. CaptureInv /\ RequestInv /\ ConvInv => TypeOK
  BY ForwardTyped
<1> QED BY <1>1, <1>2, <1>3, PTL DEF Spec

=============================================================================
