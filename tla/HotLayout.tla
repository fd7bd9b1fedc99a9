----------------------------- MODULE HotLayout -----------------------------
(***************************************************************************)
(* Where maybe_init_mixed_vmm_hot_cache puts each expert of one MoE layer  *)
(* on one rank.  A ranking (hottest expert first) picks the experts of the *)
(* device-mapped prefix; the rows of every expert tensor are permuted      *)
(* hot-first, and the hybrid layout appends a host-mapped copy of the      *)
(* whole permutation behind the prefix.                                    *)
(*                                                                         *)
(* Experts are named by their global id; the bytes of an expert are named  *)
(* by its local id, its row in the checkpoint's tensor.                    *)
(***************************************************************************)
EXTENDS Integers, FiniteSets, Sequences

CONSTANTS NumGlobal,    \* layer.global_num_experts
          NumLocal,     \* w13.shape[0], the experts this rank owns
          OrigMap,      \* layer.expert_map: global id -> local id, -1 if remote
          CacheSize     \* VLLM_WNA16_STATIC_HOT_CACHE_SIZE

Global == 0 .. NumGlobal - 1
Local  == 0 .. NumLocal - 1

ASSUME LayoutAssumption ==
  /\ NumGlobal \in Nat /\ NumLocal \in Nat /\ CacheSize \in Nat \ {0}
  /\ OrigMap \in [Global -> Local \cup {-1}]
  /\ \A g, h \in Global : OrigMap[g] = OrigMap[h] => g = h \/ OrigMap[g] = -1

IsLocal(g) == g \in Global /\ OrigMap[g] # -1

-----------------------------------------------------------------------------
(* A ranking's entry is kept when it names an expert of this rank that no   *)
(* earlier entry named; the first CacheSize kept entries are the hot ones,  *)
(* and the n-th of them (from 0) gets slot n.                               *)

Kept(ranking) ==
  {p \in 1 .. Len(ranking) :
     /\ IsLocal(ranking[p])
     /\ \A q \in 1 .. p - 1 :
          IsLocal(ranking[q]) => OrigMap[ranking[q]] # OrigMap[ranking[p]]}

Rank(ranking, p) == Cardinality({q \in Kept(ranking) : q < p})

HotPositions(ranking) == {p \in Kept(ranking) : Rank(ranking, p) < CacheSize}

HotCount(ranking) == Cardinality(HotPositions(ranking))

HotLocals(ranking) == {OrigMap[ranking[p]] : p \in HotPositions(ranking)}

HotGlobals(ranking) ==
  [s \in 0 .. HotCount(ranking) - 1 |->
     ranking[CHOOSE p \in HotPositions(ranking) : Rank(ranking, p) = s]]

(* old_to_new: hot experts first, in ranking order, then the others by id. *)
OldToNew(ranking) ==
  [l \in Local |->
     IF l \in HotLocals(ranking)
       THEN Rank(ranking,
                 CHOOSE p \in HotPositions(ranking) : OrigMap[ranking[p]] = l)
       ELSE HotCount(ranking)
              + Cardinality({m \in Local \ HotLocals(ranking) : m < l})]

NewToOld(ranking) ==
  [k \in Local |-> CHOOSE l \in Local : OldToNew(ranking)[l] = k]

-----------------------------------------------------------------------------
(* The hybrid row space: a prefix of HotCount rows, then all NumLocal rows. *)

Rows(ranking) == 0 .. HotCount(ranking) + NumLocal - 1

FillNewToOld_HostFirst(ranking) ==      \* mutant: the order of the v2 draft
  [r \in Rows(ranking) |->
     IF r < NumLocal THEN NewToOld(ranking)[r]
                     ELSE NewToOld(ranking)[r - NumLocal]]

FillNewToOld(ranking) ==
  [r \in Rows(ranking) |->
     IF r < HotCount(ranking) THEN NewToOld(ranking)[r]
                              ELSE NewToOld(ranking)[r - HotCount(ranking)]]

(* The permanent host row of an expert, and the row the installed expert    *)
(* map serves it from: the prefix for hot experts, the host row otherwise.  *)
ColdRow(ranking, g) ==
  IF IsLocal(g) THEN HotCount(ranking) + OldToNew(ranking)[OrigMap[g]] ELSE -1

ServedRow(ranking, g) ==
  IF ~IsLocal(g) THEN -1
  ELSE LET row == OldToNew(ranking)[OrigMap[g]]
       IN  IF row >= HotCount(ranking) THEN HotCount(ranking) + row ELSE row

=============================================================================
