----------------------------- MODULE HybridLru -----------------------------
(***************************************************************************)
(* The hybrid VMM + LRU expert cache of one MoE layer on one rank.         *)
(*                                                                         *)
(* Prefill-size batches run over the whole row space through rot_map.      *)
(* Decode-size batches first rotate the experts they miss into the device  *)
(* prefix (one kernel updates the maps, one gather per tensor copies the   *)
(* rows), then run over the prefix through hot_map.  The kernels of a      *)
(* batch run one after another on a stream; the update kernel is one       *)
(* program whose loop over the requested ids is one action per id.         *)
(*                                                                         *)
(* The state starts as maybe_init_mixed_vmm_lru_hybrid leaves it.  The     *)
(* kernel's register copies of slot_global_ids and slot_ages are modelled  *)
(* in place: nothing else reads the tensors before the kernel stores them. *)
(***************************************************************************)
EXTENDS HotLayout

CONSTANTS Tensors,      \* the expert tensors (weights, scales, g_idx, ...)
          Rankings,     \* the rankings a deployment may boot with
          TopK,         \* moe.experts_per_token
          MaxTokens,    \* VLLM_WNA16_STATIC_HOT_CACHE_MAX_TOKENS
          MaxBatch,     \* bound: tokens in one batch
          HalfInt,      \* ages and clock are int32: HalfInt stands for 2^31
          ClockLimit    \* bound: the clock values a run explores

VARIABLES
  cap,                  \* len(cache.global_ids), the slots of the prefix
  cold_map,             \* global id -> permanent host row, -1 if remote
  hot_map,              \* global id -> slot, -1 if not cached
  rot_map,              \* global id -> row the prefill path reads
  slot_global_ids, slot_ages, clock,
  miss_local_ids, miss_slots,         \* the kernel's output buffers
  rows,                 \* tensor -> row -> the local id whose bytes it holds
  pc,                   \* where the stream is in apply()
  ids,                  \* topk_ids.reshape(-1) of the batch being served
  pos,                  \* request_index of the update kernel, from 1
  launch_map,           \* hot_map when the update kernel was launched
  protected,            \* slots the update kernel may not reuse
  todo,                 \* tensors whose gather has not run yet
  served                \* global id -> the bytes its part was computed from

maps    == <<hot_map, rot_map>>
slots   == <<slot_global_ids, slot_ages>>
misses  == <<miss_local_ids, miss_slots>>
vars    == <<cap, cold_map, maps, slots, clock, misses, rows,
             pc, ids, pos, launch_map, protected, todo, served>>

ASSUME CacheAssumption ==
  /\ \A ranking \in Rankings : ranking \in Seq(Int)
  /\ TopK \in Nat \ {0} /\ MaxTokens \in Nat \ {0} /\ MaxBatch \in Nat
  /\ HalfInt \in Nat /\ CacheSize < HalfInt
  /\ ClockLimit \in Nat

Slots    == 0 .. cap - 1
MissRows == MaxTokens * TopK
Ids      == Global \cup {-1}     \* what the router emits; -1 pads a batch
Requests == 1 .. Len(ids)

ToInt32(x) == ((x + HalfInt) % (2 * HalfInt)) - HalfInt
Sentinel   == HalfInt - 1        \* 0x7FFFFFFF, the age of a protected slot

-----------------------------------------------------------------------------
(* Boot: the tensors as filled, the maps as installed.                      *)

Installed(ranking) ==
  /\ cap = HotCount(ranking)
  /\ cold_map = [g \in Global |-> ColdRow(ranking, g)]
  /\ slot_global_ids = HotGlobals(ranking)
  /\ hot_map = [g \in Global |->
                  IF \E s \in Slots : slot_global_ids[s] = g
                    THEN CHOOSE s \in Slots : slot_global_ids[s] = g ELSE -1]
  /\ rot_map = [g \in Global |-> ServedRow(ranking, g)]
  /\ slot_ages = [s \in Slots |-> cap - s]
  /\ clock = cap
  /\ rows = [t \in Tensors |-> FillNewToOld(ranking)]

(* torch.empty leaves the miss buffers undefined: 0 would name a real slot. *)
Init ==
  /\ \E ranking \in Rankings : HotCount(ranking) > 0 /\ Installed(ranking)
  /\ miss_local_ids = [k \in 1 .. MissRows |-> 0]
  /\ miss_slots = [k \in 1 .. MissRows |-> 0]
  /\ pc = "idle" /\ ids = <<>> /\ pos = 1
  /\ launch_map = <<>> /\ protected = {} /\ todo = {} /\ served = <<>>

-----------------------------------------------------------------------------
(* apply(): a batch takes the plain path when it is larger than the cache   *)
(* was configured for, or asks for more experts than there are slots.       *)

TakesPlainPath(tokens, batch) ==
  \/ tokens > MaxTokens
  \/ Len(batch) > MissRows
  \/ Len(batch) > cap

RoutePlain ==
  /\ pc = "idle"
  /\ \E n \in 1 .. MaxBatch : \E batch \in [1 .. n * TopK -> Ids] :
       /\ TakesPlainPath(n, batch)
       /\ ids' = batch
  /\ pc' = "plain"
  /\ UNCHANGED <<cap, cold_map, maps, slots, clock, misses, rows,
                 pos, launch_map, protected, todo, served>>

Requested_Nothing(batch) == {}          \* mutant: no slot is protected at first

Requested(batch) ==
  {s \in Slots : \E k \in DOMAIN batch : slot_global_ids[s] = batch[k]}

RouteDecode ==
  /\ pc = "idle"
  /\ \E n \in 1 .. MaxBatch : \E batch \in [1 .. n * TopK -> Ids] :
       /\ ~TakesPlainPath(n, batch)
       /\ clock + Len(batch) <= ClockLimit
       /\ ids' = batch
       /\ protected' = Requested(batch)
  /\ launch_map' = hot_map
  /\ pc' = "update" /\ pos' = 1
  /\ UNCHANGED <<cap, cold_map, maps, slots, clock, misses, rows, todo, served>>

-----------------------------------------------------------------------------
(* _update_lru_expert_map_kernel, one iteration of its loop.                *)

AppearedBefore(k) == \E j \in 1 .. k - 1 : ids[j] = ids[k]

(* No barrier orders the kernel's loads of cache_map after its own stores:  *)
(* a load sees what an earlier iteration stored, or the value at launch.    *)
CacheSlot(g) == {hot_map[g], launch_map[g]}

VictimAge(s) == IF s \in protected THEN Sentinel ELSE slot_ages[s]

(* argmin: the first slot with the lowest age. *)
IsVictim(s) ==
  /\ \A x \in Slots : VictimAge(s) <= VictimAge(x)
  /\ \A x \in 0 .. s - 1 : VictimAge(s) # VictimAge(x)

Victim == CHOOSE s \in Slots : IsVictim(s)

NewAge_OfRequest == ToInt32(pos)        \* mutant: the clock is left out

NewAge == ToInt32(clock + pos)

AfterEviction_Stale(map, old, oldRow, g, slot) ==   \* mutant: the evicted
  [map EXCEPT ![g] = slot]                          \* expert keeps its entry

AfterEviction(map, old, oldRow, g, slot) ==
  [map EXCEPT ![g] = slot, ![old] = oldRow]

NoMiss == /\ miss_local_ids' = [miss_local_ids EXCEPT ![pos] = -1]
          /\ miss_slots' = [miss_slots EXCEPT ![pos] = -1]

NextRequest == /\ pc = "update" /\ pos \in Requests
               /\ pos' = pos + 1
               /\ UNCHANGED <<cap, cold_map, clock, rows, pc, ids,
                              launch_map, todo, served>>

(* An id of another rank, padding, or a repeat of an id handled before. *)
RequestNothing ==
  /\ NextRequest
  /\ IsLocal(ids[pos]) => AppearedBefore(pos) /\ -1 \in CacheSlot(ids[pos])
  /\ NoMiss
  /\ UNCHANGED <<maps, slots, protected>>

RequestHit ==
  /\ NextRequest
  /\ IsLocal(ids[pos])
  /\ LET g == ids[pos] IN
       \E slot \in CacheSlot(g) \ {-1} :
         /\ rot_map' = [rot_map EXCEPT ![g] = slot]
         /\ slot_ages' = [slot_ages EXCEPT ![slot] = NewAge]
  /\ NoMiss
  /\ UNCHANGED <<hot_map, slot_global_ids, protected>>

RequestMiss ==
  /\ NextRequest
  /\ IsLocal(ids[pos]) /\ ~AppearedBefore(pos) /\ -1 \in CacheSlot(ids[pos])
  /\ LET g == ids[pos]
         slot == Victim
         old == slot_global_ids[slot]
     IN  /\ hot_map' = AfterEviction(hot_map, old, -1, g, slot)
         /\ rot_map' = AfterEviction(rot_map, old, cold_map[old], g, slot)
         /\ slot_global_ids' = [slot_global_ids EXCEPT ![slot] = g]
         /\ slot_ages' = [slot_ages EXCEPT ![slot] = NewAge]
         /\ protected' = protected \cup {slot}
         /\ miss_local_ids' = [miss_local_ids EXCEPT ![pos] = cold_map[g]]
         /\ miss_slots' = [miss_slots EXCEPT ![pos] = slot]

UpdateDone ==
  /\ pc = "update" /\ pos = Len(ids) + 1
  /\ clock' = ToInt32(clock + Len(ids))
  /\ pc' = "gather" /\ todo' = Tensors /\ launch_map' = <<>>
  /\ UNCHANGED <<cap, cold_map, maps, slots, misses, rows,
                 ids, pos, protected, served>>

-----------------------------------------------------------------------------
(* _gather_lru_rows: one launch per tensor.  The programs of a launch run   *)
(* in any order, so a slot named by two of them ends with either row.       *)

Missed(slot) == {k \in Requests : miss_slots[k] = slot /\ miss_local_ids[k] >= 0}

GatherInto(tensor, slot) == {tensor[miss_local_ids[k]] : k \in Missed(slot)}

Gathered(tensor, after) ==
  \A slot \in Slots :
    after[slot] \in IF Missed(slot) = {} THEN {tensor[slot]}
                                        ELSE GatherInto(tensor, slot)

Gather ==
  /\ pc = "gather"
  /\ \E t \in todo : \E after \in [Slots -> Local] :
       /\ Gathered(rows[t], after)
       /\ rows' = [rows EXCEPT ![t] =
                    [r \in DOMAIN rows[t] |->
                       IF r \in Slots THEN after[r] ELSE rows[t][r]]]
       /\ todo' = todo \ {t}
  /\ UNCHANGED <<cap, cold_map, maps, slots, clock, misses,
                 pc, ids, pos, launch_map, protected, served>>

-----------------------------------------------------------------------------
(* moe_kernel.apply: each requested expert with a row in the map is         *)
(* computed from that row of every tensor; -1 masks the expert.             *)

BytesServed(map) ==
  [g \in {ids[k] : k \in Requests} \cap Global |->
     IF map[g] = -1 THEN {} ELSE {rows[t][map[g]] : t \in Tensors}]

Apply(map) == /\ served' = BytesServed(map)
              /\ pc' = "done"
              /\ UNCHANGED <<cap, cold_map, maps, slots, clock, misses, rows,
                             ids, pos, launch_map, protected, todo>>

ApplyPlain  == pc = "plain" /\ Apply(rot_map)
ApplyDecode == pc = "gather" /\ todo = {} /\ Apply(hot_map)

Return ==
  /\ pc = "done"
  /\ pc' = "idle" /\ ids' = <<>> /\ pos' = 1 /\ protected' = {} /\ served' = <<>>
  /\ UNCHANGED <<cap, cold_map, maps, slots, clock, misses, rows,
                 launch_map, todo>>

-----------------------------------------------------------------------------
Next == \/ RoutePlain \/ ApplyPlain
        \/ RouteDecode
        \/ RequestNothing \/ RequestHit \/ RequestMiss \/ UpdateDone
        \/ Gather \/ ApplyDecode
        \/ Return

(* The stream runs what is launched on it; nobody owes the layer a batch.  *)
StreamStep == Next /\ pc # "idle"

Spec == Init /\ [][Next]_vars /\ WF_vars(StreamStep)

-----------------------------------------------------------------------------
(* Properties. *)

(* Every tensor of the cache keeps its shape and its range of values. *)
TypeOK ==
  /\ cap \in 1 .. CacheSize
  /\ hot_map \in [Global -> Slots \cup {-1}]
  /\ cold_map \in [Global -> -1 .. cap + NumLocal - 1]
  /\ rot_map \in [Global -> -1 .. cap + NumLocal - 1]
  /\ pc = "update" => launch_map \in [Global -> Slots \cup {-1}]
  /\ slot_global_ids \in [Slots -> {g \in Global : IsLocal(g)}]
  /\ slot_ages \in [Slots -> -HalfInt .. HalfInt - 1]
  /\ clock \in -HalfInt .. HalfInt - 1
  /\ miss_local_ids \in [1 .. MissRows -> Int]
  /\ miss_slots \in [1 .. MissRows -> Slots \cup {-1}]
  /\ rows \in [Tensors -> [0 .. cap + NumLocal - 1 -> Local]]
  /\ pc \in {"idle", "plain", "update", "gather", "done"}
  /\ ids \in Seq(Ids) /\ pos \in Nat
  /\ protected \subseteq Slots /\ todo \subseteq Tensors

(* Every expert of the rank has a host row of its own that holds its bytes  *)
(* in every tensor, whatever was evicted before: a promotion never writes   *)
(* one, so an eviction never loses weights.  No other expert has a row.     *)
HostCopies ==
  \A g \in Global :
    IF IsLocal(g)
      THEN /\ cold_map[g] \in cap .. cap + NumLocal - 1
           /\ \A t \in Tensors : rows[t][cold_map[g]] = OrigMap[g]
      ELSE cold_map[g] = -1

(* The decode map and the slots' own record of their occupant are inverse. *)
SlotsMirrorMap ==
  /\ \A s \in Slots : hot_map[slot_global_ids[s]] = s
  /\ \A g \in Global : hot_map[g] # -1 => slot_global_ids[hot_map[g]] = g

(* Decode and prefill never disagree about where an expert lives: rot_map   *)
(* names its slot while it is cached and its host row otherwise.            *)
OneLocation ==
  \A g \in Global :
    rot_map[g] = IF hot_map[g] # -1 THEN hot_map[g] ELSE cold_map[g]

(* The slots the kernel may not reuse are those of the batch's experts, and *)
(* every expert of the batch handled so far has a slot: an iteration never  *)
(* evicts what an earlier or a later one of the same batch needs.           *)
BatchResident ==
  pc \in {"update", "gather"} =>
    /\ protected = Requested(ids)
    /\ \A k \in 1 .. pos - 1 : IsLocal(ids[k]) => hot_map[ids[k]] # -1

(* A slot holds the bytes of its occupant in every tensor, but for those a  *)
(* launched gather has yet to copy, and such a gather copies the right row. *)
Pending(t, s) == /\ pc \in {"update", "gather"}
                 /\ pc = "gather" => t \in todo
                 /\ \E k \in 1 .. pos - 1 : k \in Missed(s)

SlotBytes ==
  /\ \A t \in Tensors, s \in Slots :
       Pending(t, s) \/ rows[t][s] = OrigMap[slot_global_ids[s]]
  /\ pc \in {"update", "gather"} =>
       \A k \in 1 .. pos - 1 :
         IF miss_slots[k] = -1
           THEN miss_local_ids[k] = -1
           ELSE /\ slot_global_ids[miss_slots[k]] = ids[k]
                /\ miss_local_ids[k] = cold_map[ids[k]]

CacheInv == /\ HostCopies /\ SlotsMirrorMap /\ OneLocation
            /\ BatchResident /\ SlotBytes

(* What the coherence of a step rests on while the clock has not reached    *)
(* the sentinel: no slot is newer than the requests handled so far, a batch *)
(* in the kernel fits the slots and the buffers, and the load of a cache    *)
(* slot is stale for a repeated id at most.                                 *)
KernelInv ==
  /\ clock \in 0 .. HalfInt - 1
  /\ \A s \in Slots : slot_ages[s] <= (IF pc = "update" THEN clock + pos - 1 ELSE clock)
  /\ pc \in {"update", "gather"} => Len(ids) <= MissRows
  /\ pc = "gather" => pos = Len(ids) + 1
  /\ pc = "update" =>
       /\ pos \in 1 .. Len(ids) + 1
       /\ Len(ids) <= cap /\ clock + Len(ids) <= ClockLimit
       /\ \A k \in Requests : IsLocal(ids[k]) =>
            \/ launch_map[ids[k]] = hot_map[ids[k]]
            \/ launch_map[ids[k]] = -1 /\ \E j \in 1 .. pos - 1 : ids[j] = ids[k]

IInv == TypeOK /\ CacheInv /\ KernelInv

(* What the layer promises its caller; the batch it is busy with is the one *)
(* apply() was called with, and an answer is what the MoE kernel computed.  *)
Service == INSTANCE ExpertService WITH
  Expert   <- Global,
  OwnBytes <- [g \in Global |-> IF IsLocal(g) THEN {OrigMap[g]} ELSE {}],
  phase    <- CASE pc = "idle" -> "idle" [] pc = "done" -> "answered"
                [] OTHER -> "busy",
  batch    <- {ids[k] : k \in Requests} \cap Global,
  answer   <- served

(* Every batch is answered, and every expert in it is computed from its own *)
(* bytes, on both paths and after any history of rotations.                 *)
ServesOwnBytes == Service!Spec
=============================================================================
