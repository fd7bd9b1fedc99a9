-------------------------- MODULE HybridLruRecency --------------------------
(***************************************************************************)
(* HybridLru with a history of when each slot was last used, in decode     *)
(* batches: what the int32 ages of the slots are there to approximate.     *)
(***************************************************************************)
EXTENDS HybridLru

VARIABLES batches,      \* decode batches so far
          used          \* slot -> the last decode batch that used it

recencyVars == <<vars, batches, used>>

(* The hottest expert counts as the most recent one, as slot_ages starts.   *)
RecencyInit == /\ Init
               /\ batches = 0
               /\ used = [s \in Slots |-> -s]

Uses(g) == IF IsLocal(g) THEN {hot_map'[g]} ELSE {}

RecencyNext ==
  /\ Next
  /\ batches' = IF pc = "idle" /\ pc' = "update" THEN batches + 1 ELSE batches
  /\ used' = IF pc = "update" /\ pos' = pos + 1
               THEN [s \in Slots |-> IF s \in Uses(ids[pos]) THEN batches ELSE used[s]]
               ELSE used

RecencySpec == RecencyInit /\ [][RecencyNext]_recencyVars /\ WF_vars(StreamStep)

(* An expert the batch does not need loses its slot only if no other slot   *)
(* the batch does not need was unused for longer.                           *)
EvictsLeastRecent ==
  [][\A s \in Slots : slot_global_ids'[s] # slot_global_ids[s] =>
       \A x \in Slots \ Requested(ids) : used[s] <= used[x]]_recencyVars
=============================================================================
