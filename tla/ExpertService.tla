--------------------------- MODULE ExpertService ---------------------------
(***************************************************************************)
(* What one MoE layer promises, whatever cache is mounted under it: every  *)
(* batch of routed expert ids is answered, and each expert of the batch    *)
(* that this rank owns is computed from its own bytes, all its tensors     *)
(* alike.  An expert of another rank contributes nothing here.             *)
(***************************************************************************)
CONSTANTS Expert,       \* global expert ids
          OwnBytes      \* expert -> the set holding the name of its bytes,
                        \* {} for an expert of another rank

VARIABLES phase,        \* "idle", "busy" with a batch, or "answered"
          batch, answer

service == <<phase, batch, answer>>

Init == phase = "idle" /\ batch = {} /\ answer = <<>>

Accept == /\ phase = "idle" /\ phase' = "busy"
          /\ batch' \in SUBSET Expert
          /\ UNCHANGED answer

Answer == /\ phase = "busy" /\ phase' = "answered"
          /\ answer' = [e \in batch |-> OwnBytes[e]]
          /\ UNCHANGED batch

Return == /\ phase = "answered" /\ phase' = "idle"
          /\ batch' = {} /\ answer' = <<>>

Next == Accept \/ Answer \/ Return

Spec == Init /\ [][Next]_service /\ WF_service(Answer \/ Return)

=============================================================================
