----------------------------- MODULE PleService -----------------------------
(***************************************************************************)
(* What PLE CPU offload promises the model, whatever threads, flags and    *)
(* buffers stand behind it.  A group asks for the outputs of a real step   *)
(* when all its ranks have been given those of every forward before; the   *)
(* layers are answered one after the other; and each rank is given each    *)
(* layer of each of its forwards once, in the order of its plan: what was  *)
(* computed from the inputs of that step, or zeros in a dummy run.         *)
(***************************************************************************)
EXTENDS Naturals, Sequences

CONSTANTS DpSize, TpSize, NumLayers, Plans,
          Output,     \* step -> what is computed from its inputs
          Zeros

Groups == 0 .. DpSize - 1
Ranks  == Groups \X (0 .. TpSize - 1)
Layers == 1 .. NumLayers

VARIABLES plan,       \* group -> the kinds of its steps
          asked,      \* group -> the real step it asked for last
          answered,   \* group -> the layers of that step that are computed
          given       \* rank -> layer -> the forward it was given last, and what

service == <<plan, asked, answered, given>>

Init ==
  /\ plan \in [Groups -> Plans]
  /\ asked = [d \in Groups |-> 0]
  /\ answered = [d \in Groups |-> Layers]
  /\ given = [r \in Ranks |-> [l \in Layers |-> [forward |-> 0, got |-> Zeros]]]

\* Forward k is the next one the rank takes this layer for: a capture takes none.
IsNext(r, l, k) ==
  /\ k \in 1 .. Len(plan[r[1]]) /\ plan[r[1]][k] # "capture"
  /\ given[r][l].forward < k
  /\ \A j \in 1 .. k - 1 : plan[r[1]][j] # "capture" => j <= given[r][l].forward

Ask(d) ==
  /\ \E k \in 1 .. Len(plan[d]) :
       /\ plan[d][k] = "real"
       /\ \A r \in Ranks, l \in Layers : r[1] = d => IsNext(r, l, k)
       /\ asked' = [asked EXCEPT ![d] = k]
  /\ answered' = [answered EXCEPT ![d] = {}]
  /\ UNCHANGED <<plan, given>>

Answer(d) ==
  /\ \E l \in Layers \ answered[d] :
       /\ \A m \in 1 .. l - 1 : m \in answered[d]
       /\ answered' = [answered EXCEPT ![d] = @ \cup {l}]
  /\ UNCHANGED <<plan, asked, given>>

Give(r, l) ==
  /\ \E k \in 1 .. Len(plan[r[1]]) :
       /\ IsNext(r, l, k)
       /\ l > 1 => given[r][l - 1].forward = k
       /\ plan[r[1]][k] = "real" => asked[r[1]] = k /\ l \in answered[r[1]]
       /\ given' = [given EXCEPT ![r][l] =
                      [forward |-> k,
                       got |-> IF plan[r[1]][k] = "real" THEN Output[k] ELSE Zeros]]
  /\ UNCHANGED <<plan, asked, answered>>

Next ==
  \/ \E d \in Groups : Ask(d) \/ Answer(d)
  \/ \E r \in Ranks, l \in Layers : Give(r, l)

Spec == Init /\ [][Next]_service

=============================================================================
