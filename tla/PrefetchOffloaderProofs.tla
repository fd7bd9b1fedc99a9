----------------------- MODULE PrefetchOffloaderProofs -----------------------
(***************************************************************************)
(* Proofs about the prefetch of offloaded weights, for any number of       *)
(* layers and forwards and however the streams, captures and replays       *)
(* interleave: a layer reads its own weights in a model whose number of    *)
(* offloaded layers lets each slot of the ring be handed from a layer to   *)
(* the next one that uses it.  Nothing in the code sees to that number.    *)
(***************************************************************************)
EXTENDS PrefetchOffloader, TLAPS

(* Copies are started PrefetchStep layers ahead: a copy goes where the     *)
(* layer that just ran was, unless every layer has a slot of its own.      *)
Rotates == count <= PrefetchStep \/ count % PrefetchStep = 0

USE OffloaderAssumption

FirstLayers == {l \in Layers : l < PrefetchStep}

(* The layers whose weights the slots hold when the host is at layer l.    *)
Window(l) == {(l + i) % count : i \in 0 .. PrefetchStep - 1}

-----------------------------------------------------------------------------
(* The ring. *)

LEMMA ModFact ==
  ASSUME NEW x \in Nat, NEW n \in Nat \ {0}
  PROVE  /\ x % n \in 0 .. n - 1
         /\ x < n => x % n = x
OBVIOUS

LEMMA ModUnique ==
  ASSUME NEW n \in Nat \ {0}, NEW k \in Int, NEW r \in 0 .. n - 1,
         NEW x \in Nat, x = n * k + r
  PROVE  x % n = r
<1> DEFINE d == x \div n
           e == x % n
<1>1. d \in Int /\ e \in 0 .. n - 1 /\ x = n * d + e
  OBVIOUS
<1> HIDE DEF d, e
<1>2. n * (d - k) = r - e
  <2>1. n * (d - k) = n * d - n * k
    BY <1>1
  <2>2. n * d \in Int /\ n * k \in Int
    BY <1>1
  <2> QED BY <1>1, <2>1, <2>2
<1>3. d = k
  <2>1. d - k >= 1 => n * (d - k) >= n
    BY <1>1
  <2>2. d - k <= -1 => n * (d - k) <= -n
    BY <1>1
  <2> QED BY <1>1, <1>2, <2>1, <2>2
<1>4. e = r
  BY <1>1, <1>2, <1>3
<1> QED BY <1>4 DEF e

LEMMA ModNear ==
  ASSUME NEW n \in Nat \ {0}, NEW x \in Nat, NEW y \in Nat,
         x <= y, y - x < n, x % n = y % n
  PROVE  x = y
<1> DEFINE d == x \div n
           e == y \div n
           r == x % n
<1>1. d \in Int /\ e \in Int /\ r \in 0 .. n - 1 /\ x = n * d + r /\ y = n * e + r
  OBVIOUS
<1> HIDE DEF d, e, r
<1>2. y - x = n * (e - d)
  <2>1. n * (e - d) = n * e - n * d /\ n * e \in Int /\ n * d \in Int
    BY <1>1
  <2> QED BY <1>1, <2>1
<1>3. e - d >= 1 => n * (e - d) >= n
  BY <1>1
<1>4. e - d <= -1 => n * (e - d) <= -n
  BY <1>1
<1> QED BY <1>1, <1>2, <1>3, <1>4

(* Wrapping around a multiple of the pool keeps the slot.                  *)
LEMMA WrapKeepsSlot ==
  ASSUME NEW n \in Nat \ {0}, NEW m \in Nat \ {0}, m % n = 0,
         NEW x \in Nat, x < 2 * m
  PROVE  (x % m) % n = x % n
<1>1. CASE x < m
  BY <1>1, ModFact
<1>2. CASE x >= m
  <2>1. x - m \in 0 .. m - 1 /\ x = m * 1 + (x - m)
    BY <1>2
  <2>2. x % m = x - m
    BY <2>1, ModUnique
  <2> DEFINE q == m \div n
             d == (x - m) \div n
             r == (x - m) % n
  <2>3. q \in Int /\ m = n * q /\ d \in Int /\ r \in 0 .. n - 1 /\ x - m = n * d + r
    BY <2>1
  <2> HIDE DEF q, d, r
  <2>4. n * (q + d) = n * q + n * d /\ n * q \in Int /\ n * d \in Int
    BY <2>3
  <2>5. x = n * (q + d) + r /\ q + d \in Int
    BY <2>3, <2>4
  <2>6. x % n = r
    BY <2>3, <2>5, ModUnique
  <2> QED BY <2>2, <2>6 DEF r
<1> QED BY <1>1, <1>2

LEMMA WrapKeepsApart ==
  ASSUME NEW n \in Nat \ {0}, NEW m \in Nat \ {0}, m % n = 0,
         NEW x \in Nat, NEW y \in Nat, x < y, y - x < n, y < 2 * m
  PROVE  (x % m) % n # (y % m) % n
<1>1. x < 2 * m /\ x <= y /\ x # y
  OBVIOUS
<1>2. (x % m) % n = x % n
  BY ZenonT(30), <1>1, WrapKeepsSlot
<1>3. (y % m) % n = y % n
  BY ZenonT(30), WrapKeepsSlot
<1>4. x % n # y % n
  BY ZenonT(30), <1>1, ModNear
<1> QED BY <1>2, <1>3, <1>4

(* What the host needs of the ring: the layers in the slots have slots of  *)
(* their own, and each step hands one slot on.                             *)
LEMMA RingFact ==
  ASSUME Rotates, count \in Counts
  PROVE  /\ count \in Nat \ {0} /\ FirstLayers \subseteq Layers
         /\ Window(0) = FirstLayers
         /\ \A l \in Layers :
              /\ Slot(l) \in 0 .. PrefetchStep - 1
              /\ l \in Window(l) /\ Window(l) \subseteq Layers
              /\ \E f \in FirstLayers : Slot(f) = Slot(l)
              /\ (l + PrefetchStep) % count \in Layers
<1>1. count \in Nat \ {0}
  OBVIOUS
<1>2. FirstLayers \subseteq Layers
  BY DEF FirstLayers
<1>3. Window(0) = FirstLayers
  <2>1. ASSUME NEW i \in 0 .. PrefetchStep - 1
        PROVE  (0 + i) % count \in FirstLayers
    <3>1. i \in Nat
      OBVIOUS
    <3>2. i % count \in 0 .. count - 1 /\ (i < count => i % count = i)
      BY <1>1, <3>1, ModFact
    <3>3. i % count \in FirstLayers
      BY <3>2, <1>1 DEF FirstLayers, Layers
    <3> QED BY <3>3
  <2>2. ASSUME NEW l \in FirstLayers
        PROVE  \E i \in 0 .. PrefetchStep - 1 : l = (0 + i) % count
    <3>1. l \in 0 .. PrefetchStep - 1 /\ l < count
      BY <1>1 DEF FirstLayers, Layers
    <3>2. (0 + l) % count = l
      BY <1>1, <3>1, ModFact
    <3> QED BY <3>1, <3>2
  <2> QED BY <2>1, <2>2 DEF Window
<1>4. ASSUME NEW l \in Layers
      PROVE  /\ Slot(l) \in 0 .. PrefetchStep - 1
             /\ l \in Window(l) /\ Window(l) \subseteq Layers
             /\ \E f \in FirstLayers : Slot(f) = Slot(l)
             /\ (l + PrefetchStep) % count \in Layers
  <2>1. l \in Nat /\ l < count
    BY <1>1 DEF Layers
  <2>2. Slot(l) \in 0 .. PrefetchStep - 1
    BY <2>1, ModFact DEF Slot
  <2>3. l \in Window(l)
    <3>1. (l + 0) % count = l /\ 0 \in 0 .. PrefetchStep - 1
      BY <1>1, <2>1, ModFact
    <3> QED BY <3>1 DEF Window
  <2>4. ASSUME NEW i \in Nat PROVE (l + i) % count \in Layers
    <3>1. l + i \in Nat
      BY <2>1
    <3>2. (l + i) % count \in 0 .. count - 1
      BY <1>1, <3>1, ModFact
    <3> QED BY <3>2 DEF Layers
  <2>5. Window(l) \subseteq Layers
    BY <2>4 DEF Window
  <2>6. \E f \in FirstLayers : Slot(f) = Slot(l)
    <3>1. CASE count <= PrefetchStep
      BY <2>1, <3>1 DEF FirstLayers, Layers
    <3>2. CASE count > PrefetchStep
      <4>1. l % PrefetchStep \in 0 .. PrefetchStep - 1
        BY <2>1, ModFact
      <4>2. ASSUME NEW x \in 0 .. PrefetchStep - 1 PROVE x % PrefetchStep = x
        BY ModFact
      <4>3. l % PrefetchStep \in FirstLayers
        BY <1>1, <3>2, <4>1 DEF FirstLayers, Layers
      <4> QED BY <4>1, <4>2, <4>3 DEF Slot
    <3> QED BY <1>1, <3>1, <3>2
  <2> QED BY <2>2, <2>3, <2>4, <2>5, <2>6
<1> QED BY <1>1, <1>2, <1>3, <1>4

LEMMA SlotsAfterStep ==
  ASSUME Rotates, count \in Counts, NEW l \in Layers,
         NEW next \in Layers, next = (l + PrefetchStep) % count,
         NEW after \in Layers, after = IF l + 1 < count THEN l + 1 ELSE 0,
         NEW m \in Window(after), m # next
  PROVE  m \in Window(l) /\ Slot(m) # Slot(next)
<1>1. count \in Nat \ {0} /\ l \in 0 .. count - 1 /\ PrefetchStep \in Nat \ {0}
  BY DEF Layers
<1>2. PICK i \in 0 .. PrefetchStep - 1 : m = (after + i) % count
  BY DEF Window
<1>3. m = (l + (i + 1)) % count
  <2>1. CASE l + 1 < count
    <3>1. after + i = l + (i + 1)
      BY <1>1, <2>1
    <3> QED BY <1>2, <3>1
  <2>2. CASE l + 1 >= count
    <3>1. after = 0 /\ l + (i + 1) = count + i
      BY <1>1, <2>2
    <3> DEFINE r == i % count
               d == i \div count
    <3>2. r \in 0 .. count - 1 /\ d \in Int /\ i = count * d + r
      BY <1>1
    <3> HIDE DEF r, d
    <3>3. count * (d + 1) = count * d + count /\ count * d \in Int
      BY <1>1, <3>2
    <3>4. (count + i) % count = r
      BY <1>1, <3>2, <3>3, ModUnique
    <3>5. m = r
      BY <1>2, <3>1 DEF r
    <3> QED BY <3>1, <3>4, <3>5
  <2> QED BY <1>1, <2>1, <2>2
<1>4. i + 1 # PrefetchStep
  BY <1>3
<1>5. m \in Window(l)
  <2>1. i + 1 \in 0 .. PrefetchStep - 1
    BY <1>1, <1>4
  <2> QED BY <1>3, <2>1 DEF Window
<1>6. Slot(m) # Slot(next)
  <2>1. CASE count <= PrefetchStep
    <3>1. m \in Layers
      BY <1>5, RingFact
    <3>2. \A k \in Layers : k % PrefetchStep = k
      BY <1>1, <2>1 DEF Layers
    <3> QED BY <3>1, <3>2 DEF Slot
  <2>2. CASE count > PrefetchStep
    <3>1. count % PrefetchStep = 0
      BY <2>2 DEF Rotates
    <3>2. PICK x \in Nat, y \in Nat : x = l + (i + 1) /\ y = l + PrefetchStep
      BY <1>1
    <3>3. x < y /\ y - x < PrefetchStep /\ y < 2 * count
      BY <1>1, <1>4, <2>2, <3>2
    <3>4. (x % count) % PrefetchStep # (y % count) % PrefetchStep
      BY <1>1, <3>1, <3>3, WrapKeepsApart
    <3> QED BY <1>3, <3>2, <3>4 DEF Slot
  <2> QED BY <1>1, <2>1, <2>2
<1> QED BY <1>5, <1>6

-----------------------------------------------------------------------------
(* Types. *)

LEMMA OpTypes ==
  /\ \A s \in Streams, n \in Nat, o \in Nat : Await(s, n, o) \in Ops
  /\ \A l \in Layers : Read(l) \in Ops /\ Copy(l) \in Ops
  /\ Replayed \in Ops
  /\ \A op \in Ops :
       /\ op.op \in {"await", "read", "copy", "replay"}
       /\ op.op = "await" => op.on \in Streams /\ op.n \in Nat /\ op.of \in Nat
       /\ op.op \in {"read", "copy"} => op.layer \in Layers
<1>1. \A s \in Streams, n \in Nat, o \in Nat : Await(s, n, o) \in Ops
  BY DEF Await, Ops
<1>2. \A l \in Layers : Read(l) \in Ops /\ Copy(l) \in Ops
  BY DEF Read, Copy, Ops
<1>3. Replayed \in Ops
  BY DEF Ops
<1>4. ASSUME NEW op \in Ops
      PROVE  /\ op.op \in {"await", "read", "copy", "replay"}
             /\ op.op = "await" => op.on \in Streams /\ op.n \in Nat /\ op.of \in Nat
             /\ op.op \in {"read", "copy"} => op.layer \in Layers
  BY DEF Ops, Replayed
<1> QED BY <1>1, <1>2, <1>3, <1>4

(* What EXCEPT, and an append of a few operations, do to the programs.     *)
LEMMA EnqueueOn ==
  ASSUME program \in [Streams -> Seq(Ops)], NEW s \in Streams, NEW new \in Seq(Ops),
         Enqueue(On(s, new))
  PROVE  /\ program' \in [Streams -> Seq(Ops)]
         /\ \A t \in Streams : t # s => program'[t] = program[t]
         /\ Len(program'[s]) = End(s) + Len(new)
         /\ \A k \in 1 .. End(s) : program'[s][k] = program[s][k]
         /\ \A k \in 1 .. Len(new) : program'[s][End(s) + k] = new[k]
<1>1. On(s, new) = [t \in {s} |-> new]
  BY DEF On
<1>2. DOMAIN On(s, new) = {s} /\ On(s, new)[s] = new
  BY <1>1
<1>3. program' = [t \in Streams |-> IF t = s THEN program[t] \o new ELSE program[t]]
  BY <1>2 DEF Enqueue
<1>4. program[s] \in Seq(Ops)
  OBVIOUS
<1>5. PICK p : p = program[s] \o new
  OBVIOUS
<1>6. p \in Seq(Ops) /\ Len(p) = Len(program[s]) + Len(new)
      /\ (\A k \in 1 .. Len(program[s]) : p[k] = program[s][k])
      /\ (\A k \in 1 .. Len(new) : p[Len(program[s]) + k] = new[k])
  BY <1>4, <1>5
<1>7. program'[s] = p /\ \A t \in Streams : t # s => program'[t] = program[t]
  BY <1>3, <1>5
<1>8. program' \in [Streams -> Seq(Ops)]
  BY <1>3, <1>5, <1>6
<1> QED BY <1>6, <1>7, <1>8 DEF End

(* The host's walk over the layers, besides the types.                     *)
Walk ==
  /\ pc \in {"wait", "forward", "start"} => layer < count
  /\ pc = "idle" => layer = 0 /\ ~capturing
  /\ pc = "join" => capturing

(* What is under way has been enqueued, and in the graph only in a replay. *)
Running ==
  /\ \A s \in Streams : active[s] => ran[s] < End(s)
  /\ ~Replaying => ~active["graph_compute"] /\ ~active["graph_copy"]

Shape == TypeOK /\ count \in Counts /\ Walk /\ Running

LEMMA EnqueueKeepsShape ==
  ASSUME TypeOK, Running, NEW s \in Streams, NEW new \in Seq(Ops), Enqueue(On(s, new)),
         UNCHANGED <<ran, active>>
  PROVE  /\ program' \in [Streams -> Seq(Ops)]
         /\ \A t \in Streams : ran[t] <= Len(program'[t])
         /\ Running' /\ (Replaying' <=> Replaying)
<1>1. program \in [Streams -> Seq(Ops)] /\ ran \in [Streams -> Nat]
      /\ \A t \in Streams : ran[t] <= End(t)
  BY DEF TypeOK
<1>2. /\ program' \in [Streams -> Seq(Ops)]
      /\ \A t \in Streams : t # s => program'[t] = program[t]
      /\ Len(program'[s]) = End(s) + Len(new)
  BY <1>1, EnqueueOn
<1>3. ASSUME NEW t \in Streams PROVE ran[t] <= Len(program'[t])
  <2>1. Len(new) \in Nat /\ End(s) \in Nat
    BY <1>1 DEF End
  <2>2. CASE t = s
    BY <1>1, <1>2, <2>1, <2>2
  <2>3. CASE t # s
    BY <1>1, <1>2, <2>3 DEF End
  <2> QED BY <2>2, <2>3
<1>4. ASSUME NEW t \in Streams, active[t]
      PROVE  ran[t] < Len(program'[t]) /\ program'[t][ran[t] + 1] = program[t][ran[t] + 1]
  <2>1. Len(new) \in Nat /\ End(s) \in Nat /\ End(t) \in Nat /\ ran[t] \in Nat
    BY <1>1 DEF End
  <2>2. ran[t] < End(t)
    BY <1>4 DEF Running
  <2>3. CASE t = s
    <3>1. \A k \in 1 .. End(s) : program'[s][k] = program[s][k]
      BY <1>1, EnqueueOn
    <3>2. ran[t] + 1 \in 1 .. End(s)
      BY <2>1, <2>2, <2>3
    <3> QED BY <1>2, <2>1, <2>2, <2>3, <3>1, <3>2
  <2>4. CASE t # s
    BY <1>2, <2>2, <2>4 DEF End
  <2> QED BY <2>3, <2>4
<1>5. Replaying' <=> Replaying
  <2>1. Replaying <=> active["compute"] /\ program["compute"][ran["compute"] + 1] = Replayed
    BY DEF Replaying, Op
  <2>2. Replaying' <=> active["compute"] /\ program'["compute"][ran["compute"] + 1] = Replayed
    BY DEF Replaying, Op
  <2>3. "compute" \in Streams
    BY DEF Streams
  <2> QED BY <1>4, <2>1, <2>2, <2>3
<1>6. Running'
  <2>1. \A t \in Streams : active'[t] => ran'[t] < End(t)'
    BY <1>4 DEF End
  <2> QED BY <1>5, <2>1 DEF Running
<1> QED BY <1>2, <1>3, <1>5, <1>6

LEMMA InitShape == Init => Shape
<1> SUFFICES ASSUME Init PROVE Shape
  OBVIOUS
<1>1. count \in Counts /\ count \in Nat \ {0}
  BY DEF Init
<1> DEFINE n == IF PrefetchStep < count THEN PrefetchStep ELSE count
<1>2. n \in Nat /\ n <= count
  BY <1>1
<1>3. FirstCopies(n) \in Seq(Ops) /\ <<>> \in Seq(Ops)
  <2>1. ASSUME NEW k \in 1 .. 2 * n
        PROVE  (IF k % 2 = 1 THEN Await("compute", 0, 0) ELSE Copy(k \div 2 - 1)) \in Ops
    <3>1. Await("compute", 0, 0) \in Ops
      BY OpTypes DEF Streams
    <3>2. ASSUME k % 2 # 1 PROVE k \div 2 - 1 \in Layers
      BY <1>1, <1>2, <3>2 DEF Layers
    <3>3. k % 2 # 1 => Copy(k \div 2 - 1) \in Ops
      BY <3>2, OpTypes
    <3> QED BY <3>1, <3>3
  <2>2. FirstCopies(n) \in [1 .. 2 * n -> Ops]
    BY <2>1 DEF FirstCopies
  <2>3. 2 * n \in Nat
    BY <1>2
  <2> QED BY <2>2, <2>3
<1>4. program = [s \in Streams |-> IF s = "copy" THEN FirstCopies(n) ELSE <<>>]
      /\ valid = [l \in Layers |-> l < n]
      /\ done = [l \in Layers |-> [at |-> IF l < n THEN 2 * (l + 1) ELSE 0, of |-> 0]]
  BY DEF Init
<1> HIDE DEF n
<1>5. program \in [Streams -> Seq(Ops)]
  BY <1>3, <1>4
<1>6. ran \in [Streams -> Nat] /\ \A s \in Streams : ran[s] <= End(s)
  <2>1. ran = [s \in Streams |-> 0]
    BY DEF Init
  <2>2. \A s \in Streams : End(s) \in Nat
    BY <1>5 DEF End
  <2> QED BY <2>1, <2>2
<1>7. active \in [Streams -> BOOLEAN] /\ inCapture \in [Layers -> BOOLEAN]
      /\ buffer \in [0 .. PrefetchStep - 1 -> Layers \cup {-1}]
  BY DEF Init
<1>8. done \in [Layers -> [at : Nat, of : Nat]] /\ valid \in [Layers -> BOOLEAN]
  <2>1. \A l \in Layers : (IF l < n THEN 2 * (l + 1) ELSE 0) \in Nat
    BY DEF Layers
  <2> QED BY <1>4, <2>1
<1>9. pc = "idle" /\ layer = 0 /\ capturing = FALSE /\ forwards = 0 /\ captures = 0
  BY DEF Init
<1>10. layer \in 0 .. count
  BY <1>1, <1>9
<1>11. Running
  <2>1. \A s \in Streams : ~active[s]
    BY DEF Init
  <2> QED BY <2>1 DEF Running, Streams
<1> QED BY <1>1, <1>5, <1>6, <1>7, <1>8, <1>9, <1>10, <1>11 DEF Shape, Walk, TypeOK

(* What the host enqueues at a step: the operations and their stream.      *)
LEMMA HostOps ==
  ASSUME Shape
  PROVE  /\ Current \in Streams /\ CopyStream \in Streams
         /\ BeforeReplay \o <<Replayed>> \in Seq(Ops)
         /\ layer < count =>
              /\ layer \in Layers
              /\ WaitFor(layer) \in Seq(Ops) /\ <<Read(layer)>> \in Seq(Ops)
              /\ NextIndex \in Layers
              /\ <<Await(Current, ForkPoint, Capture), Copy(NextIndex)>> \in Seq(Ops)
              /\ <<Await("graph_copy", done[layer].at, done[layer].of)>> \in Seq(Ops)
<1>1. /\ program \in [Streams -> Seq(Ops)] /\ layer \in 0 .. count /\ count \in Nat \ {0}
      /\ captures \in Nat /\ done \in [Layers -> [at : Nat, of : Nat]]
  BY DEF Shape, TypeOK
<1>2. Current \in Streams /\ CopyStream \in Streams
  BY DEF Current, CopyStream, Streams
<1>3. Capture \in Nat /\ ForkPoint \in Nat /\ End("copy") \in Nat
  <2>1. \A s \in Streams : End(s) \in Nat
    BY <1>1 DEF End
  <2>2. ForkPoint \in Nat /\ End("copy") \in Nat
    BY <1>2, <2>1 DEF ForkPoint, Streams
  <2> QED BY <1>1, <2>2 DEF Capture
<1>4. ASSUME NEW s \in Streams, NEW n \in Nat, NEW o \in Nat
      PROVE  Await(s, n, o) \in Ops /\ <<Await(s, n, o)>> \in Seq(Ops)
  BY OpTypes
<1>5. SyncPrevOnload \in Seq(Ops)
  BY <1>3, <1>4 DEF SyncPrevOnload, Streams
<1>6. BeforeReplay \o <<Replayed>> \in Seq(Ops)
  <2>1. <<Replayed>> \in Seq(Ops)
    BY OpTypes
  <2> QED BY <1>5, <2>1 DEF BeforeReplay
<1>7. ASSUME layer < count
      PROVE  /\ layer \in Layers
             /\ WaitFor(layer) \in Seq(Ops) /\ <<Read(layer)>> \in Seq(Ops)
             /\ NextIndex \in Layers
             /\ <<Await(Current, ForkPoint, Capture), Copy(NextIndex)>> \in Seq(Ops)
             /\ <<Await("graph_copy", done[layer].at, done[layer].of)>> \in Seq(Ops)
  <2>1. layer \in Layers
    BY <1>1, <1>7 DEF Layers
  <2>2. done[layer].at \in Nat /\ done[layer].of \in Nat
    BY <1>1, <2>1
  <2>3. <<Await("graph_copy", done[layer].at, done[layer].of)>> \in Seq(Ops)
        /\ <<Await("copy", done[layer].at, done[layer].of)>> \in Seq(Ops)
    BY <1>4, <2>2 DEF Streams
  <2>4. WaitFor(layer) \in Seq(Ops)
    <3>1. <<>> \in Seq(Ops)
      OBVIOUS
    <3> DEFINE a == <<Await("graph_copy", done[layer].at, done[layer].of)>>
               b == <<Await("copy", done[layer].at, done[layer].of)>>
    <3> HIDE DEF a, b
    <3>2. WaitFor(layer) = IF capturing THEN IF inCapture[layer] THEN a ELSE <<>>
                           ELSE IF valid[layer] THEN b ELSE SyncPrevOnload
      BY DEF WaitFor, a, b
    <3>3. a \in Seq(Ops) /\ b \in Seq(Ops)
      BY <2>3 DEF a, b
    <3> QED BY <1>5, <3>1, <3>2, <3>3
  <2>5. <<Read(layer)>> \in Seq(Ops)
    BY <2>1, OpTypes
  <2>6. NextIndex \in Layers
    <3>1. layer + PrefetchStep \in Nat
      BY <1>1
    <3>2. (layer + PrefetchStep) % count \in 0 .. count - 1
      BY <1>1, <3>1, ModFact
    <3> QED BY <3>2 DEF NextIndex, Layers
  <2>7. <<Await(Current, ForkPoint, Capture), Copy(NextIndex)>> \in Seq(Ops)
    <3>1. Await(Current, ForkPoint, Capture) \in Ops /\ Copy(NextIndex) \in Ops
      BY <1>2, <1>3, <1>4, <2>6, OpTypes
    <3> QED BY <3>1
  <2> QED BY <2>1, <2>3, <2>4, <2>5, <2>6, <2>7
<1> QED BY <1>2, <1>6, <1>7

LEMMA ShapeHost == Shape /\ Host => Shape'
<1> SUFFICES ASSUME Shape, Host PROVE Shape'
  OBVIOUS
<1>1. /\ TypeOK /\ Walk /\ Running /\ count \in Counts /\ count \in Nat \ {0}
      /\ program \in [Streams -> Seq(Ops)] /\ layer \in 0 .. count
      /\ ran \in [Streams -> Nat] /\ (\A s \in Streams : ran[s] <= End(s))
      /\ active \in [Streams -> BOOLEAN]
      /\ buffer \in [0 .. PrefetchStep - 1 -> Layers \cup {-1}]
      /\ done \in [Layers -> [at : Nat, of : Nat]]
      /\ valid \in [Layers -> BOOLEAN] /\ inCapture \in [Layers -> BOOLEAN]
      /\ forwards \in Nat /\ captures \in Nat /\ capturing \in BOOLEAN
  BY DEF Shape, TypeOK
(* Of a step that enqueues, the rest is a matter of the host's variables. *)
<1>2. ASSUME NEW s \in Streams, NEW new \in Seq(Ops), Enqueue(On(s, new)),
             UNCHANGED <<count, ran, active, buffer>>,
             pc' \in {"idle", "wait", "forward", "start", "join"}, layer' \in 0 .. count,
             capturing' \in BOOLEAN, forwards' \in Nat, captures' \in Nat,
             done' \in [Layers -> [at : Nat, of : Nat]],
             valid' \in [Layers -> BOOLEAN], inCapture' \in [Layers -> BOOLEAN], Walk'
      PROVE  Shape'
  <2>1. program' \in [Streams -> Seq(Ops)] /\ (\A t \in Streams : ran[t] <= Len(program'[t]))
        /\ Running'
    BY <1>1, <1>2, EnqueueKeepsShape
  <2>2. Layers' = Layers /\ Ops' = Ops
    BY <1>2 DEF Layers, Ops
  <2> QED BY <1>1, <1>2, <2>1, <2>2 DEF Shape, TypeOK, End
<1>3. ASSUME UNCHANGED gpu PROVE (Running' <=> Running) /\ (Replaying' <=> Replaying)
  BY <1>3 DEF gpu, Running, Replaying, Op, End
<1>4. CASE BeginEager
  <2>1. UNCHANGED gpu
    BY <1>4 DEF BeginEager
  <2> QED BY <1>1, <1>4, <1>3, <2>1
          DEF BeginEager, Starts, Shape, TypeOK, Walk, gpu, events, End, Layers, Ops
<1>5. CASE BeginCapture
  <2>1. \A s \in Streams : \/ program'[s] = program[s] /\ ran'[s] = ran[s]
                           \/ program'[s] = <<>> /\ ran'[s] = 0
    BY <1>1, <1>5 DEF BeginCapture
  <2>2. program' \in [Streams -> Seq(Ops)] /\ ran' \in [Streams -> Nat]
    <3>1. <<>> \in Seq(Ops)
      OBVIOUS
    <3> QED BY <1>1, <1>5, <3>1 DEF BeginCapture
  <2>3. \A s \in Streams : ran'[s] <= Len(program'[s])
    BY <1>1, <2>1 DEF End
  <2>4. Layers' = Layers /\ Ops' = Ops
    BY <1>5 DEF BeginCapture, Layers, Ops
  <2>5. Walk'
    <3>1. pc' = "wait" /\ layer' = 0 /\ count' = count
      BY <1>5 DEF BeginCapture
    <3> QED BY <1>1, <3>1 DEF Walk
  <2>6. layer' = 0 /\ pc' = "wait" /\ capturing' = TRUE /\ captures' = captures + 1
        /\ forwards' = forwards + 1 /\ UNCHANGED <<count, active, buffer, events>>
    BY <1>5 DEF BeginCapture, Starts
  <2>7. Running'
    <3>1. ran["compute"] = End("compute") /\ "compute" \in Streams /\ ran["compute"] \in Nat
      BY <1>1, <1>5 DEF BeginCapture, Streams
    <3>2. ~active["compute"] /\ ~Replaying
      <4>1. ~(ran["compute"] < End("compute"))
        BY <3>1
      <4>2. ~active["compute"]
        BY <1>1, <3>1, <4>1 DEF Running
      <4> QED BY <4>2 DEF Replaying
    <3>3. \A s \in {"graph_compute", "graph_copy"} : ~active[s]
      BY <1>1, <3>2 DEF Running
    <3>4. \A s \in {"compute", "copy"} :
            s \in Streams /\ program'[s] = program[s] /\ ran'[s] = ran[s]
      BY <1>1, <1>5 DEF BeginCapture, Streams
    <3>5. \A s \in Streams : active'[s] => ran'[s] < End(s)'
      BY <1>1, <2>6, <3>3, <3>4 DEF Running, End, Streams
    <3> QED BY <2>6, <3>3, <3>5 DEF Running
  <2> QED BY <1>1, <2>2, <2>3, <2>4, <2>5, <2>6, <2>7 DEF Shape, TypeOK, End, events
<1>6. CASE Replay
  <2>1. Walk' /\ Enqueue(On("compute", BeforeReplay \o <<Replayed>>)) /\ "compute" \in Streams
    BY <1>1, <1>6 DEF Replay, Walk, Streams
  <2>2. UNCHANGED <<count, ran, active, buffer, pc, layer, capturing, captures, events>>
        /\ forwards' = forwards + 1
    BY <1>6 DEF Replay, Starts
  <2>3. pc \in {"idle", "wait", "forward", "start", "join"}
    BY <1>1 DEF TypeOK
  <2> DEFINE new == BeforeReplay \o <<Replayed>>
  <2>4. new \in Seq(Ops)
    BY <1>1, HostOps
  <2> HIDE DEF new
  <2>5. Enqueue(On("compute", new))
    BY <2>1 DEF new
  <2>6. /\ UNCHANGED <<count, ran, active, buffer>>
        /\ pc' \in {"idle", "wait", "forward", "start", "join"} /\ layer' \in 0 .. count
        /\ capturing' \in BOOLEAN /\ forwards' \in Nat /\ captures' \in Nat
    BY <1>1, <2>2, <2>3
  <2>7. /\ done' \in [Layers -> [at : Nat, of : Nat]]
        /\ valid' \in [Layers -> BOOLEAN] /\ inCapture' \in [Layers -> BOOLEAN]
    BY <1>1, <2>2 DEF events
  <2>8. "compute" \in Streams /\ Walk'
    BY <2>1
  <2> QED BY <1>2, <2>4, <2>5, <2>6, <2>7, <2>8
<1>7. CASE WaitForLayer
  <2>1. layer < count
    BY <1>1, <1>7 DEF WaitForLayer, Walk
  <2>2. Enqueue(On(Current, WaitFor(layer))) /\ pc' = "forward"
        /\ UNCHANGED <<count, ran, active, buffer, layer, capturing, forwards, captures,
                       done, valid>>
    BY <1>7 DEF WaitForLayer
  <2>3. inCapture' \in [Layers -> BOOLEAN]
    BY <1>1, <1>7 DEF WaitForLayer
  <2>4. Walk'
    BY <2>1, <2>2 DEF Walk
  <2>5. WaitFor(layer) \in Seq(Ops) /\ Current \in Streams
    BY <2>1, HostOps
  <2> DEFINE new == WaitFor(layer)
  <2>6. Enqueue(On(Current, new)) /\ new \in Seq(Ops)
    BY <2>2, <2>5
  <2> HIDE DEF new
  <2>7. pc' \in {"idle", "wait", "forward", "start", "join"}
    BY <2>2
  <2> QED BY <1>1, <1>2, <2>2, <2>3, <2>4, <2>5, <2>6, <2>7
<1>8. CASE ForwardLayer
  <2>1. layer < count
    BY <1>1, <1>8 DEF ForwardLayer, Walk
  <2>2. Enqueue(On(Current, <<Read(layer)>>)) /\ pc' = "start"
        /\ UNCHANGED <<count, ran, active, buffer, layer, capturing, forwards, captures, events>>
    BY <1>8 DEF ForwardLayer
  <2>3. Walk'
    BY <2>1, <2>2 DEF Walk
  <2> QED BY <1>1, <1>2, <2>1, <2>2, <2>3, HostOps DEF events
<1>9. CASE StartPrefetch
  <2>1. layer < count
    BY <1>1, <1>9 DEF StartPrefetch, Walk
  <2>2. Enqueue(On(CopyStream, <<Await(Current, ForkPoint, Capture), Copy(NextIndex)>>))
        /\ UNCHANGED <<count, ran, active, buffer, capturing, forwards, captures>>
    BY <1>9 DEF StartPrefetch
  <2>3. done' \in [Layers -> [at : Nat, of : Nat]]
    <3>1. Capture \in Nat /\ End(CopyStream) + 2 \in Nat
      <4>1. CopyStream \in Streams
        BY HostOps
      <4>2. End(CopyStream) \in Nat
        BY <1>1, <4>1 DEF End
      <4> QED BY <1>1, <4>2 DEF Capture
    <3> QED BY <1>1, <1>9, <3>1 DEF StartPrefetch
  <2>4. valid' \in [Layers -> BOOLEAN] /\ inCapture' \in [Layers -> BOOLEAN]
    BY <1>1, <1>9 DEF StartPrefetch, ValidAfterStart
  <2>5. Walk' /\ layer' \in 0 .. count
        /\ pc' \in {"idle", "wait", "forward", "start", "join"}
    BY <1>1, <1>9 DEF StartPrefetch, Walk
  <2> QED BY <1>1, <1>2, <2>1, <2>2, <2>3, <2>4, <2>5, HostOps
<1>10. CASE JoinLayer
  <2>1. layer < count /\ pc = "join" /\ layer' = layer + 1
        /\ UNCHANGED <<count, ran, active, buffer, pc, capturing, forwards, captures, done, valid>>
    BY <1>10 DEF JoinLayer
  <2>2. Walk' /\ layer' \in 0 .. count
    BY <1>1, <2>1 DEF Walk
  <2>3. CASE layer \in ToJoin
    <3>1. Enqueue(On(Current, <<Await("graph_copy", done[layer].at, done[layer].of)>>))
          /\ inCapture' \in [Layers -> BOOLEAN]
      BY <1>1, <1>10, <2>3 DEF JoinLayer
    <3> QED BY <1>1, <1>2, <2>1, <2>2, <3>1, HostOps
  <2>4. CASE layer \notin ToJoin
    <3>1. UNCHANGED <<program, inCapture>>
      BY <1>10, <2>4 DEF JoinLayer
    <3>2. Running'
      BY <1>1, <1>3, <2>1, <3>1 DEF gpu
    <3> QED BY <1>1, <2>1, <2>2, <3>1, <3>2 DEF Shape, TypeOK, End, Layers, Ops
  <2> QED BY <2>3, <2>4
<1>11. CASE EndCapture
  <2>1. /\ pc' = "idle" /\ layer' = 0 /\ capturing' = FALSE
        /\ UNCHANGED <<count, gpu, forwards, captures, events>>
    BY <1>11 DEF EndCapture
  <2>2. Layers' = Layers /\ Ops' = Ops /\ \A s \in Streams : End(s)' = End(s)
    BY <2>1 DEF Layers, Ops, End, gpu
  <2>3. Walk' /\ layer' \in 0 .. count
    BY <1>1, <2>1 DEF Walk
  <2>4. Running'
    BY <1>1, <1>3, <2>1
  <2> QED BY <1>1, <2>1, <2>2, <2>3, <2>4 DEF Shape, TypeOK, gpu, events
<1> QED BY <1>4, <1>5, <1>6, <1>7, <1>8, <1>9, <1>10, <1>11 DEF Host

(* What is known of an operation the device is about to execute.           *)
LEMMA ReadyOp ==
  ASSUME program \in [Streams -> Seq(Ops)], ran \in [Streams -> Nat],
         NEW s \in Streams, NEW name, Ready(s, name)
  PROVE  /\ ran[s] + 1 \in 1 .. End(s) /\ Op(s) \in Ops /\ Op(s).op = name
         /\ name \in {"read", "copy"} => Op(s).layer \in Layers
<1>1. program[s] \in Seq(Ops) /\ ran[s] \in Nat /\ ran[s] < End(s) /\ Op(s).op = name
  BY DEF Ready
<1>2. End(s) \in Nat /\ End(s) = Len(program[s])
  BY <1>1 DEF End
<1>3. ran[s] + 1 \in 1 .. Len(program[s])
  BY <1>1, <1>2
<1>4. Op(s) \in Ops
  <2>1. program[s][ran[s] + 1] \in Ops
    BY <1>1, <1>3
  <2> QED BY <2>1 DEF Op
<1> QED BY <1>1, <1>2, <1>3, <1>4, OpTypes

LEMMA ShapeDevice == Shape /\ Device => Shape'
<1> SUFFICES ASSUME Shape, Device PROVE Shape'
  OBVIOUS
<1>1. /\ TypeOK /\ Walk /\ Running /\ count \in Counts
      /\ program \in [Streams -> Seq(Ops)]
      /\ ran \in [Streams -> Nat] /\ (\A s \in Streams : ran[s] <= End(s))
      /\ active \in [Streams -> BOOLEAN]
      /\ buffer \in [0 .. PrefetchStep - 1 -> Layers \cup {-1}]
      /\ \A s \in Streams : End(s) \in Nat
  BY DEF Shape, TypeOK, End
<1>2. ASSUME ran' \in [Streams -> Nat], \A s \in Streams : ran'[s] <= End(s),
             active' \in [Streams -> BOOLEAN],
             buffer' \in [0 .. PrefetchStep - 1 -> Layers \cup {-1}],
             UNCHANGED <<count, program, host, events>>, Running'
      PROVE  Shape'
  <2>1. Layers' = Layers /\ Ops' = Ops /\ \A s \in Streams : End(s)' = End(s)
    BY <1>2 DEF Layers, Ops, End
  <2>2. UNCHANGED <<pc, layer, capturing, forwards, captures, done, valid, inCapture>>
    BY <1>2 DEF host, events
  <2>3. Walk'
    BY <1>1, <1>2, <2>2 DEF Walk
  <2>4. program' \in [Streams -> Seq(Ops)]
    BY <1>1, <1>2
  <2>5. TypeOK'
    BY <1>1, <1>2, <2>1, <2>2, <2>4 DEF TypeOK
  <2> QED BY <1>1, <1>2, <2>3, <2>5 DEF Shape
<1>3. ASSUME NEW s \in Streams, Finish(s), NEW name, Ready(s, name), UNCHANGED program
      PROVE  /\ ran' \in [Streams -> Nat] /\ (\A t \in Streams : ran'[t] <= End(t))
             /\ active' \in [Streams -> BOOLEAN] /\ Running'
  <2>1. ran[s] + 1 \in 1 .. End(s)
    BY <1>1, <1>3, ReadyOp
  <2>2. \A t \in Streams : active'[t] => active[t] /\ ran'[t] = ran[t]
    BY <1>1, <1>3 DEF Finish
  <2>3. \A t \in Streams : active'[t] => ran'[t] < End(t)'
    BY <1>1, <1>3, <2>2 DEF Running, End
  <2>4. ran' \in [Streams -> Nat] /\ (\A t \in Streams : ran'[t] <= End(t))
        /\ active' \in [Streams -> BOOLEAN]
    <3>1. \A t \in Streams : ran'[t] = IF t = s THEN ran[t] + 1 ELSE ran[t]
      BY <1>1, <1>3 DEF Finish
    <3> QED BY <1>1, <1>3, <2>1, <3>1 DEF Finish
  <2>5. CASE Replaying
    <3>1. s # "compute"
      BY <1>3, <2>5 DEF Ready, Executing
    <3>2. active'["compute"] = active["compute"] /\ ran'["compute"] = ran["compute"]
      BY <1>1, <1>3, <3>1 DEF Finish, Streams
    <3>3. Replaying'
      BY <1>3, <2>5, <3>2 DEF Replaying, Op
    <3> QED BY <2>4, <2>3, <3>3 DEF Running
  <2>6. CASE ~Replaying
    <3>1. ~active'["graph_compute"] /\ ~active'["graph_copy"]
      BY <1>1, <2>2, <2>6 DEF Running, Streams
    <3> QED BY <2>4, <2>3, <3>1 DEF Running
  <2> QED BY <2>5, <2>6
<1>4. ASSUME NEW s \in Streams, NEW name \in {"read", "copy"}, Ready(s, name),
             active' = [active EXCEPT ![s] = TRUE], UNCHANGED <<program, ran>>
      PROVE  /\ ran' \in [Streams -> Nat] /\ (\A t \in Streams : ran'[t] <= End(t))
             /\ active' \in [Streams -> BOOLEAN] /\ Running'
             /\ (Replaying' <=> Replaying)
  <2>1. \A t \in Streams : active'[t] => ran'[t] < End(t)'
    BY <1>1, <1>4 DEF Running, Ready, End
  <2>2. Op("compute")' = Op("compute") /\ "compute" \in Streams
    BY <1>4 DEF Op, Streams
  <2>3. s = "compute" => Op("compute") # Replayed
    BY <1>4 DEF Ready, Replayed
  <2>4. Replaying' <=> Replaying
    <3>1. CASE s = "compute"
      <4>1. ~Replaying /\ ~Replaying'
        BY <2>2, <2>3, <3>1 DEF Replaying
      <4> QED BY <4>1
    <3>2. CASE s # "compute"
      <4>1. active'["compute"] = active["compute"]
        BY <1>1, <1>4, <2>2, <3>2
      <4> QED BY <2>2, <4>1 DEF Replaying
    <3> QED BY <3>1, <3>2
  <2>5. CASE Replaying
    BY <1>1, <1>4, <2>1, <2>4, <2>5 DEF Running
  <2>6. CASE ~Replaying
    <3>1. s \in {"compute", "copy"}
      BY <1>4, <2>6 DEF Ready, Executing
    <3>2. ~active'["graph_compute"] /\ ~active'["graph_copy"]
      BY <1>1, <1>4, <2>6, <3>1 DEF Running, Streams
    <3> QED BY <1>1, <1>4, <2>1, <2>4, <3>2 DEF Running
  <2> QED BY <2>5, <2>6
<1>5. ASSUME NEW s \in Streams,
             PassAwait(s) \/ BeginRead(s) \/ EndRead(s) \/ BeginCopy(s) \/ EndCopy(s)
      PROVE  Shape'
  <2>1. CASE PassAwait(s)
    BY <1>1, <1>2, <1>3, <2>1 DEF PassAwait
  <2>2. CASE BeginRead(s)
    BY <1>1, <1>2, <1>4, <2>2 DEF BeginRead
  <2>3. CASE EndRead(s)
    BY <1>1, <1>2, <1>3, <2>3 DEF EndRead
  <2>4. CASE BeginCopy(s)
    <3>1. buffer' \in [0 .. PrefetchStep - 1 -> Layers \cup {-1}]
      BY <1>1, <2>4 DEF BeginCopy
    <3> QED BY <1>1, <1>2, <1>4, <2>4, <3>1 DEF BeginCopy
  <2>5. CASE EndCopy(s)
    <3>1. Op(s).layer \in Layers
      BY <1>1, <2>5, ReadyOp DEF EndCopy
    <3>2. buffer' \in [0 .. PrefetchStep - 1 -> Layers \cup {-1}]
      BY <1>1, <2>5, <3>1 DEF EndCopy
    <3> QED BY <1>1, <1>2, <1>3, <2>5, <3>2 DEF EndCopy
  <2> QED BY <1>5, <2>1, <2>2, <2>3, <2>4, <2>5
<1>6. CASE BeginReplay
  <2>1. ran' \in [Streams -> Nat] /\ \A s \in Streams : ran'[s] <= End(s)
    <3>1. ran' = [ran EXCEPT !["graph_compute"] = 0, !["graph_copy"] = 0]
      BY <1>6 DEF BeginReplay
    <3>2. ASSUME NEW s \in Streams PROVE ran'[s] \in Nat /\ ran'[s] <= End(s)
      <4>1. PICK n \in Nat, e \in Nat : n = ran[s] /\ e = End(s) /\ n <= e
        BY <1>1
      <4>2. ran'[s] = n \/ ran'[s] = 0
        BY <1>1, <3>1, <4>1
      <4> QED BY <4>1, <4>2
    <3>3. ran' \in [Streams -> Nat]
      BY <1>1, <3>1
    <3> QED BY <3>2, <3>3
  <2>2. Ready("compute", "replay") /\ "compute" \in Streams
    BY <1>6 DEF BeginReplay, Streams
  <2>3. ~Replaying /\ ran["compute"] < End("compute") /\ Op("compute") = Replayed
    <3>1. "compute" \in Executing /\ ran["compute"] < End("compute") /\ Op("compute").op = "replay"
      BY <2>2 DEF Ready
    <3>2. ~Replaying
      BY <3>1 DEF Executing
    <3>3. Op("compute") \in Ops
      BY <1>1, <2>2, ReadyOp
    <3> QED BY <3>1, <3>2, <3>3, OpTypes DEF Ops
  <2>4. /\ active' = [active EXCEPT !["compute"] = TRUE]
        /\ ran' = [ran EXCEPT !["graph_compute"] = 0, !["graph_copy"] = 0]
        /\ UNCHANGED program
    BY <1>6 DEF BeginReplay
  <2>5. ~active["graph_compute"] /\ ~active["graph_copy"]
    BY <1>1, <2>3 DEF Running
  <2>6. \A s \in Streams : active'[s] => s \in {"compute", "copy"} /\ ran'[s] = ran[s]
                                       /\ ran[s] < End(s)
    BY <1>1, <2>3, <2>4, <2>5 DEF Running, Streams
  <2>7. Running'
    BY <2>4, <2>6 DEF Running, End, Streams
  <2>8. active' \in [Streams -> BOOLEAN]
    BY <1>1, <2>4
  <2> QED BY <1>1, <1>2, <1>6, <2>1, <2>7, <2>8 DEF BeginReplay
<1>7. CASE EndReplay
  <2>1. "compute" \in Streams /\ ran["compute"] < End("compute") /\ ran["compute"] \in Nat
    BY <1>1, <1>7 DEF Streams, EndReplay, Replaying, Running
  <2>2. ran' = [ran EXCEPT !["compute"] = @ + 1]
        /\ active' = [active EXCEPT !["compute"] = FALSE]
        /\ UNCHANGED <<count, program, buffer, host, events>>
    BY <1>7 DEF EndReplay, Finish
  <2>3. ~active["graph_compute"] /\ ~active["graph_copy"]
    <3>1. \A s \in {"graph_compute", "graph_copy"} :
            s \in Streams /\ ran[s] \in Nat /\ ran[s] = End(s)
      BY <1>1, <1>7 DEF EndReplay, Streams
    <3> QED BY <1>1, <3>1 DEF Running
  <2>4. \A s \in Streams : active'[s] => s = "copy" /\ ran'[s] = ran[s] /\ ran[s] < End(s)
    BY <1>1, <2>2, <2>3 DEF Running, Streams
  <2>5. Running'
    BY <2>2, <2>4 DEF Running, End, Streams
  <2>6. ran' \in [Streams -> Nat] /\ (\A s \in Streams : ran'[s] <= End(s))
        /\ active' \in [Streams -> BOOLEAN]
    BY <1>1, <2>1, <2>2
  <2> QED BY <1>1, <1>2, <2>2, <2>5, <2>6
<1> QED BY <1>5, <1>6, <1>7 DEF Device

LEMMA ShapeStep == Shape /\ [Next]_vars => Shape'
<1>1. ASSUME Shape, UNCHANGED vars PROVE Shape'
  <2>1. Running' <=> Running
    BY <1>1 DEF Running, Replaying, Op, End, vars, gpu
  <2>2. Walk' <=> Walk
    BY <1>1 DEF Walk, vars, host
  <2>3. TypeOK' <=> TypeOK
    BY <1>1 DEF TypeOK, End, Layers, Ops, vars, gpu, host, events
  <2> QED BY <1>1, <2>1, <2>2, <2>3 DEF Shape, vars
<1> QED BY <1>1, ShapeHost, ShapeDevice DEF Next

(* What the model's variables hold.                                        *)
THEOREM TypeCorrect == Spec => []TypeOK
<1>1. Shape => TypeOK
  BY DEF Shape
<1> QED BY InitShape, ShapeStep, <1>1, PTL DEF Spec

-----------------------------------------------------------------------------
(* Captures.  A copy recorded in the graph is joined to the graph's other  *)
(* stream, or the layer it is for says so: its event covers the copy.      *)

Joined(k) == \E j \in DOMAIN program["graph_compute"] :
               LET op == program["graph_compute"][j] IN
                 op.op = "await" /\ op.on = "graph_copy" /\ op.n >= k

CaptureInv ==
  /\ WaitsWithinCapture
  /\ \A l \in Layers : inCapture[l] => capturing /\ done[l].of = captures
  /\ \A l \in Layers : valid[l] => done[l].of = 0
  /\ pc = "join" => \A l \in Layers : l < layer => ~inCapture[l]
  /\ \A k \in 1 .. End("graph_copy") :
       Joined(k) \/ \E l \in Layers : inCapture[l] /\ done[l].at >= k

(* An append leaves the operations that were there where they were.        *)
LEMMA EnqueueKeepsJoins ==
  ASSUME program \in [Streams -> Seq(Ops)], NEW s \in Streams, NEW new \in Seq(Ops),
         Enqueue(On(s, new)), UNCHANGED captures, WaitsWithinCapture,
         \A k \in 1 .. Len(new) : new[k].op = "await" =>
           new[k].of = IF s \in {"compute", "copy"} THEN 0 ELSE captures
  PROVE  /\ WaitsWithinCapture'
         /\ \A k \in Nat : Joined(k) => Joined(k)'
         /\ s # "graph_copy" => End("graph_copy")' = End("graph_copy")
<1>1. /\ program' \in [Streams -> Seq(Ops)]
      /\ \A t \in Streams : t # s => program'[t] = program[t]
      /\ Len(program'[s]) = End(s) + Len(new)
      /\ \A k \in 1 .. End(s) : program'[s][k] = program[s][k]
      /\ \A k \in 1 .. Len(new) : program'[s][End(s) + k] = new[k]
  BY EnqueueOn
<1>2. \A t \in Streams : /\ DOMAIN program[t] = 1 .. End(t) /\ End(t) \in Nat
                         /\ DOMAIN program'[t] = 1 .. Len(program'[t])
  BY <1>1 DEF End
<1>3. WaitsWithinCapture'
  <2> SUFFICES ASSUME NEW t \in Streams, NEW k \in DOMAIN program'[t],
                      program'[t][k].op = "await"
               PROVE  program'[t][k].of = IF t \in {"compute", "copy"} THEN 0 ELSE captures
    BY DEF WaitsWithinCapture
  <2>1. \A i \in DOMAIN program[t] : program[t][i].op = "await" =>
          program[t][i].of = IF t \in {"compute", "copy"} THEN 0 ELSE captures
    BY DEF WaitsWithinCapture
  <2>2. CASE t # s
    BY <1>1, <2>1, <2>2
  <2>3. CASE t = s /\ k \in 1 .. End(s)
    <3>1. k \in DOMAIN program[t] /\ program'[t][k] = program[t][k]
      BY <1>1, <1>2, <2>3
    <3> QED BY <2>1, <3>1
  <2>4. CASE t = s /\ k \notin 1 .. End(s)
    <3>1. PICK i : i = k - End(s)
      OBVIOUS
    <3>2. i \in 1 .. Len(new) /\ k = End(s) + i
      BY <1>1, <1>2, <2>4, <3>1
    <3> QED BY <1>1, <2>4, <3>2
  <2> QED BY <2>2, <2>3, <2>4
<1>4. ASSUME NEW k \in Nat, Joined(k) PROVE Joined(k)'
  <2>1. PICK j \in 1 .. End("graph_compute") :
          /\ program["graph_compute"][j].op = "await"
          /\ program["graph_compute"][j].on = "graph_copy"
          /\ program["graph_compute"][j].n >= k
    BY <1>2, <1>4 DEF Joined, Streams
  <2>2. "graph_compute" \in Streams
    BY DEF Streams
  <2>3. j \in DOMAIN program'["graph_compute"]
        /\ program'["graph_compute"][j] = program["graph_compute"][j]
    <3>1. CASE s = "graph_compute"
      <4>1. Len(program'["graph_compute"]) = End("graph_compute") + Len(new)
            /\ program'["graph_compute"][j] = program["graph_compute"][j]
        BY <1>1, <2>1, <3>1
      <4>2. Len(new) \in Nat /\ End("graph_compute") \in Nat
            /\ DOMAIN program'["graph_compute"] = 1 .. Len(program'["graph_compute"])
        BY <1>2, <2>2
      <4> QED BY <2>1, <4>1, <4>2
    <3>2. CASE s # "graph_compute"
      BY <1>1, <1>2, <2>1, <2>2, <3>2
    <3> QED BY <3>1, <3>2
  <2> QED BY <2>1, <2>3 DEF Joined
<1>5. s # "graph_copy" => End("graph_copy")' = End("graph_copy")
  BY <1>1 DEF End, Streams
<1> QED BY <1>3, <1>4, <1>5

LEMMA InitCapture == Init => CaptureInv
<1> SUFFICES ASSUME Init PROVE CaptureInv
  OBVIOUS
<1>1. Shape /\ program \in [Streams -> Seq(Ops)]
  BY InitShape DEF Shape, TypeOK
<1>2. \A s \in Streams : s # "copy" => program[s] = <<>>
  BY DEF Init
<1>3. WaitsWithinCapture
  <2> SUFFICES ASSUME NEW k \in DOMAIN program["copy"], program["copy"][k].op = "await"
               PROVE  program["copy"][k].of = 0
    BY <1>2 DEF WaitsWithinCapture, Streams
  <2>1. PICK n : program["copy"] = FirstCopies(n)
    BY DEF Init, Streams
  <2>2. k \in 1 .. 2 * n
    BY <2>1 DEF FirstCopies
  <2>3. program["copy"][k] = IF k % 2 = 1 THEN Await("compute", 0, 0) ELSE Copy(k \div 2 - 1)
    BY <2>1, <2>2 DEF FirstCopies
  <2> QED BY <2>3 DEF Await, Copy
<1>4. End("graph_copy") = 0
  BY <1>2 DEF End, Streams
<1>5. \A l \in Layers : ~inCapture[l] /\ done[l].of = 0
  BY DEF Init
<1>6. pc = "idle"
  BY DEF Init
<1> QED BY <1>3, <1>4, <1>5, <1>6 DEF CaptureInv

LEMMA CaptureHost == Shape /\ CaptureInv /\ Host => CaptureInv'
<1> SUFFICES ASSUME Shape, CaptureInv, Host PROVE CaptureInv'
  OBVIOUS
<1>1. /\ Walk /\ WaitsWithinCapture /\ count \in Nat \ {0}
      /\ program \in [Streams -> Seq(Ops)] /\ layer \in 0 .. count
      /\ done \in [Layers -> [at : Nat, of : Nat]]
      /\ valid \in [Layers -> BOOLEAN] /\ inCapture \in [Layers -> BOOLEAN]
      /\ capturing \in BOOLEAN /\ captures \in Nat
      /\ \A s \in Streams : End(s) \in Nat
  BY DEF Shape, TypeOK, CaptureInv, End
<1>2. CASE BeginEager \/ EndCapture
  <2>1. UNCHANGED <<count, gpu, captures, events>> /\ pc' \in {"wait", "idle"}
    BY <1>2 DEF BeginEager, EndCapture
  <2>2. WaitsWithinCapture' /\ Layers' = Layers /\ End("graph_copy")' = End("graph_copy")
        /\ \A k : Joined(k)' <=> Joined(k)
    BY <1>1, <2>1 DEF WaitsWithinCapture, Layers, End, Joined, gpu
  <2>3. \A l \in Layers : inCapture[l] => capturing'
    <3>1. CASE BeginEager
      BY <3>1 DEF BeginEager, CaptureInv
    <3>2. CASE EndCapture
      BY <1>1, <3>2 DEF EndCapture, CaptureInv, Layers
    <3> QED BY <1>2, <3>1, <3>2
  <2> QED BY <2>1, <2>2, <2>3 DEF CaptureInv, events
<1>3. CASE BeginCapture
  <2>1. ~capturing /\ pc' = "wait" /\ captures' = captures + 1 /\ UNCHANGED <<count, events>>
        /\ program' = [program EXCEPT !["graph_compute"] = <<>>, !["graph_copy"] = <<>>]
    BY <1>1, <1>3 DEF BeginCapture, Starts, Walk
  <2>2. End("graph_copy")' = 0
    BY <1>1, <2>1 DEF End, Streams
  <2>3. WaitsWithinCapture'
    <3>1. \A s \in {"compute", "copy"} : s \in Streams /\ program'[s] = program[s]
      BY <1>1, <2>1 DEF Streams
    <3>2. \A s \in {"graph_compute", "graph_copy"} : program'[s] = <<>>
      BY <1>1, <2>1 DEF Streams
    <3> QED BY <1>1, <3>1, <3>2 DEF WaitsWithinCapture, Streams
  <2> QED BY <2>1, <2>2, <2>3 DEF CaptureInv, Layers, events
<1>4. CASE Replay
  <2> DEFINE new == BeforeReplay \o <<Replayed>>
  <2>1. new \in Seq(Ops) /\ "compute" \in Streams
    BY HostOps DEF Streams
  <2>2. Len(new) = 2 /\ new[1] = Await("copy", End("copy"), 0) /\ new[2] = Replayed
    <3>1. \A a \in Ops, b \in Ops :
            LET both == <<a>> \o <<b>> IN Len(both) = 2 /\ both[1] = a /\ both[2] = b
      OBVIOUS
    <3>2. Await("copy", End("copy"), 0) \in Ops /\ Replayed \in Ops
      BY <1>1, OpTypes DEF Streams
    <3> QED BY <3>1, <3>2 DEF BeforeReplay, SyncPrevOnload
  <2>3. \A k \in 1 .. Len(new) : new[k].op = "await" => new[k].of = 0
    <3>1. Replayed.op # "await" /\ Await("copy", End("copy"), 0).of = 0
      BY DEF Replayed, Await
    <3> HIDE DEF new
    <3>2. \A k \in 1 .. Len(new) : k = 1 \/ k = 2
      BY <2>2
    <3> QED BY <2>2, <3>1, <3>2
  <2>4. Enqueue(On("compute", new))
        /\ UNCHANGED <<count, pc, layer, capturing, captures, events>>
    BY <1>4 DEF Replay
  <2> HIDE DEF new
  <2>5. WaitsWithinCapture' /\ (\A k \in Nat : Joined(k) => Joined(k)')
        /\ End("graph_copy")' = End("graph_copy")
    BY <1>1, <2>1, <2>3, <2>4, EnqueueKeepsJoins
  <2> QED BY <1>1, <2>4, <2>5 DEF CaptureInv, Layers, events, Streams
<1>5. CASE WaitForLayer
  <2>1. layer \in Layers /\ WaitFor(layer) \in Seq(Ops) /\ Current \in Streams
        /\ Current # "graph_copy"
    BY <1>1, <1>5, HostOps DEF WaitForLayer, Walk, Current
  <2> DEFINE new == WaitFor(layer)
  <2>2. Enqueue(On(Current, new)) /\ pc' = "forward"
        /\ UNCHANGED <<count, capturing, captures, done, valid>>
        /\ inCapture' = IF capturing THEN [inCapture EXCEPT ![layer] = FALSE] ELSE inCapture
    BY <1>5 DEF WaitForLayer
  <2>3. \A k \in 1 .. Len(new) : new[k].of = IF capturing THEN captures ELSE 0
    <3>1. new = IF capturing
                  THEN IF inCapture[layer]
                         THEN <<Await("graph_copy", done[layer].at, done[layer].of)>> ELSE <<>>
                  ELSE IF valid[layer] THEN <<Await("copy", done[layer].at, done[layer].of)>>
                                       ELSE <<Await("copy", End("copy"), 0)>>
      BY DEF WaitFor, SyncPrevOnload
    <3>2. /\ inCapture[layer] => done[layer].of = captures
          /\ valid[layer] => done[layer].of = 0
      BY <2>1 DEF CaptureInv
    <3> QED BY <3>1, <3>2 DEF Await
  <2>4. \A k \in 1 .. Len(new) : new[k].op = "await" =>
          new[k].of = IF Current \in {"compute", "copy"} THEN 0 ELSE captures
    BY <2>3 DEF Current
  <2>5. new \in Seq(Ops)
    BY <2>1
  <2> HIDE DEF new
  <2>6. WaitsWithinCapture' /\ (\A k \in Nat : Joined(k) => Joined(k)')
        /\ End("graph_copy")' = End("graph_copy")
    BY <1>1, <2>1, <2>2, <2>4, <2>5, EnqueueKeepsJoins
  <2>7. ASSUME capturing, inCapture[layer], NEW k \in Nat, done[layer].at >= k
        PROVE  Joined(k)'
    <3>1. new = <<Await("graph_copy", done[layer].at, done[layer].of)>>
          /\ Current = "graph_compute"
      BY <2>7 DEF new, WaitFor, Current
    <3>2. PICK e \in Nat : e = End("graph_compute")
      BY <1>1 DEF Streams
    <3>3. program'["graph_compute"] \in Seq(Ops)
          /\ Len(program'["graph_compute"]) = e + 1
          /\ program'["graph_compute"][e + 1] = new[1]
      <4>1. Enqueue(On("graph_compute", new)) /\ "graph_compute" \in Streams /\ Len(new) = 1
        BY <2>2, <3>1 DEF Streams
      <4>2. /\ program' \in [Streams -> Seq(Ops)]
            /\ Len(program'["graph_compute"]) = End("graph_compute") + Len(new)
            /\ \A i \in 1 .. Len(new) :
                 program'["graph_compute"][End("graph_compute") + i] = new[i]
        BY <1>1, <2>5, <4>1, EnqueueOn
      <4> QED BY <3>2, <4>1, <4>2
    <3>4. e + 1 \in DOMAIN program'["graph_compute"]
      BY <3>2, <3>3
    <3> QED BY <2>7, <3>1, <3>3, <3>4 DEF Joined, Await
  <2>8. \A k \in 1 .. End("graph_copy")' :
          Joined(k)' \/ \E l \in Layers : inCapture'[l] /\ done[l].at >= k
    <3> SUFFICES ASSUME NEW k \in 1 .. End("graph_copy"), ~Joined(k)'
                 PROVE  \E l \in Layers : inCapture'[l] /\ done[l].at >= k
      BY <2>6
    <3>1. k \in Nat /\ ~Joined(k)
      BY <1>1, <2>6 DEF Streams
    <3>2. PICK l \in Layers : inCapture[l] /\ done[l].at >= k
      BY <3>1 DEF CaptureInv
    <3>3. capturing => l # layer
      BY <2>7, <3>1, <3>2
    <3> QED BY <1>1, <2>2, <3>2, <3>3
  <2>9. \A l \in Layers : inCapture'[l] => inCapture[l]
    BY <1>1, <2>2
  <2> QED BY <2>2, <2>6, <2>8, <2>9 DEF CaptureInv, Layers
<1>6. CASE ForwardLayer
  <2>1. layer \in Layers /\ <<Read(layer)>> \in Seq(Ops) /\ Current \in Streams
        /\ Current # "graph_copy"
    BY <1>1, <1>6, HostOps DEF ForwardLayer, Walk, Current
  <2> DEFINE new == <<Read(layer)>>
  <2>2. Enqueue(On(Current, new)) /\ pc' = "start"
        /\ UNCHANGED <<count, capturing, captures, events>>
    BY <1>6 DEF ForwardLayer
  <2>3. new \in Seq(Ops) /\ \A k \in 1 .. Len(new) : new[k].op # "await"
    BY <2>1 DEF Read
  <2> HIDE DEF new
  <2>4. WaitsWithinCapture' /\ (\A k \in Nat : Joined(k) => Joined(k)')
        /\ End("graph_copy")' = End("graph_copy")
    BY <1>1, <2>1, <2>2, <2>3, EnqueueKeepsJoins
  <2> QED BY <1>1, <2>2, <2>4 DEF CaptureInv, Layers, events, Streams
<1>7. CASE StartPrefetch
  <2> DEFINE new == <<Await(Current, ForkPoint, Capture), Copy(NextIndex)>>
  <2>1. NextIndex \in Layers /\ new \in Seq(Ops) /\ CopyStream \in Streams
    BY <1>1, <1>7, HostOps DEF StartPrefetch, Walk
  <2>2. /\ Enqueue(On(CopyStream, new))
        /\ done' = [done EXCEPT ![NextIndex] = [at |-> End(CopyStream) + 2, of |-> Capture]]
        /\ inCapture' = [inCapture EXCEPT ![NextIndex] = capturing]
        /\ valid' = [valid EXCEPT ![NextIndex] = ~capturing]
        /\ UNCHANGED <<count, capturing, captures>>
        /\ pc' = "join" => layer' = 0
    BY <1>7 DEF StartPrefetch, ValidAfterStart
  <2>3. \A k \in 1 .. Len(new) : new[k].op = "await" =>
          new[k].of = IF CopyStream \in {"compute", "copy"} THEN 0 ELSE captures
    <3>1. Copy(NextIndex).op # "await" /\ Await(Current, ForkPoint, Capture).of = Capture
      BY DEF Copy, Await
    <3> QED BY <3>1 DEF Capture, CopyStream
  <2>4. Len(new) = 2
    OBVIOUS
  <2> HIDE DEF new
  <2>5. WaitsWithinCapture' /\ (\A k \in Nat : Joined(k) => Joined(k)')
        /\ (CopyStream # "graph_copy" => End("graph_copy")' = End("graph_copy"))
    BY <1>1, <2>1, <2>2, <2>3, EnqueueKeepsJoins
  <2>6. \A k \in 1 .. End("graph_copy")' :
          Joined(k)' \/ \E l \in Layers : inCapture'[l] /\ done'[l].at >= k
    <3>1. CASE capturing
      <4>1. Len(program'["graph_copy"]) = End("graph_copy") + 2
        <5>1. Enqueue(On("graph_copy", new)) /\ "graph_copy" \in Streams
          BY <2>2, <3>1 DEF CopyStream, Streams
        <5>2. Len(program'["graph_copy"]) = End("graph_copy") + Len(new)
          BY <1>1, <2>1, <5>1, EnqueueOn
        <5> QED BY <2>4, <5>2
      <4>2. inCapture'[NextIndex] /\ done'[NextIndex].at = End("graph_copy") + 2
        BY <1>1, <2>1, <2>2, <3>1 DEF CopyStream
      <4>3. End("graph_copy")' = End("graph_copy") + 2 /\ End("graph_copy") \in Nat
        BY <1>1, <4>1 DEF End, Streams
      <4> QED BY <2>1, <4>2, <4>3
    <3>2. CASE ~capturing
      <4>1. End("graph_copy")' = End("graph_copy") /\ End("graph_copy") \in Nat
        BY <1>1, <2>5, <3>2 DEF CopyStream, Streams
      <4>2. \A k \in 1 .. End("graph_copy") : k \in Nat /\ Joined(k)
        BY <3>2, <4>1 DEF CaptureInv
      <4> QED BY <2>5, <4>1, <4>2
    <3> QED BY <3>1, <3>2
  <2>7. \A l \in Layers : /\ inCapture'[l] => capturing /\ done'[l].of = captures
                          /\ valid'[l] => done'[l].of = 0
    <3> SUFFICES ASSUME NEW l \in Layers
                 PROVE  /\ inCapture'[l] => capturing /\ done'[l].of = captures
                        /\ valid'[l] => done'[l].of = 0
      OBVIOUS
    <3>1. CASE l = NextIndex
      <4>1. inCapture'[l] = capturing /\ valid'[l] = ~capturing /\ done'[l].of = Capture
        BY <1>1, <2>1, <2>2, <3>1
      <4> QED BY <4>1 DEF Capture
    <3>2. CASE l # NextIndex
      BY <1>1, <2>2, <3>2 DEF CaptureInv
    <3> QED BY <3>1, <3>2
  <2>8. pc' = "join" => \A l \in Layers : l < layer' => ~inCapture'[l]
    BY <1>1, <2>2 DEF Layers
  <2> QED BY <2>2, <2>5, <2>6, <2>7, <2>8 DEF CaptureInv, Layers
<1>8. CASE JoinLayer
  <2>1. layer \in Layers /\ Current = "graph_compute" /\ capturing /\ pc = "join"
        /\ layer' = layer + 1
        /\ UNCHANGED <<count, pc, capturing, captures, done, valid>>
    BY <1>1, <1>8 DEF JoinLayer, Walk, Current, Layers
  <2>2. CASE inCapture[layer]
    <3> DEFINE new == <<Await("graph_copy", done[layer].at, done[layer].of)>>
    <3>1. new \in Seq(Ops) /\ Current \in Streams
      BY <1>8, HostOps DEF JoinLayer
    <3>2. Enqueue(On(Current, new)) /\ inCapture' = [inCapture EXCEPT ![layer] = FALSE]
      BY <1>8, <2>1, <2>2 DEF JoinLayer, ToJoin
    <3>3. Len(new) = 1 /\ new[1].of = captures
      BY <2>1, <2>2 DEF CaptureInv, Await
    <3>4. new[1].op = "await" /\ new[1].on = "graph_copy" /\ new[1].n = done[layer].at
      BY DEF Await
    <3> HIDE DEF new
    <3>5. WaitsWithinCapture' /\ (\A k \in Nat : Joined(k) => Joined(k)')
          /\ End("graph_copy")' = End("graph_copy")
      BY <1>1, <2>1, <3>1, <3>2, <3>3, EnqueueKeepsJoins
    <3>6. ASSUME NEW k \in Nat, done[layer].at >= k PROVE Joined(k)'
      <4>1. PICK e \in Nat : e = End("graph_compute")
        BY <1>1 DEF Streams
      <4>2. program'["graph_compute"] \in Seq(Ops)
            /\ Len(program'["graph_compute"]) = e + 1
            /\ program'["graph_compute"][e + 1] = new[1]
        <5>1. Enqueue(On("graph_compute", new)) /\ "graph_compute" \in Streams
          BY <2>1, <3>2 DEF Streams
        <5>2. /\ program' \in [Streams -> Seq(Ops)]
              /\ Len(program'["graph_compute"]) = End("graph_compute") + Len(new)
              /\ \A i \in 1 .. Len(new) :
                   program'["graph_compute"][End("graph_compute") + i] = new[i]
          BY <1>1, <3>1, <5>1, EnqueueOn
        <5> QED BY <3>3, <4>1, <5>1, <5>2
      <4>3. e + 1 \in DOMAIN program'["graph_compute"]
        BY <4>1, <4>2
      <4> QED BY <3>4, <3>6, <4>2, <4>3 DEF Joined
    <3>7. \A k \in 1 .. End("graph_copy")' :
            Joined(k)' \/ \E l \in Layers : inCapture'[l] /\ done[l].at >= k
      <4> SUFFICES ASSUME NEW k \in 1 .. End("graph_copy"), ~Joined(k)'
                   PROVE  \E l \in Layers : inCapture'[l] /\ done[l].at >= k
        BY <3>5
      <4>1. k \in Nat /\ ~Joined(k)
        BY <1>1, <3>5 DEF Streams
      <4>2. PICK l \in Layers : inCapture[l] /\ done[l].at >= k
        BY <4>1 DEF CaptureInv
      <4> QED BY <1>1, <3>2, <3>6, <4>1, <4>2
    <3>8. \A l \in Layers : /\ inCapture'[l] => inCapture[l]
                            /\ l < layer + 1 => ~inCapture'[l]
      BY <1>1, <2>1, <3>2 DEF CaptureInv, Layers
    <3> QED BY <2>1, <3>5, <3>7, <3>8 DEF CaptureInv, Layers
  <2>3. CASE ~inCapture[layer]
    <3>1. UNCHANGED <<program, inCapture>>
      BY <1>8, <2>3 DEF JoinLayer, ToJoin
    <3>2. WaitsWithinCapture' /\ Layers' = Layers /\ End("graph_copy")' = End("graph_copy")
          /\ \A k : Joined(k)' <=> Joined(k)
      BY <1>1, <2>1, <3>1 DEF WaitsWithinCapture, Layers, End, Joined
    <3>3. \A l \in Layers : l < layer + 1 => ~inCapture[l]
      <4>1. \A l \in Layers : l < layer => ~inCapture[l]
        BY <2>1 DEF CaptureInv
      <4>2. \A l \in Layers : l < layer + 1 => l < layer \/ l = layer
        BY <1>1 DEF Layers
      <4> QED BY <2>3, <4>1, <4>2
    <3> QED BY <2>1, <3>1, <3>2, <3>3 DEF CaptureInv
  <2> QED BY <2>2, <2>3
<1> QED BY <1>2, <1>3, <1>4, <1>5, <1>6, <1>7, <1>8 DEF Host

(* The device executes the record; it does not change it.                  *)
LEMMA CaptureStep == Shape /\ CaptureInv /\ [Next]_vars => CaptureInv'
<1> SUFFICES ASSUME Shape, CaptureInv, [Next]_vars PROVE CaptureInv'
  OBVIOUS
<1>1. CASE Device \/ UNCHANGED vars
  <2>1. UNCHANGED <<count, program, host, events>>
    BY <1>1 DEF Device, PassAwait, BeginRead, EndRead, BeginCopy, EndCopy,
                BeginReplay, EndReplay, vars, gpu
  <2> QED BY <2>1 DEF CaptureInv, WaitsWithinCapture, Joined, End, Layers, host, events
<1> QED BY <1>1, CaptureHost DEF Next

(* A wait refers to a record of its own capture: what _prefetch_in_capture *)
(* and _event_valid_for_eager say of a layer is true of its event.         *)
THEOREM WaitsStayWithinTheCapture == Spec => []WaitsWithinCapture
<1>1. CaptureInv => WaitsWithinCapture
  BY DEF CaptureInv
<1> QED BY InitShape, ShapeStep, InitCapture, CaptureStep, <1>1, PTL DEF Spec

(* Nothing recorded on the copy stream is left open when a capture ends:   *)
(* join_after_forward, with what the layers waited for, covers every copy. *)
THEOREM CapturesAreJoined == Spec => []CaptureJoined
<1>1. Shape /\ CaptureInv => CaptureJoined
  <2> SUFFICES ASSUME Shape, CaptureInv, ~capturing,
                      NEW k \in DOMAIN program["graph_copy"]
               PROVE  Joined(k)
    BY DEF CaptureJoined, Joined
  <2>1. k \in 1 .. End("graph_copy")
    BY DEF End, Shape, TypeOK, Streams
  <2>2. \A l \in Layers : ~inCapture[l]
    BY DEF CaptureInv
  <2> QED BY <2>1, <2>2 DEF CaptureInv
<1> QED BY InitShape, ShapeStep, InitCapture, CaptureStep, <1>1, PTL DEF Spec

-----------------------------------------------------------------------------
(* What the host enqueues, as two sequences: p of a stream that reads and  *)
(* q of the one that copies for it.  F are the layers a replay starts      *)
(* with, I those whose weights are in the slots before q starts.           *)

Uses(op, F) == CASE op.op = "read"   -> {op.layer}
                 [] op.op = "replay" -> F
                 [] OTHER            -> {}

Into(q, c, slot) == c \in 1 .. Len(q) /\ q[c].op = "copy" /\ Slot(q[c].layer) = slot

(* How many operations of the other stream a copy waits for.               *)
Fork(q, c) == q[c - 1].n

Awaited(p, n, c) == \E j \in 1 .. n : p[j].op = "await" /\ p[j].n >= c

ReadForm(p, b) ==
  \A k \in 1 .. Len(p) : /\ p[k].op \in {"await", "read", "replay"}
                         /\ p[k].op = "await" => p[k].on = b

CopyForm(q, a, n) ==
  \A c \in 1 .. Len(q) :
    /\ q[c].op \in {"await", "copy"}
    /\ q[c].op = "await" => q[c].on = a
    /\ q[c].op = "copy" => c > 1 /\ q[c - 1].op = "await" /\ Fork(q, c) <= n

(* An operation that uses a slot is ordered with every copy into it...     *)
Ordered(p, q, F) ==
  \A k \in 1 .. Len(p) : \A l \in Uses(p[k], F) : \A c \in 1 .. Len(q) :
    Into(q, c, Slot(l)) => Fork(q, c) >= k \/ Awaited(p, k - 1, c)

(* ...and the last one before it is of its own layer.                      *)
Own(q, k, l, I) ==
  \/ l \in I /\ \A c \in 1 .. Len(q) : Into(q, c, Slot(l)) => Fork(q, c) >= k
  \/ \E c \in 1 .. Len(q) :
       /\ q[c].op = "copy" /\ q[c].layer = l /\ Fork(q, c) < k
       /\ \A d \in c + 1 .. Len(q) : Into(q, d, Slot(l)) => Fork(q, d) >= k

Sound(p, q, a, b, F, I) ==
  /\ ReadForm(p, b) /\ CopyForm(q, a, Len(p)) /\ Ordered(p, q, F)
  /\ \A k \in 1 .. Len(p) : \A l \in Uses(p[k], F) : Own(q, k, l, I)

Untouched(q, l) == \A c \in 1 .. Len(q) : ~Into(q, c, Slot(l))

Latest(q, l, c) ==
  /\ c \in 1 .. Len(q) /\ q[c].op = "copy" /\ q[c].layer = l
  /\ \A d \in c + 1 .. Len(q) : ~Into(q, d, Slot(l))

EagerSlots ==
  \A l \in Window(IF capturing THEN 0 ELSE layer) :
    \E c \in 1 .. End("copy") :
      Latest(program["copy"], l, c) /\ (valid[l] => done[l].at >= c)

GraphSlots ==
  \A l \in Window(IF capturing /\ pc # "join" THEN layer ELSE 0) :
    \/ l \in FirstLayers /\ Untouched(program["graph_copy"], l)
    \/ \E c \in 1 .. End("graph_copy") :
         /\ Latest(program["graph_copy"], l, c)
         /\ capturing => \/ inCapture[l] /\ done[l].at >= c
                         \/ Awaited(program["graph_compute"], End("graph_compute"), c)

AboutToRead ==
  pc = "forward" =>
    \A c \in 1 .. End(CopyStream) :
      Into(program[CopyStream], c, Slot(layer)) => Awaited(program[Current], End(Current), c)

SoundPrograms ==
  /\ Sound(program["compute"], program["copy"], "compute", "copy", FirstLayers, {})
  /\ Sound(program["graph_compute"], program["graph_copy"], "graph_compute", "graph_copy",
           FirstLayers, FirstLayers)

HostInv == SoundPrograms /\ EagerSlots /\ GraphSlots /\ AboutToRead

-----------------------------------------------------------------------------
(* What the device has executed: n operations of p and m of q.             *)

Passed(p, n, m) == \A j \in 1 .. n : p[j].op = "await" => m >= p[j].n

(* A slot holds what the last finished copy put there, unless a later one  *)
(* has started: the first st operations of q have.                         *)
Loaded(q, m, st, buf, I) ==
  /\ \A c \in 1 .. m :
       /\ q[c].op = "copy"
       /\ \A d \in c + 1 .. st : ~Into(q, d, Slot(q[c].layer))
       => buf[Slot(q[c].layer)] = q[c].layer
  /\ \A l \in I : (\A d \in 1 .. st : ~Into(q, d, Slot(l))) => buf[Slot(l)] = l

Started(s) == IF active[s] THEN ran[s] + 1 ELSE ran[s]

DeviceInv ==
  /\ Passed(program["compute"], ran["compute"], ran["copy"])
  /\ Passed(program["copy"], ran["copy"], ran["compute"])
  /\ capturing => ran["compute"] = End("compute") /\ ran["copy"] = End("copy")
  /\ ~Replaying => Loaded(program["copy"], ran["copy"], Started("copy"), buffer, {})
  /\ Replaying =>
       /\ Passed(program["graph_compute"], ran["graph_compute"], ran["graph_copy"])
       /\ Passed(program["graph_copy"], ran["graph_copy"], ran["graph_compute"])
       /\ Loaded(program["graph_copy"], ran["graph_copy"], Started("graph_copy"), buffer,
                 FirstLayers)

-----------------------------------------------------------------------------
(* The host's two kinds of steps, on sequences. *)

LEMMA SlotFact == ASSUME count \in Counts, NEW l \in Layers
                  PROVE  Slot(l) \in 0 .. PrefetchStep - 1
<1>1. l \in Nat
  BY DEF Layers
<1> QED BY <1>1, ModFact DEF Slot

(* Operations put behind those of the stream that reads.                   *)
LEMMA ReadsAppended ==
  ASSUME NEW p \in Seq(Ops), NEW q \in Seq(Ops), NEW a, NEW b, NEW F, NEW I,
         Sound(p, q, a, b, F, I),
         NEW p2 \in Seq(Ops), Len(p2) >= Len(p),
         \A k \in 1 .. Len(p) : p2[k] = p[k],
         \A k \in Len(p) + 1 .. Len(p2) :
           /\ p2[k].op \in {"await", "read", "replay"}
           /\ p2[k].op = "await" => p2[k].on = b
           /\ \A l \in Uses(p2[k], F) :
                /\ \A c \in 1 .. Len(q) : Into(q, c, Slot(l)) => Awaited(p2, k - 1, c)
                /\ \/ l \in I /\ Untouched(q, l)
                   \/ \E c \in 1 .. Len(q) : Latest(q, l, c)
  PROVE  Sound(p2, q, a, b, F, I)
<1>1. Len(p) \in Nat /\ Len(p2) \in Nat /\ Len(q) \in Nat
  OBVIOUS
<1>2. \A k \in 1 .. Len(p2) : k \in 1 .. Len(p) \/ k \in Len(p) + 1 .. Len(p2)
  BY <1>1
<1>3. ReadForm(p2, b)
  <2> SUFFICES ASSUME NEW k \in 1 .. Len(p2)
               PROVE  /\ p2[k].op \in {"await", "read", "replay"}
                      /\ p2[k].op = "await" => p2[k].on = b
    BY DEF ReadForm
  <2>1. CASE k \in 1 .. Len(p)
    BY <2>1 DEF Sound, ReadForm
  <2> QED BY <1>2, <2>1
<1>4. \A c \in 1 .. Len(q) : q[c].op = "copy" => Fork(q, c) <= Len(p)
  BY DEF Sound, CopyForm
<1>5. CopyForm(q, a, Len(p2))
  <2> SUFFICES ASSUME NEW c \in 1 .. Len(q)
               PROVE  /\ q[c].op \in {"await", "copy"}
                      /\ q[c].op = "await" => q[c].on = a
                      /\ q[c].op = "copy" =>
                           c > 1 /\ q[c - 1].op = "await" /\ Fork(q, c) <= Len(p2)
    BY DEF CopyForm
  <2>1. /\ q[c].op \in {"await", "copy"}
        /\ q[c].op = "await" => q[c].on = a
        /\ q[c].op = "copy" => c > 1 /\ q[c - 1].op = "await" /\ Fork(q, c) <= Len(p)
    BY DEF Sound, CopyForm
  <2>2. ASSUME q[c].op = "copy" PROVE Fork(q, c) <= Len(p2)
    <3>1. c - 1 \in 1 .. Len(q)
      BY <1>1, <2>1, <2>2
    <3>2. q[c - 1] \in Ops
      BY <3>1
    <3>3. Fork(q, c) \in Nat
      BY <2>1, <2>2, <3>2, OpTypes DEF Fork
    <3> QED BY <1>1, <2>1, <2>2, <3>3
  <2> QED BY <2>1, <2>2
<1>6. Ordered(p2, q, F)
  <2> SUFFICES ASSUME NEW k \in 1 .. Len(p2), NEW l \in Uses(p2[k], F), NEW c \in 1 .. Len(q),
                      Into(q, c, Slot(l))
               PROVE  Fork(q, c) >= k \/ Awaited(p2, k - 1, c)
    BY DEF Ordered
  <2>1. CASE k \in 1 .. Len(p)
    <3>1. Fork(q, c) >= k \/ Awaited(p, k - 1, c)
      BY <2>1 DEF Sound, Ordered
    <3>2. \A j \in 1 .. k - 1 : p2[j] = p[j]
      <4>1. \A j \in 1 .. k - 1 : j \in 1 .. Len(p)
        BY <1>1, <2>1
      <4> QED BY <4>1
    <3> QED BY <3>1, <3>2 DEF Awaited
  <2> QED BY <1>2, <2>1
<1>7. \A k \in 1 .. Len(p2) : \A l \in Uses(p2[k], F) : Own(q, k, l, I)
  <2> SUFFICES ASSUME NEW k \in 1 .. Len(p2), NEW l \in Uses(p2[k], F) PROVE Own(q, k, l, I)
    OBVIOUS
  <2>1. CASE k \in 1 .. Len(p)
    BY <2>1 DEF Sound
  <2>2. CASE k \in Len(p) + 1 .. Len(p2)
    <3>1. CASE l \in I /\ Untouched(q, l)
      BY <3>1 DEF Own, Untouched
    <3>2. ASSUME NEW c \in 1 .. Len(q), Latest(q, l, c) PROVE Own(q, k, l, I)
      <4>1. q[c].op = "copy" /\ q[c].layer = l /\ Fork(q, c) <= Len(p)
            /\ \A d \in c + 1 .. Len(q) : ~Into(q, d, Slot(l))
        BY <1>4, <3>2 DEF Latest
      <4>2. Fork(q, c) < k
        <5>1. c > 1 /\ q[c - 1].op = "await"
          BY <4>1 DEF Sound, CopyForm
        <5>2. q[c - 1] \in Ops
          BY <1>1, <5>1
        <5>3. Fork(q, c) \in Nat
          BY <5>1, <5>2, OpTypes DEF Fork
        <5> QED BY <1>1, <2>2, <4>1, <5>3
      <4> QED BY <4>1, <4>2 DEF Own
    <3> QED BY <2>2, <3>1, <3>2
  <2> QED BY <1>2, <2>1, <2>2
<1> QED BY <1>3, <1>5, <1>6, <1>7 DEF Sound

(* A copy, with its wait for everything the other stream has so far.       *)
AddsCopy(p, q, q2, a) ==
  /\ Len(q2) = Len(q) + 2
  /\ \A c \in 1 .. Len(q) : q2[c] = q[c]
  /\ q2[Len(q) + 1].op = "await" /\ q2[Len(q) + 1].on = a /\ q2[Len(q) + 1].n = Len(p)
  /\ q2[Len(q) + 2].op = "copy"

LEMMA CopyAppended ==
  ASSUME NEW p \in Seq(Ops), NEW q \in Seq(Ops), NEW q2 \in Seq(Ops),
         NEW a, NEW b, NEW F, NEW I,
         Sound(p, q, a, b, F, I), AddsCopy(p, q, q2, a)
  PROVE  /\ Sound(p, q2, a, b, F, I)
         /\ Latest(q2, q2[Len(q) + 2].layer, Len(q) + 2)
         /\ \A l : Slot(l) # Slot(q2[Len(q) + 2].layer) =>
              /\ Untouched(q, l) => Untouched(q2, l)
              /\ \A c \in 1 .. Len(q) : Latest(q, l, c) => Latest(q2, l, c)
<1> USE DEF AddsCopy
<1> DEFINE e == Len(q)
<1>1. e \in Nat /\ Len(p) \in Nat /\ Len(q2) = e + 2
  OBVIOUS
<1>2. \A c \in 1 .. e + 2 : c \in 1 .. e \/ c = e + 1 \/ c = e + 2
  BY <1>1
<1>3. \A s : \A c \in 1 .. e : Into(q2, c, s) <=> Into(q, c, s)
  BY <1>1 DEF Into
<1>4. \A s : ~Into(q2, e + 1, s) /\ ~(s # Slot(q2[e + 2].layer) /\ Into(q2, e + 2, s))
  BY DEF Into
<1>5. Fork(q2, e + 2) = Len(p)
  BY <1>1 DEF Fork
<1>6. \A c \in 1 .. e : q[c].op = "copy" => c > 1 /\ Fork(q2, c) = Fork(q, c)
  <2>1. \A c \in 1 .. e : q[c].op = "copy" => c > 1
    BY DEF Sound, CopyForm
  <2> QED BY <1>1, <2>1 DEF Fork
<1> HIDE DEF e
<1>7. CopyForm(q2, a, Len(p))
  <2> SUFFICES ASSUME NEW c \in 1 .. e + 2
               PROVE  /\ q2[c].op \in {"await", "copy"}
                      /\ q2[c].op = "await" => q2[c].on = a
                      /\ q2[c].op = "copy" =>
                           c > 1 /\ q2[c - 1].op = "await" /\ Fork(q2, c) <= Len(p)
    BY <1>1 DEF CopyForm
  <2>1. CASE c \in 1 .. e
    <3>1. /\ q[c].op \in {"await", "copy"}
          /\ q[c].op = "await" => q[c].on = a
          /\ q[c].op = "copy" => c > 1 /\ q[c - 1].op = "await" /\ Fork(q, c) <= Len(p)
      BY <2>1 DEF Sound, CopyForm, e
    <3>2. q2[c] = q[c] /\ (c > 1 => q2[c - 1] = q[c - 1])
      BY <1>1, <2>1 DEF e
    <3> QED BY <1>6, <2>1, <3>1, <3>2
  <2>2. CASE c = e + 1
    BY <2>2 DEF e
  <2>3. CASE c = e + 2
    <3>1. c - 1 = e + 1 /\ c > 1
      BY <1>1, <2>3
    <3> QED BY <1>1, <1>5, <2>3, <3>1 DEF e
  <2> QED BY <1>2, <2>1, <2>2, <2>3
<1>8. Ordered(p, q2, F)
  <2> SUFFICES ASSUME NEW k \in 1 .. Len(p), NEW l \in Uses(p[k], F), NEW c \in 1 .. e + 2,
                      Into(q2, c, Slot(l))
               PROVE  Fork(q2, c) >= k \/ Awaited(p, k - 1, c)
    BY <1>1 DEF Ordered
  <2>1. CASE c \in 1 .. e
    <3>1. Into(q, c, Slot(l)) /\ q[c].op = "copy"
      BY <1>3, <2>1 DEF Into
    <3>2. Fork(q, c) >= k \/ Awaited(p, k - 1, c)
      BY <2>1, <3>1 DEF Sound, Ordered, e
    <3> QED BY <1>6, <2>1, <3>1, <3>2
  <2>2. CASE c = e + 2
    BY <1>1, <1>5, <2>2
  <2> QED BY <1>2, <1>4, <2>1, <2>2
<1>9. \A k \in 1 .. Len(p) : \A l \in Uses(p[k], F) : Own(q2, k, l, I)
  <2> SUFFICES ASSUME NEW k \in 1 .. Len(p), NEW l \in Uses(p[k], F) PROVE Own(q2, k, l, I)
    OBVIOUS
  <2>1. ASSUME NEW d \in 1 .. e + 2, Into(q2, d, Slot(l)),
               d \in 1 .. e => (Into(q, d, Slot(l)) => Fork(q, d) >= k)
        PROVE  Fork(q2, d) >= k
    <3>1. CASE d \in 1 .. e
      <4>1. Into(q, d, Slot(l)) /\ q[d].op = "copy"
        BY <1>3, <2>1, <3>1 DEF Into
      <4> QED BY <1>6, <2>1, <3>1, <4>1
    <3>2. CASE d = e + 2
      BY <1>1, <1>5, <3>2
    <3> QED BY <1>2, <1>4, <2>1, <3>1, <3>2
  <2>2. Own(q, k, l, I)
    BY DEF Sound
  <2>3. CASE l \in I /\ \A c \in 1 .. e : Into(q, c, Slot(l)) => Fork(q, c) >= k
    BY <1>1, <2>1, <2>3 DEF Own
  <2>4. ASSUME NEW c \in 1 .. e, q[c].op = "copy", q[c].layer = l, Fork(q, c) < k,
               \A d \in c + 1 .. e : Into(q, d, Slot(l)) => Fork(q, d) >= k
        PROVE  Own(q2, k, l, I)
    <3>1. q2[c].op = "copy" /\ q2[c].layer = l /\ Fork(q2, c) < k
      BY <1>6, <2>4 DEF e
    <3>2. ASSUME NEW d \in c + 1 .. e + 2, Into(q2, d, Slot(l)) PROVE Fork(q2, d) >= k
      <4>1. d \in 1 .. e + 2 /\ (d \in 1 .. e => d \in c + 1 .. e)
        BY <1>1
      <4> QED BY <2>1, <2>4, <3>2, <4>1
    <3>3. c \in 1 .. Len(q2)
      BY <1>1
    <3> QED BY <1>1, <3>1, <3>2, <3>3 DEF Own
  <2> QED BY <2>2, <2>3, <2>4 DEF Own, e
<1>10. Latest(q2, q2[e + 2].layer, e + 2)
  <2>1. e + 2 \in 1 .. Len(q2) /\ \A d \in e + 3 .. Len(q2) : FALSE
    BY <1>1
  <2>2. q2[e + 2].op = "copy"
    BY DEF e
  <2> QED BY <1>1, <2>1, <2>2 DEF Latest
<1>11. ASSUME NEW l, Slot(l) # Slot(q2[e + 2].layer)
       PROVE  /\ Untouched(q, l) => Untouched(q2, l)
              /\ \A c \in 1 .. e : Latest(q, l, c) => Latest(q2, l, c)
  <2>1. \A d \in 1 .. e + 2 : Into(q2, d, Slot(l)) => d \in 1 .. e /\ Into(q, d, Slot(l))
    BY <1>2, <1>3, <1>4, <1>11
  <2>2. Untouched(q, l) => Untouched(q2, l)
    BY <1>1, <2>1 DEF Untouched, e
  <2>3. ASSUME NEW c \in 1 .. e, Latest(q, l, c) PROVE Latest(q2, l, c)
    <3>1. q2[c] = q[c] /\ c \in 1 .. Len(q2)
      BY <1>1 DEF e
    <3>2. \A d \in c + 1 .. Len(q2) : ~Into(q2, d, Slot(l))
      <4> SUFFICES ASSUME NEW d \in c + 1 .. Len(q2), Into(q2, d, Slot(l)) PROVE FALSE
        OBVIOUS
      <4>1. d \in 1 .. e + 2
        BY <1>1
      <4>2. d \in 1 .. e /\ Into(q, d, Slot(l))
        BY <2>1, <4>1
      <4>3. d \in c + 1 .. e
        BY <1>1, <4>2
      <4> QED BY <2>3, <4>2, <4>3 DEF Latest, e
    <3> QED BY <2>3, <3>1, <3>2 DEF Latest
  <2> QED BY <2>2, <2>3
<1>12. ReadForm(p, b)
  BY DEF Sound
<1> QED BY <1>7, <1>8, <1>9, <1>10, <1>11, <1>12 DEF Sound, e

-----------------------------------------------------------------------------
(* The device's steps, on sequences.  n operations of p and m of q are done.*)

(* Of an operation of p that is next, the copies into its slots are ordered:*)
(* the last one that started is its layer's own, and has finished.          *)
LEMMA UseIsOrdered ==
  ASSUME NEW p \in Seq(Ops), NEW q \in Seq(Ops), NEW a, NEW b, NEW F, NEW I,
         Sound(p, q, a, b, F, I),
         NEW n \in Nat, n + 1 <= Len(p), NEW m \in 0 .. Len(q),
         Passed(p, n, m), Passed(q, m, n),
         NEW l \in Uses(p[n + 1], F)
  PROVE  \/ l \in I /\ \A c \in 1 .. m + 1 : ~Into(q, c, Slot(l))
         \/ \E c \in 1 .. m : /\ q[c].op = "copy" /\ q[c].layer = l
                              /\ \A d \in c + 1 .. m + 1 : ~Into(q, d, Slot(l))
<1>1. Len(p) \in Nat /\ Len(q) \in Nat /\ n + 1 \in 1 .. Len(p) /\ m \in Nat
  OBVIOUS
<1>2. ASSUME NEW c \in 1 .. m + 1, Into(q, c, Slot(l))
      PROVE  c <= m /\ Fork(q, c) < n + 1
  <2>1. c \in 1 .. Len(q) /\ q[c].op = "copy"
    BY <1>2 DEF Into
  <2>2. c > 1 /\ q[c - 1].op = "await"
    BY <2>1 DEF Sound, CopyForm
  <2>3. c - 1 \in 1 .. m /\ c - 1 \in 1 .. Len(q)
    BY <1>1, <2>1, <2>2
  <2>4. n >= Fork(q, c)
    BY <2>2, <2>3 DEF Passed, Fork
  <2>5. Fork(q, c) \in Nat
    <3>1. q[c - 1] \in Ops
      BY <2>3
    <3> QED BY <2>2, <3>1, OpTypes DEF Fork
  <2>6. Fork(q, c) >= n + 1 \/ Awaited(p, (n + 1) - 1, c)
    BY <1>1, <1>2, <2>1 DEF Sound, Ordered
  <2>7. PICK j \in 1 .. n : p[j].op = "await" /\ p[j].n >= c
    <3>1. (n + 1) - 1 = n
      OBVIOUS
    <3> QED BY <2>4, <2>5, <2>6, <3>1 DEF Awaited
  <2>8. m >= p[j].n
    BY <2>7 DEF Passed
  <2>9. p[j].n \in Nat
    <3>1. p[j] \in Ops
      BY <1>1, <2>7
    <3> QED BY <2>7, <3>1, OpTypes
  <2> QED BY <1>1, <2>1, <2>4, <2>5, <2>7, <2>8, <2>9
<1>3. Own(q, n + 1, l, I)
  BY <1>1 DEF Sound
<1>4. CASE l \in I /\ \A c \in 1 .. Len(q) : Into(q, c, Slot(l)) => Fork(q, c) >= n + 1
  <2>1. ASSUME NEW c \in 1 .. m + 1, Into(q, c, Slot(l)) PROVE FALSE
    <3>1. c \in 1 .. Len(q) /\ q[c].op = "copy"
      BY <2>1 DEF Into
    <3>2. Fork(q, c) < n + 1 /\ Fork(q, c) >= n + 1
      BY <1>2, <1>4, <2>1, <3>1
    <3>3. Fork(q, c) \in Nat
      <4>1. c > 1 /\ q[c - 1].op = "await"
        BY <3>1 DEF Sound, CopyForm
      <4>2. q[c - 1] \in Ops
        BY <1>1, <3>1, <4>1
      <4> QED BY <4>1, <4>2, OpTypes DEF Fork
    <3> QED BY <3>2, <3>3
  <2> QED BY <1>4, <2>1
<1>5. ASSUME NEW c \in 1 .. Len(q), q[c].op = "copy", q[c].layer = l, Fork(q, c) < n + 1,
             \A d \in c + 1 .. Len(q) : Into(q, d, Slot(l)) => Fork(q, d) >= n + 1
      PROVE  \E f \in 1 .. m : /\ q[f].op = "copy" /\ q[f].layer = l
                               /\ \A d \in f + 1 .. m + 1 : ~Into(q, d, Slot(l))
  <2>1. ASSUME NEW d \in 1 .. Len(q), q[d].op = "copy"
        PROVE  d > 1 /\ Fork(q, d) \in Nat
    <3>1. d > 1 /\ q[d - 1].op = "await"
      BY <2>1 DEF Sound, CopyForm
    <3>2. q[d - 1] \in Ops
      BY <1>1, <3>1
    <3> QED BY <3>1, <3>2, OpTypes DEF Fork
  <2>2. Into(q, c, Slot(l))
    BY <1>5 DEF Into
  <2>3. c <= m
    <3>1. Fork(q, c) >= n + 1 \/ Awaited(p, (n + 1) - 1, c)
      BY <1>1, <2>2 DEF Sound, Ordered
    <3>2. (n + 1) - 1 = n /\ Fork(q, c) \in Nat
      BY <1>5, <2>1
    <3>3. PICK j \in 1 .. n : p[j].op = "await" /\ p[j].n >= c
      BY <1>5, <3>1, <3>2 DEF Awaited
    <3>4. p[j] \in Ops /\ m >= p[j].n
      BY <1>1, <3>3 DEF Passed
    <3>5. p[j].n \in Nat
      BY <3>3, <3>4, OpTypes
    <3> QED BY <1>1, <3>3, <3>4, <3>5
  <2>4. ASSUME NEW d \in c + 1 .. m + 1, Into(q, d, Slot(l)) PROVE FALSE
    <3>1. d \in 1 .. Len(q) /\ q[d].op = "copy" /\ d \in 1 .. m + 1
      BY <1>1, <2>4 DEF Into
    <3>2. d \in c + 1 .. Len(q)
      BY <1>1, <3>1
    <3>3. Fork(q, d) >= n + 1 /\ Fork(q, d) < n + 1
      BY <1>2, <1>5, <2>4, <3>1, <3>2
    <3> QED BY <2>1, <3>1, <3>3
  <2>5. c \in 1 .. m
    BY <1>1, <2>3
  <2> QED BY <1>5, <2>4, <2>5
<1> QED BY <1>3, <1>4, <1>5 DEF Own

(* So its slots hold what it needs, whether or not the next copy started.   *)
LEMMA UseFindsItsWeights ==
  ASSUME NEW p \in Seq(Ops), NEW q \in Seq(Ops), NEW a, NEW b, NEW F, NEW I,
         Sound(p, q, a, b, F, I),
         NEW n \in Nat, n + 1 <= Len(p), NEW m \in 0 .. Len(q),
         Passed(p, n, m), Passed(q, m, n), NEW l \in Uses(p[n + 1], F),
         NEW st \in {m, m + 1}, NEW buf, Loaded(q, m, st, buf, I)
  PROVE  buf[Slot(l)] = l
<1>1. CASE l \in I /\ \A c \in 1 .. m + 1 : ~Into(q, c, Slot(l))
  <2>1. \A c \in 1 .. st : c \in 1 .. m + 1
    OBVIOUS
  <2> QED BY <1>1, <2>1 DEF Loaded
<1>2. ASSUME NEW c \in 1 .. m, q[c].op = "copy", q[c].layer = l,
             \A d \in c + 1 .. m + 1 : ~Into(q, d, Slot(l))
      PROVE  buf[Slot(l)] = l
  <2>1. \A d \in c + 1 .. st : d \in c + 1 .. m + 1
    OBVIOUS
  <2> QED BY <1>2, <2>1 DEF Loaded
<1> QED BY <1>1, <1>2, UseIsOrdered

(* A wait that is over puts nothing anywhere.                               *)
LEMMA LoadedAfterAwait ==
  ASSUME NEW q, NEW m \in Nat, NEW st \in {m, m + 1}, NEW buf, NEW I,
         Loaded(q, m, st, buf, I), q[m + 1].op = "await"
  PROVE  Loaded(q, m + 1, m + 1, buf, I)
<1>1. ASSUME NEW c \in 1 .. m + 1, q[c].op = "copy",
             \A d \in c + 1 .. m + 1 : ~Into(q, d, Slot(q[c].layer))
      PROVE  buf[Slot(q[c].layer)] = q[c].layer
  <2>1. c # m + 1
    BY <1>1
  <2>2. c \in 1 .. m /\ \A d \in c + 1 .. st : d \in c + 1 .. m + 1
    BY <2>1
  <2> QED BY <1>1, <2>2 DEF Loaded
<1>2. ASSUME NEW l \in I, \A d \in 1 .. m + 1 : ~Into(q, d, Slot(l))
      PROVE  buf[Slot(l)] = l
  <2>1. \A d \in 1 .. st : d \in 1 .. m + 1
    OBVIOUS
  <2> QED BY <1>2, <2>1 DEF Loaded
<1> QED BY <1>1, <1>2 DEF Loaded

LEMMA LoadedWhileCopying ==
  ASSUME NEW q, NEW m \in Nat, m + 1 <= Len(q), Len(q) \in Nat, NEW st \in {m, m + 1},
         NEW S, NEW buf, DOMAIN buf = S, NEW I, \A l \in I : Slot(l) \in S,
         \A c \in 1 .. m + 1 : q[c].op = "copy" => Slot(q[c].layer) \in S,
         Loaded(q, m, st, buf, I), q[m + 1].op = "copy", NEW x
  PROVE  /\ Loaded(q, m, m + 1, [buf EXCEPT ![Slot(q[m + 1].layer)] = x], I)
         /\ Loaded(q, m + 1, m + 1,
                   [buf EXCEPT ![Slot(q[m + 1].layer)] = q[m + 1].layer], I)
<1> DEFINE s == Slot(q[m + 1].layer)
<1>1. Into(q, m + 1, s) /\ s \in S
  BY DEF Into
<1> HIDE DEF s
(* Another slot, in which no copy up to this one went, keeps its weights. *)
<1>2. ASSUME NEW c \in 1 .. m, q[c].op = "copy",
             \A d \in c + 1 .. m + 1 : ~Into(q, d, Slot(q[c].layer))
      PROVE  /\ Slot(q[c].layer) # s /\ Slot(q[c].layer) \in S
             /\ buf[Slot(q[c].layer)] = q[c].layer
  <2>1. m + 1 \in c + 1 .. m + 1 /\ \A d \in c + 1 .. st : d \in c + 1 .. m + 1
    OBVIOUS
  <2>2. Slot(q[c].layer) # s
    BY <1>1, <1>2, <2>1
  <2>3. buf[Slot(q[c].layer)] = q[c].layer
    BY <1>2, <2>1 DEF Loaded
  <2>4. c \in 1 .. m + 1
    OBVIOUS
  <2> QED BY <1>2, <2>2, <2>3, <2>4
<1>3. ASSUME NEW l \in I, \A d \in 1 .. m + 1 : ~Into(q, d, Slot(l))
      PROVE  Slot(l) # s /\ Slot(l) \in S /\ buf[Slot(l)] = l
  <2>1. m + 1 \in 1 .. m + 1 /\ \A d \in 1 .. st : d \in 1 .. m + 1
    OBVIOUS
  <2> QED BY <1>1, <1>3, <2>1 DEF Loaded
<1>4. ASSUME NEW y PROVE \A z \in S : z # s => [buf EXCEPT ![s] = y][z] = buf[z]
  OBVIOUS
<1>5. Loaded(q, m, m + 1, [buf EXCEPT ![s] = x], I)
  BY <1>2, <1>3, <1>4 DEF Loaded
<1>6. Loaded(q, m + 1, m + 1, [buf EXCEPT ![s] = q[m + 1].layer], I)
  <2> DEFINE new == [buf EXCEPT ![s] = q[m + 1].layer]
  <2>1. new[s] = q[m + 1].layer
    BY <1>1
  <2>2. \A z \in S : z # s => new[z] = buf[z]
    BY <1>4
  <2> HIDE DEF new
  <2>3. ASSUME NEW c \in 1 .. m + 1, q[c].op = "copy",
               \A d \in c + 1 .. m + 1 : ~Into(q, d, Slot(q[c].layer))
        PROVE  new[Slot(q[c].layer)] = q[c].layer
    <3>1. CASE c \in 1 .. m
      BY <1>2, <2>2, <2>3, <3>1
    <3>2. CASE c = m + 1
      BY <2>1, <3>2 DEF s
    <3> QED BY <3>1, <3>2
  <2>4. ASSUME NEW l \in I, \A d \in 1 .. m + 1 : ~Into(q, d, Slot(l))
        PROVE  new[Slot(l)] = l
    BY <1>3, <2>2, <2>4
  <2>5. Loaded(q, m + 1, m + 1, new, I)
    BY <2>3, <2>4 DEF Loaded
  <2> QED BY <2>5 DEF new
<1> QED BY <1>5, <1>6 DEF s

(* What is enqueued behind them does not matter to what was executed.       *)
LEMMA ExecutedStays ==
  ASSUME NEW q \in Seq(Ops), NEW q2 \in Seq(Ops), Len(q2) >= Len(q),
         \A k \in 1 .. Len(q) : q2[k] = q[k], NEW m \in 0 .. Len(q)
  PROVE  /\ \A n : Passed(q, m, n) => Passed(q2, m, n)
         /\ \A st \in 0 .. Len(q) : \A buf, I :
              Loaded(q, m, st, buf, I) => Loaded(q2, m, st, buf, I)
<1>1. Len(q) \in Nat /\ Len(q2) \in Nat /\ \A k \in 1 .. m : k \in 1 .. Len(q) /\ q2[k] = q[k]
  OBVIOUS
<1>2. \A n : Passed(q, m, n) => Passed(q2, m, n)
  BY <1>1 DEF Passed
<1>3. ASSUME NEW st \in 0 .. Len(q), NEW buf, NEW I, Loaded(q, m, st, buf, I)
      PROVE  Loaded(q2, m, st, buf, I)
  <2>1. \A d \in 1 .. st : \A s : Into(q2, d, s) <=> Into(q, d, s)
    BY <1>1 DEF Into
  <2>2. ASSUME NEW c \in 1 .. m, q2[c].op = "copy",
               \A d \in c + 1 .. st : ~Into(q2, d, Slot(q2[c].layer))
        PROVE  buf[Slot(q2[c].layer)] = q2[c].layer
    <3>1. \A d \in c + 1 .. st : d \in 1 .. st
      OBVIOUS
    <3> QED BY <1>1, <1>3, <2>1, <2>2, <3>1 DEF Loaded
  <2>3. ASSUME NEW l \in I, \A d \in 1 .. st : ~Into(q2, d, Slot(l)) PROVE buf[Slot(l)] = l
    BY <1>3, <2>1, <2>3 DEF Loaded
  <2> QED BY <2>2, <2>3 DEF Loaded
<1> QED BY <1>2, <1>3

-----------------------------------------------------------------------------
(* The host's steps. *)

Pairs == {<<"compute", "copy">>, <<"graph_compute", "graph_copy">>}

(* What a slot of the ring holds once everything enqueued is executed.     *)
Settled(b, l) ==
  \/ b = "graph_copy" /\ l \in FirstLayers /\ Untouched(program[b], l)
  \/ \E c \in 1 .. End(b) : Latest(program[b], l, c)

Before(b) == IF b = "graph_copy" THEN FirstLayers ELSE {}

LEMMA EnqueueReads ==
  ASSUME program \in [Streams -> Seq(Ops)],
         NEW a \in Streams, NEW b \in Streams, <<a, b>> \in Pairs,
         Sound(program[a], program[b], a, b, FirstLayers, Before(b)),
         NEW new \in Seq(Ops), Enqueue(On(a, new)),
         \A k \in 1 .. Len(new) :
           /\ new[k].op \in {"await", "read", "replay"}
           /\ new[k].op = "await" => new[k].on = b
           /\ \A l \in Uses(new[k], FirstLayers) :
                /\ Settled(b, l)
                /\ \A c \in 1 .. End(b) : Into(program[b], c, Slot(l)) =>
                     Awaited(program[a], End(a), c) \/ Awaited(new, k - 1, c)
  PROVE  /\ \A t \in Streams : t # a => program'[t] = program[t]
         /\ Sound(program'[a], program[b], a, b, FirstLayers, Before(b))
         /\ \A c : Awaited(program[a], End(a), c) \/ Awaited(new, Len(new), c)
                     => Awaited(program'[a], Len(program'[a]), c)
<1> DEFINE p == program[a]
           q == program[b]
           p2 == program'[a]
<1>1. /\ program' \in [Streams -> Seq(Ops)]
      /\ \A t \in Streams : t # a => program'[t] = program[t]
      /\ Len(p2) = Len(p) + Len(new)
      /\ \A k \in 1 .. Len(p) : p2[k] = p[k]
      /\ \A k \in 1 .. Len(new) : p2[Len(p) + k] = new[k]
  BY EnqueueOn DEF End
<1>2. p \in Seq(Ops) /\ q \in Seq(Ops) /\ p2 \in Seq(Ops)
      /\ Len(p) \in Nat /\ Len(new) \in Nat /\ Len(p2) \in Nat
  BY <1>1
<1>3. End(a) = Len(p) /\ End(b) = Len(q)
  BY DEF End
<1> HIDE DEF p, q, p2
<1>4. ASSUME NEW n \in 0 .. Len(new), NEW c,
             Awaited(p, Len(p), c) \/ Awaited(new, n, c)
      PROVE  Awaited(p2, Len(p) + n, c)
  <2>1. ASSUME NEW j \in 1 .. Len(p), p[j].op = "await", p[j].n >= c
        PROVE  Awaited(p2, Len(p) + n, c)
    <3>1. j \in 1 .. Len(p) + n /\ p2[j] = p[j]
      BY <1>1, <1>2
    <3> QED BY <2>1, <3>1 DEF Awaited
  <2>2. ASSUME NEW j \in 1 .. n, new[j].op = "await", new[j].n >= c
        PROVE  Awaited(p2, Len(p) + n, c)
    <3>1. Len(p) + j \in 1 .. Len(p) + n /\ p2[Len(p) + j] = new[j]
      BY <1>1, <1>2
    <3> QED BY <2>2, <3>1 DEF Awaited
  <2> QED BY <1>4, <2>1, <2>2 DEF Awaited
<1>5. ASSUME NEW k \in Len(p) + 1 .. Len(p2)
      PROVE  /\ p2[k].op \in {"await", "read", "replay"}
             /\ p2[k].op = "await" => p2[k].on = b
             /\ \A l \in Uses(p2[k], FirstLayers) :
                  /\ \A c \in 1 .. Len(q) : Into(q, c, Slot(l)) => Awaited(p2, k - 1, c)
                  /\ \/ l \in Before(b) /\ Untouched(q, l)
                     \/ \E c \in 1 .. Len(q) : Latest(q, l, c)
  <2>1. PICK i \in 1 .. Len(new) : k = Len(p) + i /\ p2[k] = new[i]
    <3>1. k - Len(p) \in 1 .. Len(new) /\ k = Len(p) + (k - Len(p))
      BY <1>1, <1>2
    <3> QED BY <1>1, <3>1
  <2>2. ASSUME NEW l \in Uses(new[i], FirstLayers)
        PROVE  /\ \A c \in 1 .. Len(q) : Into(q, c, Slot(l)) => Awaited(p2, k - 1, c)
               /\ \/ l \in Before(b) /\ Untouched(q, l)
                  \/ \E c \in 1 .. Len(q) : Latest(q, l, c)
    <3>1. Settled(b, l)
          /\ \A c \in 1 .. Len(q) : Into(q, c, Slot(l)) =>
               Awaited(p, Len(p), c) \/ Awaited(new, i - 1, c)
      BY <1>3, <2>2 DEF p, q
    <3>2. i - 1 \in 0 .. Len(new) /\ k - 1 = Len(p) + (i - 1)
      BY <1>2, <2>1
    <3>3. \A c \in 1 .. Len(q) : Into(q, c, Slot(l)) => Awaited(p2, k - 1, c)
      BY <1>4, <3>1, <3>2
    <3> QED BY <1>3, <3>1, <3>3 DEF Settled, Before, q
  <2> QED BY <2>1, <2>2
<1>6. Sound(p2, q, a, b, FirstLayers, Before(b))
  <2>1. Sound(p, q, a, b, FirstLayers, Before(b)) /\ Len(p2) >= Len(p)
    BY <1>1, <1>2 DEF p, q
  <2> QED BY <1>1, <1>2, <1>5, <2>1, ReadsAppended
<1>7. \A c : Awaited(p, Len(p), c) \/ Awaited(new, Len(new), c) => Awaited(p2, Len(p2), c)
  <2>1. Len(new) \in 0 .. Len(new)
    BY <1>2
  <2> QED BY <1>1, <1>4, <2>1
<1> QED BY <1>1, <1>3, <1>6, <1>7 DEF p, q, p2

LEMMA EnqueueCopy ==
  ASSUME program \in [Streams -> Seq(Ops)],
         NEW a \in Streams, NEW b \in Streams, <<a, b>> \in Pairs,
         Sound(program[a], program[b], a, b, FirstLayers, Before(b)),
         NEW next \in Layers, NEW of \in Nat,
         Enqueue(On(b, <<Await(a, End(a), of), Copy(next)>>))
  PROVE  /\ \A t \in Streams : t # b => program'[t] = program[t]
         /\ Len(program'[b]) = End(b) + 2
         /\ Sound(program[a], program'[b], a, b, FirstLayers, Before(b))
         /\ Latest(program'[b], next, End(b) + 2)
         /\ \A l : Slot(l) # Slot(next) =>
              /\ Untouched(program[b], l) => Untouched(program'[b], l)
              /\ \A c \in 1 .. End(b) :
                   Latest(program[b], l, c) => Latest(program'[b], l, c)
<1> DEFINE p == program[a]
           q == program[b]
           q2 == program'[b]
           new == <<Await(a, End(a), of), Copy(next)>>
<1>1. p \in Seq(Ops) /\ q \in Seq(Ops) /\ End(a) = Len(p) /\ End(b) = Len(q)
      /\ Len(p) \in Nat /\ Len(q) \in Nat
  BY DEF End
<1>2. /\ Await(a, End(a), of) \in Ops /\ Copy(next) \in Ops
      /\ Await(a, End(a), of).op = "await" /\ Await(a, End(a), of).on = a
      /\ Await(a, End(a), of).n = Len(p)
      /\ Copy(next).op = "copy" /\ Copy(next).layer = next
  BY <1>1, OpTypes DEF Await, Copy
<1>3. new \in Seq(Ops) /\ Len(new) = 2
      /\ new[1] = Await(a, End(a), of) /\ new[2] = Copy(next)
  BY <1>2
<1> HIDE DEF new
<1>4. /\ program' \in [Streams -> Seq(Ops)]
      /\ \A t \in Streams : t # b => program'[t] = program[t]
      /\ Len(q2) = Len(q) + 2
      /\ \A k \in 1 .. Len(q) : q2[k] = q[k]
      /\ \A k \in 1 .. 2 : q2[Len(q) + k] = new[k]
  <2>1. Enqueue(On(b, new))
    BY DEF new
  <2>2. /\ program' \in [Streams -> Seq(Ops)]
        /\ \A t \in Streams : t # b => program'[t] = program[t]
        /\ Len(program'[b]) = End(b) + Len(new)
        /\ \A k \in 1 .. End(b) : program'[b][k] = program[b][k]
        /\ \A k \in 1 .. Len(new) : program'[b][End(b) + k] = new[k]
    BY <1>3, <2>1, EnqueueOn
  <2> QED BY <1>1, <1>3, <2>2
<1>5. q2[Len(q) + 1] = Await(a, End(a), of) /\ q2[Len(q) + 2] = Copy(next) /\ q2 \in Seq(Ops)
  <2>1. 1 \in 1 .. 2 /\ 2 \in 1 .. 2
    OBVIOUS
  <2> QED BY <1>3, <1>4, <2>1
<1>6. Sound(p, q, a, b, FirstLayers, Before(b))
  OBVIOUS
<1> HIDE DEF p, q, q2
<1>7. /\ Sound(p, q2, a, b, FirstLayers, Before(b))
      /\ Latest(q2, q2[Len(q) + 2].layer, Len(q) + 2)
      /\ \A l : Slot(l) # Slot(q2[Len(q) + 2].layer) =>
           /\ Untouched(q, l) => Untouched(q2, l)
           /\ \A c \in 1 .. Len(q) : Latest(q, l, c) => Latest(q2, l, c)
  <2>1. AddsCopy(p, q, q2, a)
    BY <1>2, <1>4, <1>5 DEF AddsCopy
  <2>2. p \in Seq(Ops) /\ q \in Seq(Ops) /\ q2 \in Seq(Ops)
    BY <1>1, <1>5
  <2>3. PICK F, I : F = FirstLayers /\ I = Before(b)
    OBVIOUS
  <2>4. Sound(p, q, a, b, F, I)
    BY <1>6, <2>3
  <2>5. Sound(p, q2, a, b, F, I)
    BY <2>1, <2>2, <2>4, CopyAppended
  <2>6. Latest(q2, q2[Len(q) + 2].layer, Len(q) + 2)
    BY <2>1, <2>2, <2>4, CopyAppended
  <2>7. \A l : Slot(l) # Slot(q2[Len(q) + 2].layer) =>
          /\ Untouched(q, l) => Untouched(q2, l)
          /\ \A c \in 1 .. Len(q) : Latest(q, l, c) => Latest(q2, l, c)
    BY <2>1, <2>2, <2>4, CopyAppended
  <2> QED BY <2>3, <2>5, <2>6, <2>7
<1>8. q2[Len(q) + 2].layer = next
  BY <1>2, <1>5
<1> QED BY <1>1, <1>4, <1>7, <1>8 DEF p, q, q2

LEMMA CurrentPair ==
  /\ Current \in Streams /\ CopyStream \in Streams /\ <<Current, CopyStream>> \in Pairs
  /\ Current \in {"compute", "graph_compute"} /\ CopyStream \in {"copy", "graph_copy"}
  /\ SoundPrograms => Sound(program[Current], program[CopyStream], Current, CopyStream,
                            FirstLayers, Before(CopyStream))
<1>1. CASE capturing
  BY <1>1 DEF Current, CopyStream, Pairs, Streams, SoundPrograms, Before
<1>2. CASE ~capturing
  BY <1>2 DEF Current, CopyStream, Pairs, Streams, SoundPrograms, Before
<1> QED BY <1>1, <1>2

LEMMA SoundAfter ==
  ASSUME SoundPrograms, count' = count,
         \A t \in Streams : t \notin {Current, CopyStream} => program'[t] = program[t],
         Sound(program'[Current], program'[CopyStream], Current, CopyStream,
               FirstLayers, Before(CopyStream))
  PROVE  SoundPrograms'
<1>1. FirstLayers' = FirstLayers
  BY DEF FirstLayers, Layers
<1>2. CASE capturing
  <2>1. /\ program'["compute"] = program["compute"] /\ program'["copy"] = program["copy"]
        /\ Sound(program'["graph_compute"], program'["graph_copy"], "graph_compute",
                 "graph_copy", FirstLayers, FirstLayers)
    BY <1>2 DEF Current, CopyStream, Streams, Before
  <2> QED BY <1>1, <2>1 DEF SoundPrograms
<1>3. CASE ~capturing
  <2>1. /\ program'["graph_compute"] = program["graph_compute"]
        /\ program'["graph_copy"] = program["graph_copy"]
        /\ Sound(program'["compute"], program'["copy"], "compute", "copy", FirstLayers, {})
    BY <1>3 DEF Current, CopyStream, Streams, Before
  <2> QED BY <1>1, <2>1 DEF SoundPrograms
<1> QED BY <1>2, <1>3

(* What the slots hold where the host is in its walk.                      *)
LEMMA WindowSettled ==
  ASSUME Shape, Rotates, HostInv
  PROVE  /\ pc \in {"wait", "forward", "start"} =>
              \A l \in Window(layer) : Settled(CopyStream, l)
         /\ pc = "idle" => \A l \in FirstLayers : Settled("copy", l)
<1>1. Walk /\ Window(0) = FirstLayers
  BY RingFact DEF Shape
<1>2. ASSUME ~capturing PROVE \A l \in Window(layer) : Settled("copy", l)
  BY <1>2 DEF HostInv, EagerSlots, Settled
<1>3. ASSUME capturing, pc # "join" PROVE \A l \in Window(layer) : Settled("graph_copy", l)
  BY <1>3 DEF HostInv, GraphSlots, Settled
<1>4. pc \in {"wait", "forward", "start"} => pc # "join"
  OBVIOUS
<1>5. pc = "idle" => ~capturing /\ layer = 0
  BY <1>1 DEF Walk
<1> QED BY <1>1, <1>2, <1>3, <1>4, <1>5 DEF CopyStream

LEMMA GraphSlotsAfterReads ==
  ASSUME Shape, Rotates, GraphSlots, UNCHANGED <<count, capturing, done>>,
         program'["graph_copy"] = program["graph_copy"],
         (IF capturing /\ pc' # "join" THEN layer' ELSE 0)
           = (IF capturing /\ pc # "join" THEN layer ELSE 0),
         \A c : Awaited(program["graph_compute"], End("graph_compute"), c)
                  => Awaited(program'["graph_compute"], Len(program'["graph_compute"]), c),
         \A l \in Layers : \A c :
           capturing /\ inCapture[l] /\ done[l].at >= c =>
             \/ inCapture'[l]
             \/ Awaited(program'["graph_compute"], Len(program'["graph_compute"]), c)
  PROVE  GraphSlots'
<1> DEFINE at == IF capturing /\ pc # "join" THEN layer ELSE 0
<1>1. Walk /\ count \in Nat \ {0} /\ 0 \in Layers
  <2>1. Walk /\ count \in Nat \ {0}
    BY DEF Shape
  <2> QED BY <2>1 DEF Layers
<1>2. pc # "join" /\ capturing => layer \in Layers
  BY <1>1 DEF Walk, Shape, TypeOK, Layers
<1>3. at \in Layers
  BY <1>1, <1>2
<1>4. Window(at) \subseteq Layers
  BY <1>3, RingFact DEF Shape
<1>5. FirstLayers' = FirstLayers /\ \A l : Window(l)' = Window(l)
  BY DEF FirstLayers, Layers, Window
<1>6. (IF capturing' /\ pc' # "join" THEN layer' ELSE 0) = at
  OBVIOUS
<1>7. \A l \in Window(at) :
        \/ l \in FirstLayers /\ Untouched(program["graph_copy"], l)
        \/ \E c \in 1 .. End("graph_copy") :
             /\ Latest(program["graph_copy"], l, c)
             /\ capturing => \/ inCapture[l] /\ done[l].at >= c
                             \/ Awaited(program["graph_compute"], End("graph_compute"), c)
  BY DEF GraphSlots
<1> HIDE DEF at
<1>8. \A l \in Window(at) :
        \/ l \in FirstLayers /\ Untouched(program["graph_copy"], l)
        \/ \E c \in 1 .. End("graph_copy") :
             /\ Latest(program["graph_copy"], l, c)
             /\ capturing =>
                  \/ inCapture'[l] /\ done[l].at >= c
                  \/ Awaited(program'["graph_compute"], Len(program'["graph_compute"]), c)
  BY <1>4, <1>7
<1> QED BY <1>5, <1>6, <1>8 DEF GraphSlots, End

LEMMA InitHost == Rotates /\ Init => HostInv
<1> SUFFICES ASSUME Rotates, Init PROVE HostInv
  OBVIOUS
<1>1. /\ count \in Counts /\ count \in Nat \ {0} /\ Window(0) = FirstLayers
      /\ pc = "idle" /\ layer = 0 /\ capturing = FALSE
  BY RingFact DEF Init
<1>2. PICK n : n = IF PrefetchStep < count THEN PrefetchStep ELSE count
  OBVIOUS
<1>3. n \in Nat /\ n <= count /\ n <= PrefetchStep /\ FirstLayers = 0 .. n - 1
  BY <1>1, <1>2 DEF FirstLayers, Layers
<1>4. PICK q : q = FirstCopies(n)
  OBVIOUS
<1>5. /\ program["copy"] = q
      /\ \A s \in Streams : s # "copy" => program[s] = <<>>
      /\ done = [l \in Layers |-> [at |-> IF l < n THEN 2 * (l + 1) ELSE 0, of |-> 0]]
  BY <1>2, <1>4 DEF Init, Streams
<1>6. /\ Len(q) = 2 * n /\ DOMAIN q = 1 .. 2 * n
      /\ \A k \in 1 .. 2 * n :
           q[k] = IF k % 2 = 1 THEN Await("compute", 0, 0) ELSE Copy(k \div 2 - 1)
  <2>1. DOMAIN q = 1 .. 2 * n /\ 2 * n \in Nat
    BY <1>3, <1>4 DEF FirstCopies
  <2>2. Len(q) = 2 * n
    <3>1. q = FirstCopies(n)
      BY <1>4
    <3>2. q = [k \in 1 .. 2 * n |->
                 IF k % 2 = 1 THEN Await("compute", 0, 0) ELSE Copy(k \div 2 - 1)]
      BY <3>1 DEF FirstCopies
    <3> QED BY <2>1, <3>2
  <2> QED BY <1>4, <2>1, <2>2 DEF FirstCopies
<1>7. \A k \in 1 .. 2 * n :
        /\ q[k].op = "copy" => k % 2 = 0 /\ q[k] = Copy(k \div 2 - 1) /\ q[k].layer = k \div 2 - 1
        /\ q[k].op = "await" => q[k] = Await("compute", 0, 0) /\ q[k].on = "compute"
        /\ q[k].op \in {"await", "copy"}
  BY <1>6 DEF Await, Copy
<1>8. CopyForm(q, "compute", 0)
  <2> SUFFICES ASSUME NEW c \in 1 .. 2 * n, q[c].op = "copy"
               PROVE  c > 1 /\ q[c - 1].op = "await" /\ Fork(q, c) <= 0
    BY <1>6, <1>7 DEF CopyForm
  <2>1. c % 2 = 0
    BY <1>7
  <2>2. c > 1 /\ (c - 1) % 2 = 1 /\ c - 1 \in 1 .. 2 * n
    BY <1>3, <2>1
  <2>3. q[c - 1] = Await("compute", 0, 0)
    BY <1>6, <2>2
  <2> QED BY <2>2, <2>3 DEF Fork, Await
<1>9. SoundPrograms
  <2>1. Len(<<>>) = 0 /\ \A k \in 1 .. 0 : FALSE
    OBVIOUS
  <2>2. Sound(<<>>, q, "compute", "copy", FirstLayers, {})
    BY <1>8, <2>1 DEF Sound, ReadForm, Ordered
  <2>3. Sound(<<>>, <<>>, "graph_compute", "graph_copy", FirstLayers, FirstLayers)
    BY <2>1 DEF Sound, ReadForm, CopyForm, Ordered
  <2> QED BY <1>5, <2>2, <2>3 DEF SoundPrograms, Streams
<1>10. EagerSlots
  <2> SUFFICES ASSUME NEW l \in FirstLayers
               PROVE  \E c \in 1 .. 2 * n : Latest(q, l, c) /\ done[l].at >= c
    BY <1>1, <1>5, <1>6 DEF EagerSlots, End
  <2>1. l \in 0 .. n - 1 /\ l \in Layers
    BY <1>3 DEF FirstLayers
  <2>2. \A k \in 0 .. n - 1 : Slot(k) = k
    <3> SUFFICES ASSUME NEW k \in 0 .. n - 1 PROVE k % PrefetchStep = k
      BY DEF Slot
    <3>1. k \in Nat /\ k < PrefetchStep
      BY <1>3
    <3> QED BY <3>1, ModFact
  <2>3. PICK c : c = 2 * (l + 1)
    OBVIOUS
  <2>4. c \in 1 .. 2 * n /\ c % 2 = 0 /\ c \div 2 - 1 = l
    BY <1>3, <2>1, <2>3
  <2>5. q[c].op = "copy" /\ q[c].layer = l
    BY <1>6, <2>4 DEF Copy
  <2>6. ASSUME NEW d \in c + 1 .. 2 * n, Into(q, d, Slot(l)) PROVE FALSE
    <3>1. d \in 1 .. 2 * n /\ q[d].op = "copy" /\ Slot(q[d].layer) = Slot(l)
      BY <2>4, <2>6 DEF Into
    <3>2. d % 2 = 0 /\ q[d].layer = d \div 2 - 1
      BY <1>7, <3>1
    <3>3. d \div 2 - 1 \in 0 .. n - 1
      BY <1>3, <3>1, <3>2
    <3>4. d \div 2 - 1 = l
      BY <2>1, <2>2, <3>1, <3>2, <3>3
    <3> QED BY <2>1, <2>3, <2>6, <3>2, <3>4
  <2>7. done[l].at = c
    <3>1. l < n
      BY <1>3, <2>1
    <3> QED BY <1>5, <2>1, <2>3, <3>1
  <2> QED BY <1>6, <2>4, <2>5, <2>6, <2>7 DEF Latest
<1>11. GraphSlots
  <2>1. program["graph_copy"] = <<>> /\ Len(<<>>) = 0
    BY <1>5 DEF Streams
  <2>2. \A l : Untouched(program["graph_copy"], l)
    BY <2>1 DEF Untouched
  <2> QED BY <1>1, <2>2 DEF GraphSlots
<1>12. AboutToRead
  BY <1>1 DEF AboutToRead
<1> QED BY <1>9, <1>10, <1>11, <1>12 DEF HostInv

LEMMA AwaitedUpTo ==
  ASSUME NEW p \in Seq(Ops), NEW c \in Nat, NEW d \in Nat, d <= c, Awaited(p, Len(p), c)
  PROVE  Awaited(p, Len(p), d)
<1>1. PICK j \in 1 .. Len(p) : p[j].op = "await" /\ p[j].n >= c
  BY DEF Awaited
<1>2. p[j] \in Ops
  OBVIOUS
<1>3. p[j].n \in Nat
  BY <1>1, <1>2, OpTypes
<1> QED BY <1>1, <1>3 DEF Awaited

LEMMA EagerSlotsKept ==
  ASSUME EagerSlots, UNCHANGED <<count, done, valid>>,
         program'["copy"] = program["copy"],
         (IF capturing' THEN 0 ELSE layer') = (IF capturing THEN 0 ELSE layer)
  PROVE  EagerSlots'
<1> DEFINE at == IF capturing THEN 0 ELSE layer
<1>1. \A l \in Window(at) : \E c \in 1 .. End("copy") :
        Latest(program["copy"], l, c) /\ (valid[l] => done[l].at >= c)
  BY DEF EagerSlots
<1>2. (\A l : Window(l)' = Window(l)) /\ End("copy")' = End("copy")
  BY DEF Layers, Window, End
<1>3. (IF capturing' THEN 0 ELSE layer') = at
  OBVIOUS
<1> HIDE DEF at
<1> QED BY <1>1, <1>2, <1>3 DEF EagerSlots

LEMMA HostWaits == Shape /\ Rotates /\ HostInv /\ WaitForLayer => HostInv'
<1> SUFFICES ASSUME Shape, Rotates, HostInv, WaitForLayer PROVE HostInv'
  OBVIOUS
<1>1. /\ TypeOK /\ Walk /\ program \in [Streams -> Seq(Ops)] /\ layer < count /\ pc = "wait"
      /\ capturing \in BOOLEAN /\ inCapture \in [Layers -> BOOLEAN]
      /\ done \in [Layers -> [at : Nat, of : Nat]]
      /\ \A s \in Streams : End(s) \in Nat
  BY DEF Shape, TypeOK, WaitForLayer, Walk, End
<1>2. layer \in Layers /\ layer \in Window(layer) /\ WaitFor(layer) \in Seq(Ops)
  BY <1>1, HostOps, RingFact DEF Shape
<1> DEFINE new == WaitFor(layer)
<1>3. /\ Enqueue(On(Current, new)) /\ pc' = "forward" /\ new \in Seq(Ops)
      /\ UNCHANGED <<count, layer, capturing, done, valid>>
      /\ inCapture' = IF capturing THEN [inCapture EXCEPT ![layer] = FALSE] ELSE inCapture
  BY <1>2 DEF WaitForLayer
<1>4. \/ new = <<>> /\ capturing /\ ~inCapture[layer]
      \/ \E n \in Nat, o \in Nat :
           /\ new = <<Await(CopyStream, n, o)>>
           /\ IF capturing THEN n = done[layer].at
              ELSE n = IF valid[layer] THEN done[layer].at ELSE End("copy")
  <2>1. done[layer].at \in Nat /\ done[layer].of \in Nat /\ End("copy") \in Nat
    BY <1>1, <1>2 DEF Streams
  <2>2. CASE capturing
    BY <2>1, <2>2 DEF WaitFor, CopyStream
  <2>3. CASE ~capturing
    BY <2>1, <2>3 DEF WaitFor, SyncPrevOnload, CopyStream
  <2> QED BY <2>2, <2>3
<1> HIDE DEF new
<1>5. \A n \in Nat, o \in Nat : new = <<Await(CopyStream, n, o)>> =>
        /\ Len(new) = 1 /\ new[1].op = "await" /\ new[1].on = CopyStream /\ new[1].n = n
        /\ \A c : n >= c => Awaited(new, Len(new), c)
  <2> SUFFICES ASSUME NEW n \in Nat, NEW o \in Nat, new = <<Await(CopyStream, n, o)>>
               PROVE  /\ Len(new) = 1
                      /\ new[1].op = "await" /\ new[1].on = CopyStream /\ new[1].n = n
                      /\ \A c : n >= c => Awaited(new, Len(new), c)
    OBVIOUS
  <2>1. Len(new) = 1 /\ new[1] = Await(CopyStream, n, o)
    OBVIOUS
  <2>2. new[1].op = "await" /\ new[1].on = CopyStream /\ new[1].n = n
    BY <2>1 DEF Await
  <2>3. 1 \in 1 .. Len(new)
    BY <2>1
  <2> QED BY <2>1, <2>2, <2>3 DEF Awaited
<1>6. \A k \in 1 .. Len(new) : /\ new[k].op = "await" /\ new[k].on = CopyStream
                               /\ Uses(new[k], FirstLayers) = {}
  <2>1. ASSUME NEW k \in 1 .. Len(new) PROVE new[k].op = "await" /\ new[k].on = CopyStream
    <3>1. Len(<<>>) = 0
      OBVIOUS
    <3>2. new # <<>>
      BY <2>1, <3>1
    <3>3. PICK n \in Nat, o \in Nat : new = <<Await(CopyStream, n, o)>>
      BY <1>4, <3>2
    <3>4. Len(new) = 1 /\ new[1].op = "await" /\ new[1].on = CopyStream
      BY <1>5, <3>3
    <3> QED BY <2>1, <3>4
  <2> QED BY <2>1 DEF Uses
<1>7. SoundPrograms /\ EagerSlots /\ GraphSlots
  BY DEF HostInv
<1>8. /\ \A t \in Streams : t # Current => program'[t] = program[t]
      /\ Sound(program'[Current], program[CopyStream], Current, CopyStream, FirstLayers,
               Before(CopyStream))
      /\ \A c : Awaited(program[Current], End(Current), c) \/ Awaited(new, Len(new), c)
                  => Awaited(program'[Current], Len(program'[Current]), c)
  BY <1>1, <1>3, <1>6, <1>7, CurrentPair, EnqueueReads
<1>9. program' \in [Streams -> Seq(Ops)]
  BY <1>1, <1>3, CurrentPair, EnqueueOn
<1>10. SoundPrograms'
  <2>1. Current # CopyStream
    BY DEF Current, CopyStream
  <2>2. program'[CopyStream] = program[CopyStream]
    BY <1>8, <2>1, CurrentPair
  <2> QED BY <1>3, <1>7, <1>8, <2>2, SoundAfter
<1>11. program'["copy"] = program["copy"] /\ program'["graph_copy"] = program["graph_copy"]
  BY <1>8 DEF Streams, Current
<1>12. EagerSlots'
  BY <1>3, <1>7, <1>11, EagerSlotsKept
<1>13. GraphSlots'
  <2>1. \A c : Awaited(program["graph_compute"], End("graph_compute"), c)
                 => Awaited(program'["graph_compute"], Len(program'["graph_compute"]), c)
    <3>1. CASE capturing
      BY <1>8, <3>1 DEF Current
    <3>2. CASE ~capturing
      BY <1>8, <3>2 DEF Current, End, Streams
    <3> QED BY <3>1, <3>2
  <2>2. ASSUME NEW l \in Layers, NEW c, capturing, inCapture[l], done[l].at >= c,
               ~inCapture'[l]
        PROVE  Awaited(program'["graph_compute"], Len(program'["graph_compute"]), c)
    <3>1. l = layer
      BY <1>1, <1>3, <2>2
    <3>2. PICK n \in Nat, o \in Nat :
            new = <<Await(CopyStream, n, o)>> /\ n = done[layer].at
      BY <1>4, <2>2, <3>1
    <3>3. Awaited(new, Len(new), c)
      BY <1>5, <2>2, <3>1, <3>2
    <3> QED BY <1>8, <2>2, <3>3 DEF Current
  <2>3. pc # "join" /\ pc' # "join"
    BY <1>1, <1>3
  <2> QED BY <1>3, <1>7, <1>11, <2>1, <2>2, <2>3, GraphSlotsAfterReads
<1>14. AboutToRead'
  <2> SUFFICES ASSUME NEW c \in 1 .. End(CopyStream),
                      Into(program[CopyStream], c, Slot(layer))
               PROVE  Awaited(program'[Current], Len(program'[Current]), c)
    <3>1. Current' = Current /\ CopyStream' = CopyStream
      BY <1>3 DEF Current, CopyStream
    <3>2. program'[CopyStream] = program[CopyStream] /\ End(CopyStream)' = End(CopyStream)
      BY <1>11, <3>1 DEF CopyStream, End
    <3> QED BY <1>3, <3>1, <3>2 DEF AboutToRead, End
  <2>1. PICK d \in 1 .. End(CopyStream) :
          /\ Latest(program[CopyStream], layer, d)
          /\ Awaited(program[Current], End(Current), d) \/ Awaited(new, Len(new), d)
    <3>1. CASE capturing
      <4>1. ~Untouched(program["graph_copy"], layer)
        BY <3>1 DEF CopyStream, Untouched, End
      <4>2. PICK d \in 1 .. End("graph_copy") :
              /\ Latest(program["graph_copy"], layer, d)
              /\ \/ inCapture[layer] /\ done[layer].at >= d
                 \/ Awaited(program["graph_compute"], End("graph_compute"), d)
        BY <1>1, <1>2, <1>7, <3>1, <4>1 DEF GraphSlots
      <4>3. inCapture[layer] /\ done[layer].at >= d => Awaited(new, Len(new), d)
        BY <1>4, <1>5, <3>1
      <4> QED BY <3>1, <4>2, <4>3 DEF CopyStream, Current
    <3>2. CASE ~capturing
      <4>1. PICK d \in 1 .. End("copy") :
              Latest(program["copy"], layer, d) /\ (valid[layer] => done[layer].at >= d)
        BY <1>2, <1>7, <3>2 DEF EagerSlots
      <4>2. PICK n \in Nat, o \in Nat :
              /\ new = <<Await(CopyStream, n, o)>>
              /\ n = IF valid[layer] THEN done[layer].at ELSE End("copy")
        BY <1>4, <3>2
      <4>3. n >= d
        BY <1>1, <4>1, <4>2 DEF Streams
      <4>4. Awaited(new, Len(new), d)
        BY <1>5, <4>2, <4>3
      <4> QED BY <3>2, <4>1, <4>4 DEF CopyStream
    <3> QED BY <3>1, <3>2
  <2>2. CopyStream \in Streams /\ End(CopyStream) \in Nat
    BY <1>1, CurrentPair
  <2>3. c <= d
    <3> SUFFICES ASSUME c > d PROVE FALSE
      BY <2>2
    <3>1. c \in d + 1 .. Len(program[CopyStream])
      BY <2>2 DEF End
    <3> QED BY <2>1, <3>1 DEF Latest
  <2>4. Awaited(program'[Current], Len(program'[Current]), d)
    BY <1>8, <2>1
  <2>5. program'[Current] \in Seq(Ops) /\ c \in Nat /\ d \in Nat
    BY <1>9, <2>2, CurrentPair
  <2> QED BY <2>3, <2>4, <2>5, AwaitedUpTo
<1> QED BY <1>10, <1>12, <1>13, <1>14 DEF HostInv

LEMMA HostReads == Shape /\ Rotates /\ HostInv /\ ForwardLayer => HostInv'
<1> SUFFICES ASSUME Shape, Rotates, HostInv, ForwardLayer PROVE HostInv'
  OBVIOUS
<1>1. /\ Walk /\ program \in [Streams -> Seq(Ops)] /\ layer < count /\ pc = "forward"
      /\ SoundPrograms /\ EagerSlots /\ GraphSlots /\ AboutToRead
  BY DEF Shape, TypeOK, ForwardLayer, Walk, HostInv
<1>2. layer \in Layers /\ layer \in Window(layer) /\ <<Read(layer)>> \in Seq(Ops)
  BY <1>1, HostOps, RingFact DEF Shape
<1>3. Settled(CopyStream, layer)
  BY <1>1, <1>2, WindowSettled
<1> DEFINE new == <<Read(layer)>>
<1>4. /\ Enqueue(On(Current, new)) /\ pc' = "start" /\ new \in Seq(Ops)
      /\ UNCHANGED <<count, layer, capturing, done, valid, inCapture>>
  BY <1>2 DEF ForwardLayer, events
<1>5. Len(new) = 1 /\ new[1].op = "read" /\ Uses(new[1], FirstLayers) = {layer}
  BY DEF Read, Uses
<1> HIDE DEF new
<1>6. ASSUME NEW k \in 1 .. Len(new)
      PROVE  /\ new[k].op \in {"await", "read", "replay"}
             /\ new[k].op = "await" => new[k].on = CopyStream
             /\ \A l \in Uses(new[k], FirstLayers) :
                  /\ Settled(CopyStream, l)
                  /\ \A c \in 1 .. End(CopyStream) : Into(program[CopyStream], c, Slot(l)) =>
                       Awaited(program[Current], End(Current), c) \/ Awaited(new, k - 1, c)
  <2>1. k = 1
    BY <1>5
  <2> QED BY <1>1, <1>3, <1>5, <2>1 DEF AboutToRead
<1>7. /\ \A t \in Streams : t # Current => program'[t] = program[t]
      /\ Sound(program'[Current], program[CopyStream], Current, CopyStream, FirstLayers,
               Before(CopyStream))
      /\ \A c : Awaited(program[Current], End(Current), c) \/ Awaited(new, Len(new), c)
                  => Awaited(program'[Current], Len(program'[Current]), c)
  BY <1>1, <1>4, <1>6, CurrentPair, EnqueueReads
<1>8. SoundPrograms'
  <2>1. Current # CopyStream
    BY DEF Current, CopyStream
  <2>2. program'[CopyStream] = program[CopyStream]
    BY <1>7, <2>1, CurrentPair
  <2> QED BY <1>1, <1>4, <1>7, <2>2, SoundAfter
<1>9. program'["copy"] = program["copy"] /\ program'["graph_copy"] = program["graph_copy"]
  BY <1>7 DEF Streams, Current
<1>10. EagerSlots'
  BY <1>1, <1>4, <1>9, EagerSlotsKept
<1>11. GraphSlots'
  <2>1. \A c : Awaited(program["graph_compute"], End("graph_compute"), c)
                 => Awaited(program'["graph_compute"], Len(program'["graph_compute"]), c)
    <3>1. CASE capturing
      BY <1>7, <3>1 DEF Current
    <3>2. CASE ~capturing
      BY <1>7, <3>2 DEF Current, End, Streams
    <3> QED BY <3>1, <3>2
  <2> QED BY <1>1, <1>4, <1>9, <2>1, GraphSlotsAfterReads
<1>12. AboutToRead'
  BY <1>4 DEF AboutToRead
<1> QED BY <1>8, <1>10, <1>11, <1>12 DEF HostInv

LEMMA HostPrefetches == Shape /\ Rotates /\ HostInv /\ StartPrefetch => HostInv'
<1> SUFFICES ASSUME Shape, Rotates, HostInv, StartPrefetch PROVE HostInv'
  OBVIOUS
<1>1. /\ Walk /\ program \in [Streams -> Seq(Ops)] /\ layer < count /\ pc = "start"
      /\ SoundPrograms /\ EagerSlots /\ GraphSlots
      /\ capturing \in BOOLEAN /\ inCapture \in [Layers -> BOOLEAN]
      /\ done \in [Layers -> [at : Nat, of : Nat]] /\ valid \in [Layers -> BOOLEAN]
      /\ captures \in Nat /\ count \in Nat \ {0}
      /\ \A s \in Streams : End(s) \in Nat
  BY DEF Shape, TypeOK, StartPrefetch, Walk, HostInv, End
<1>2. layer \in Layers /\ Window(layer) \subseteq Layers /\ 0 \in Layers
      /\ Window(0) \subseteq Layers
  <2>1. layer \in Layers /\ 0 \in Layers
    BY <1>1, HostOps DEF Layers
  <2> QED BY <2>1, RingFact DEF Shape
<1>3. PICK next \in Layers : next = NextIndex /\ next = (layer + PrefetchStep) % count
  BY <1>1, HostOps DEF NextIndex
<1>4. PICK after \in Layers : after = IF layer + 1 < count THEN layer + 1 ELSE 0
  BY <1>1, <1>2 DEF Layers
<1>5. \A m \in Window(after) : m # next => m \in Window(layer) /\ Slot(m) # Slot(next)
  BY <1>2, <1>3, <1>4, SlotsAfterStep DEF Shape
<1>6. /\ Enqueue(On(CopyStream, <<Await(Current, End(Current), Capture), Copy(next)>>))
      /\ done' = [done EXCEPT ![next] = [at |-> End(CopyStream) + 2, of |-> Capture]]
      /\ inCapture' = [inCapture EXCEPT ![next] = capturing]
      /\ valid' = [valid EXCEPT ![next] = ~capturing]
      /\ UNCHANGED <<count, capturing>>
      /\ layer' = after
      /\ pc' \in {"wait", "idle", "join"} /\ (pc' = "join" => after = 0)
  BY <1>3, <1>4 DEF StartPrefetch, ForkPoint, ValidAfterStart
<1>7. Capture \in Nat
  BY <1>1 DEF Capture
<1>8. /\ \A t \in Streams : t # CopyStream => program'[t] = program[t]
      /\ Len(program'[CopyStream]) = End(CopyStream) + 2
      /\ Sound(program[Current], program'[CopyStream], Current, CopyStream, FirstLayers,
               Before(CopyStream))
      /\ Latest(program'[CopyStream], next, End(CopyStream) + 2)
      /\ \A l : Slot(l) # Slot(next) =>
           /\ Untouched(program[CopyStream], l) => Untouched(program'[CopyStream], l)
           /\ \A c \in 1 .. End(CopyStream) :
                Latest(program[CopyStream], l, c) => Latest(program'[CopyStream], l, c)
  BY <1>1, <1>6, <1>7, CurrentPair, EnqueueCopy
<1>9. SoundPrograms'
  <2>1. Current # CopyStream
    BY DEF Current, CopyStream
  <2>2. program'[Current] = program[Current]
    BY <1>8, <2>1, CurrentPair
  <2> QED BY <1>1, <1>6, <1>8, <2>2, SoundAfter
<1>10. (\A l : Window(l)' = Window(l)) /\ FirstLayers' = FirstLayers
  BY <1>6 DEF Layers, Window, FirstLayers
<1>11. /\ done'[next].at = End(CopyStream) + 2 /\ inCapture'[next] = capturing
       /\ valid'[next] = ~capturing
       /\ \A m \in Layers : m # next =>
            done'[m] = done[m] /\ inCapture'[m] = inCapture[m] /\ valid'[m] = valid[m]
  BY <1>1, <1>6
<1>12. PICK e \in Nat : e = End(CopyStream) /\ e + 2 \in 1 .. e + 2
  BY <1>1, CurrentPair
<1>13. EagerSlots'
  <2>1. CASE capturing
    <3>1. program'["copy"] = program["copy"] /\ End("copy")' = End("copy")
      BY <1>8, <2>1 DEF CopyStream, End, Streams
    <3>2. \A l \in Window(0) : \E c \in 1 .. End("copy") :
            Latest(program["copy"], l, c) /\ (valid'[l] => done'[l].at >= c)
      <4> SUFFICES ASSUME NEW l \in Window(0)
                   PROVE  \E c \in 1 .. End("copy") :
                            Latest(program["copy"], l, c) /\ (valid'[l] => done'[l].at >= c)
        OBVIOUS
      <4>1. PICK c \in 1 .. End("copy") :
              Latest(program["copy"], l, c) /\ (valid[l] => done[l].at >= c)
        BY <1>1, <2>1 DEF EagerSlots
      <4>2. valid'[l] => valid[l] /\ done'[l] = done[l]
        BY <1>2, <1>11, <2>1
      <4> QED BY <4>1, <4>2
    <3> QED BY <1>6, <1>10, <2>1, <3>1, <3>2 DEF EagerSlots
  <2>2. CASE ~capturing
    <3>1. CopyStream = "copy" /\ End("copy")' = e + 2
      BY <1>8, <1>12, <2>2 DEF CopyStream, End
    <3>2. ASSUME NEW l \in Window(after)
          PROVE  \E c \in 1 .. e + 2 :
                   Latest(program'["copy"], l, c) /\ (valid'[l] => done'[l].at >= c)
      <4>1. CASE l = next
        BY <1>8, <1>11, <1>12, <3>1, <4>1
      <4>2. CASE l # next
        <5>1. l \in Window(layer) /\ Slot(l) # Slot(next) /\ l \in Layers
          BY <1>2, <1>5, <4>2
        <5>2. PICK c \in 1 .. e :
                Latest(program["copy"], l, c) /\ (valid[l] => done[l].at >= c)
          BY <1>1, <1>12, <2>2, <3>1, <5>1 DEF EagerSlots
        <5>3. Latest(program'["copy"], l, c) /\ c \in 1 .. e + 2
          BY <1>8, <1>12, <3>1, <5>1, <5>2
        <5> QED BY <1>11, <4>2, <5>1, <5>2, <5>3
      <4> QED BY <4>1, <4>2
    <3> QED BY <1>6, <1>10, <2>2, <3>1, <3>2 DEF EagerSlots
  <2> QED BY <2>1, <2>2
<1>14. GraphSlots'
  <2>1. CASE capturing
    <3>1. /\ CopyStream = "graph_copy" /\ End("graph_copy")' = e + 2
          /\ program'["graph_compute"] = program["graph_compute"]
          /\ End("graph_compute")' = End("graph_compute")
      BY <1>8, <1>12, <2>1 DEF CopyStream, End, Streams
    <3>2. ASSUME NEW l \in Window(after)
          PROVE  \/ l \in FirstLayers /\ Untouched(program'["graph_copy"], l)
                 \/ \E c \in 1 .. e + 2 :
                      /\ Latest(program'["graph_copy"], l, c)
                      /\ \/ inCapture'[l] /\ done'[l].at >= c
                         \/ Awaited(program["graph_compute"], End("graph_compute"), c)
      <4>1. CASE l = next
        <5>1. Latest(program'["graph_copy"], l, e + 2) /\ inCapture'[l]
          BY <1>8, <1>11, <1>12, <2>1, <3>1, <4>1
        <5>2. done'[l].at = e + 2 /\ e + 2 \in 1 .. e + 2 /\ e + 2 >= e + 2
          BY <1>11, <1>12, <3>1, <4>1
        <5> QED BY <5>1, <5>2
      <4>2. CASE l # next
        <5>1. l \in Window(layer) /\ Slot(l) # Slot(next) /\ l \in Layers
          BY <1>2, <1>5, <4>2
        <5>2. done'[l] = done[l] /\ inCapture'[l] = inCapture[l]
          BY <1>11, <4>2, <5>1
        <5>3. \/ l \in FirstLayers /\ Untouched(program["graph_copy"], l)
              \/ \E c \in 1 .. e :
                   /\ Latest(program["graph_copy"], l, c)
                   /\ \/ inCapture[l] /\ done[l].at >= c
                      \/ Awaited(program["graph_compute"], End("graph_compute"), c)
          BY <1>1, <1>12, <2>1, <3>1, <5>1 DEF GraphSlots
        <5>4. CASE l \in FirstLayers /\ Untouched(program["graph_copy"], l)
          BY <1>8, <3>1, <5>1, <5>4
        <5>5. ASSUME NEW c \in 1 .. e, Latest(program["graph_copy"], l, c),
                     \/ inCapture[l] /\ done[l].at >= c
                     \/ Awaited(program["graph_compute"], End("graph_compute"), c)
              PROVE  /\ c \in 1 .. e + 2 /\ Latest(program'["graph_copy"], l, c)
                     /\ \/ inCapture'[l] /\ done'[l].at >= c
                        \/ Awaited(program["graph_compute"], End("graph_compute"), c)
          BY <1>8, <1>12, <3>1, <5>1, <5>2, <5>5
        <5> QED BY <5>3, <5>4, <5>5
      <4> QED BY <4>1, <4>2
    <3>3. (IF capturing' /\ pc' # "join" THEN layer' ELSE 0) = after
      BY <1>6, <2>1
    <3> QED BY <1>6, <1>10, <3>1, <3>2, <3>3 DEF GraphSlots
  <2>2. CASE ~capturing
    <3>1. program'["graph_copy"] = program["graph_copy"] /\ End("graph_copy")' = End("graph_copy")
      BY <1>8, <2>2 DEF CopyStream, End, Streams
    <3>2. \A l \in Window(0) :
            \/ l \in FirstLayers /\ Untouched(program["graph_copy"], l)
            \/ \E c \in 1 .. End("graph_copy") : Latest(program["graph_copy"], l, c)
      BY <1>1, <2>2 DEF GraphSlots
    <3> QED BY <1>6, <1>10, <2>2, <3>1, <3>2 DEF GraphSlots
  <2> QED BY <2>1, <2>2
<1>15. AboutToRead'
  BY <1>6 DEF AboutToRead
<1> QED BY <1>9, <1>13, <1>14, <1>15 DEF HostInv

LEMMA HostReplays == Shape /\ Rotates /\ HostInv /\ Replay => HostInv'
<1> SUFFICES ASSUME Shape, Rotates, HostInv, Replay PROVE HostInv'
  OBVIOUS
<1>1. /\ Walk /\ program \in [Streams -> Seq(Ops)] /\ pc = "idle"
      /\ SoundPrograms /\ EagerSlots /\ GraphSlots
      /\ End("copy") \in Nat /\ "compute" \in Streams /\ "copy" \in Streams
  BY DEF Shape, TypeOK, Replay, Starts, HostInv, End, Streams
<1>2. PICK e \in Nat : e = End("copy")
  BY <1>1
<1> DEFINE new == BeforeReplay \o <<Replayed>>
<1>3. /\ Enqueue(On("compute", new)) /\ new \in Seq(Ops)
      /\ UNCHANGED <<count, pc, layer, capturing, done, valid, inCapture>>
  BY HostOps DEF Replay, events
<1>4. Len(new) = 2 /\ new[1] = Await("copy", e, 0) /\ new[2] = Replayed
  <2>1. \A a \in Ops, b \in Ops :
          LET both == <<a>> \o <<b>> IN Len(both) = 2 /\ both[1] = a /\ both[2] = b
    OBVIOUS
  <2>2. Await("copy", End("copy"), 0) \in Ops /\ Replayed \in Ops
    BY <1>1, OpTypes
  <2> QED BY <1>2, <2>1, <2>2 DEF BeforeReplay, SyncPrevOnload
<1> HIDE DEF new
<1>5. /\ new[1].op = "await" /\ new[1].on = "copy" /\ new[1].n = e
      /\ new[2].op = "replay"
      /\ Uses(new[1], FirstLayers) = {} /\ Uses(new[2], FirstLayers) = FirstLayers
  BY <1>4 DEF Await, Replayed, Uses
<1>6. \A c \in 1 .. e : Awaited(new, 1, c)
  <2>1. 1 \in 1 .. 1
    OBVIOUS
  <2> QED BY <1>5, <2>1 DEF Awaited
<1>7. ASSUME NEW k \in 1 .. Len(new)
      PROVE  /\ new[k].op \in {"await", "read", "replay"}
             /\ new[k].op = "await" => new[k].on = "copy"
             /\ \A l \in Uses(new[k], FirstLayers) :
                  /\ Settled("copy", l)
                  /\ \A c \in 1 .. End("copy") : Into(program["copy"], c, Slot(l)) =>
                       Awaited(program["compute"], End("compute"), c) \/ Awaited(new, k - 1, c)
  <2>1. CASE k = 1
    BY <1>5, <2>1
  <2>2. CASE k = 2
    <3>1. \A l \in FirstLayers : Settled("copy", l)
      BY <1>1, WindowSettled
    <3>2. k - 1 = 1
      BY <2>2
    <3> QED BY <1>2, <1>5, <1>6, <2>2, <3>1, <3>2
  <2> QED BY <1>4, <2>1, <2>2
<1>8. /\ \A t \in Streams : t # "compute" => program'[t] = program[t]
      /\ Sound(program'["compute"], program["copy"], "compute", "copy", FirstLayers,
               Before("copy"))
  <2>1. <<"compute", "copy">> \in Pairs
        /\ Sound(program["compute"], program["copy"], "compute", "copy", FirstLayers,
                 Before("copy"))
    BY <1>1 DEF Pairs, SoundPrograms, Before
  <2> QED BY <1>1, <1>3, <1>7, <2>1, EnqueueReads
<1>9. /\ program'["copy"] = program["copy"] /\ program'["graph_copy"] = program["graph_copy"]
      /\ program'["graph_compute"] = program["graph_compute"]
  BY <1>8 DEF Streams
<1>10. SoundPrograms'
  <2>1. FirstLayers' = FirstLayers
    BY <1>3 DEF FirstLayers, Layers
  <2> QED BY <1>1, <1>8, <1>9, <2>1 DEF SoundPrograms, Before
<1>11. EagerSlots'
  BY <1>1, <1>3, <1>9, EagerSlotsKept
<1>12. GraphSlots'
  <2>1. \A c : Awaited(program["graph_compute"], End("graph_compute"), c)
                 => Awaited(program'["graph_compute"], Len(program'["graph_compute"]), c)
    BY <1>9 DEF End
  <2> QED BY <1>1, <1>3, <1>9, <2>1, GraphSlotsAfterReads
<1>13. AboutToRead'
  BY <1>1, <1>3 DEF AboutToRead
<1> QED BY <1>10, <1>11, <1>12, <1>13 DEF HostInv

LEMMA HostJoins == Shape /\ Rotates /\ HostInv /\ JoinLayer => HostInv'
<1> SUFFICES ASSUME Shape, Rotates, HostInv, JoinLayer PROVE HostInv'
  OBVIOUS
<1>1. /\ Walk /\ program \in [Streams -> Seq(Ops)] /\ pc = "join" /\ capturing
      /\ layer \in Layers /\ layer < count /\ Current = "graph_compute"
      /\ CopyStream = "graph_copy"
      /\ SoundPrograms /\ EagerSlots /\ GraphSlots
      /\ done \in [Layers -> [at : Nat, of : Nat]] /\ inCapture \in [Layers -> BOOLEAN]
      /\ "graph_compute" \in Streams /\ "graph_copy" \in Streams
  BY SMTT(30) DEF Shape, TypeOK, Walk, JoinLayer, HostInv, Layers, Current, CopyStream, Streams
<1>2. /\ UNCHANGED <<count, pc, capturing, done, valid>> /\ layer' = layer + 1
  BY DEF JoinLayer
<1>3. CASE inCapture[layer]
  <2> DEFINE new == <<Await("graph_copy", done[layer].at, done[layer].of)>>
  <2>1. Enqueue(On("graph_compute", new)) /\ inCapture' = [inCapture EXCEPT ![layer] = FALSE]
    BY <1>1, <1>3 DEF JoinLayer, ToJoin
  <2>2. new \in Seq(Ops)
    BY <1>1, HostOps
  <2>3. Len(new) = 1 /\ new[1].op = "await" /\ new[1].on = "graph_copy"
        /\ new[1].n = done[layer].at /\ Uses(new[1], FirstLayers) = {}
    BY DEF Await, Uses
  <2> HIDE DEF new
  <2>4. ASSUME NEW k \in 1 .. Len(new)
        PROVE  /\ new[k].op \in {"await", "read", "replay"}
               /\ new[k].op = "await" => new[k].on = "graph_copy"
               /\ Uses(new[k], FirstLayers) = {}
    <3>1. k = 1
      BY <2>3
    <3> QED BY <2>3, <3>1
  <2>5. <<"graph_compute", "graph_copy">> \in Pairs
        /\ Sound(program["graph_compute"], program["graph_copy"], "graph_compute",
                 "graph_copy", FirstLayers, Before("graph_copy"))
    BY <1>1 DEF Pairs, SoundPrograms, Before
  <2>6. /\ \A t \in Streams : t # "graph_compute" => program'[t] = program[t]
        /\ Sound(program'["graph_compute"], program["graph_copy"], "graph_compute",
                 "graph_copy", FirstLayers, Before("graph_copy"))
        /\ \A c : Awaited(program["graph_compute"], End("graph_compute"), c)
                    \/ Awaited(new, Len(new), c)
             => Awaited(program'["graph_compute"], Len(program'["graph_compute"]), c)
    BY <1>1, <2>1, <2>2, <2>4, <2>5, EnqueueReads
  <2>7. program'["copy"] = program["copy"] /\ program'["graph_copy"] = program["graph_copy"]
    BY <2>6 DEF Streams
  <2>8. SoundPrograms'
    BY <1>1, <1>2, <2>6, <2>7, SoundAfter
  <2>9. EagerSlots'
    BY <1>1, <1>2, <2>7, EagerSlotsKept
  <2>10. ASSUME NEW l \in Layers, NEW c, inCapture[l], done[l].at >= c, ~inCapture'[l]
         PROVE  Awaited(program'["graph_compute"], Len(program'["graph_compute"]), c)
    <3>1. l = layer
      BY <1>1, <2>1, <2>10
    <3>2. 1 \in 1 .. Len(new)
      BY <2>3
    <3>3. Awaited(new, Len(new), c)
      BY <2>3, <2>10, <3>1, <3>2 DEF Awaited
    <3> QED BY <2>6, <3>3
  <2>11. GraphSlots'
    BY <1>1, <1>2, <2>6, <2>7, <2>10, GraphSlotsAfterReads
  <2>12. AboutToRead'
    BY <1>1, <1>2 DEF AboutToRead
  <2> QED BY <2>8, <2>9, <2>11, <2>12 DEF HostInv
<1>4. CASE ~inCapture[layer]
  <2>1. UNCHANGED <<program, inCapture>>
    BY <1>4 DEF JoinLayer, ToJoin
  <2>2. SoundPrograms'
    BY <1>1, <1>2, <2>1 DEF SoundPrograms, FirstLayers, Layers
  <2>3. EagerSlots'
    BY <1>1, <1>2, <2>1, EagerSlotsKept
  <2>4. \A c : Awaited(program["graph_compute"], End("graph_compute"), c)
                 => Awaited(program'["graph_compute"], Len(program'["graph_compute"]), c)
    BY <2>1 DEF End
  <2>5. GraphSlots'
    BY <1>1, <1>2, <2>1, <2>4, GraphSlotsAfterReads
  <2>6. AboutToRead'
    BY <1>1, <1>2 DEF AboutToRead
  <2> QED BY <2>2, <2>3, <2>5, <2>6 DEF HostInv
<1> QED BY <1>3, <1>4

LEMMA HostStarts ==
  Shape /\ Rotates /\ HostInv /\ (BeginEager \/ BeginCapture \/ EndCapture) => HostInv'
<1> SUFFICES ASSUME Shape, Rotates, HostInv, BeginEager \/ BeginCapture \/ EndCapture
             PROVE  HostInv'
  OBVIOUS
<1>1. /\ Walk /\ program \in [Streams -> Seq(Ops)]
      /\ SoundPrograms /\ EagerSlots /\ GraphSlots /\ Window(0) = FirstLayers
  BY RingFact DEF Shape, TypeOK, HostInv
<1>2. /\ UNCHANGED <<count, done, valid, inCapture>> /\ layer' = 0 /\ pc' \in {"wait", "idle"}
      /\ program'["compute"] = program["compute"] /\ program'["copy"] = program["copy"]
  BY <1>1 DEF BeginEager, BeginCapture, EndCapture, events, gpu, Streams
<1>3. (\A l : Window(l)' = Window(l)) /\ FirstLayers' = FirstLayers
      /\ End("copy")' = End("copy")
  BY <1>2 DEF Window, FirstLayers, Layers, End
<1>4. EagerSlots'
  <2>1. pc = "idle" => layer = 0 /\ ~capturing
    BY <1>1 DEF Walk
  <2>2. (IF capturing THEN 0 ELSE layer) = 0
    <3>1. CASE BeginEager \/ BeginCapture
      BY <2>1, <3>1 DEF BeginEager, BeginCapture, Starts
    <3>2. CASE EndCapture
      BY <1>1, <3>2 DEF EndCapture, Walk
    <3> QED BY <3>1, <3>2
  <2>3. (IF capturing' THEN 0 ELSE layer') = (IF capturing THEN 0 ELSE layer)
    BY <1>2, <2>2
  <2> QED BY <1>1, <1>2, <2>3, EagerSlotsKept
<1>5. AboutToRead'
  BY <1>2 DEF AboutToRead
<1>6. CASE BeginEager \/ EndCapture
  <2>1. program' = program /\ ~capturing'
    <3>1. CASE BeginEager
      BY <1>1, <3>1 DEF BeginEager, Starts, Walk, gpu
    <3>2. CASE EndCapture
      BY <3>2 DEF EndCapture, gpu
    <3> QED BY <1>6, <3>1, <3>2
  <2>2. SoundPrograms'
    BY <1>1, <1>3, <2>1 DEF SoundPrograms
  <2>3. (IF capturing /\ pc # "join" THEN layer ELSE 0) = 0
    <3>1. CASE BeginEager
      BY <1>1, <3>1 DEF BeginEager, Starts, Walk
    <3>2. CASE EndCapture
      BY <3>2 DEF EndCapture
    <3> QED BY <1>6, <3>1, <3>2
  <2>4. \A l \in Window(0) :
          \/ l \in FirstLayers /\ Untouched(program["graph_copy"], l)
          \/ \E c \in 1 .. End("graph_copy") : Latest(program["graph_copy"], l, c)
    BY <1>1, <2>3 DEF GraphSlots
  <2>5. GraphSlots'
    BY <1>3, <2>1, <2>4 DEF GraphSlots, End
  <2> QED BY <1>4, <1>5, <2>2, <2>5 DEF HostInv
<1>7. CASE BeginCapture
  <2>1. program'["graph_compute"] = <<>> /\ program'["graph_copy"] = <<>> /\ pc' = "wait"
    BY <1>1, <1>7 DEF BeginCapture, Streams
  <2>2. Len(<<>>) = 0 /\ \A k \in 1 .. 0 : FALSE
    OBVIOUS
  <2>3. Sound(<<>>, <<>>, "graph_compute", "graph_copy", FirstLayers, FirstLayers)
    BY <2>2 DEF Sound, ReadForm, CopyForm, Ordered
  <2>4. SoundPrograms'
    BY <1>1, <1>2, <1>3, <2>1, <2>3 DEF SoundPrograms
  <2>5. \A l : Untouched(<<>>, l)
    BY <2>2 DEF Untouched
  <2>6. GraphSlots'
    BY <1>1, <1>2, <1>3, <2>1, <2>5 DEF GraphSlots
  <2> QED BY <1>4, <1>5, <2>4, <2>6 DEF HostInv
<1> QED BY <1>6, <1>7

LEMMA HostStep == Shape /\ Rotates /\ HostInv /\ [Next]_vars => HostInv'
<1> SUFFICES ASSUME Shape, Rotates, HostInv, [Next]_vars PROVE HostInv'
  OBVIOUS
<1>1. CASE Device \/ UNCHANGED vars
  <2>1. UNCHANGED <<count, program, pc, layer, capturing, done, valid, inCapture>>
    BY <1>1 DEF Device, PassAwait, BeginRead, EndRead, BeginCopy, EndCopy,
                BeginReplay, EndReplay, vars, gpu, host, events
  <2>2. SoundPrograms' <=> SoundPrograms
    BY <2>1 DEF SoundPrograms, FirstLayers, Layers
  <2>3. EagerSlots'
    BY <2>1, EagerSlotsKept DEF HostInv
  <2>4. GraphSlots'
    BY <2>1, GraphSlotsAfterReads DEF HostInv, End
  <2>5. AboutToRead'
    <3>1. Current' = Current /\ CopyStream' = CopyStream
      BY <2>1 DEF Current, CopyStream
    <3>2. AboutToRead
      BY DEF HostInv
    <3> QED BY <2>1, <3>1, <3>2 DEF AboutToRead, End
  <2> QED BY <2>2, <2>3, <2>4, <2>5 DEF HostInv
<1> QED BY <1>1, HostStarts, HostReplays, HostWaits, HostReads, HostPrefetches, HostJoins
        DEF Next, Host

-----------------------------------------------------------------------------
(* The device's steps. *)

LEMMA InitDevice == Init => DeviceInv
<1> SUFFICES ASSUME Init PROVE DeviceInv
  OBVIOUS
<1>1. /\ \A s \in Streams : ran[s] = 0 /\ ~active[s]
      /\ ~Replaying /\ ~capturing
  BY DEF Init, Replaying, Streams
<1>2. ran["compute"] = 0 /\ ran["copy"] = 0 /\ Started("copy") = 0
  BY <1>1 DEF Started, Streams
<1>3. \A p, n : Passed(p, 0, n)
  BY DEF Passed
<1>4. \A q, buf : Loaded(q, 0, 0, buf, {})
  BY DEF Loaded
<1> QED BY <1>1, <1>2, <1>3, <1>4 DEF DeviceInv

(* The host changes nothing the device relies on.                          *)
LEMMA DeviceKept ==
  ASSUME Shape, DeviceInv, program' \in [Streams -> Seq(Ops)],
         \A s \in Streams : /\ Len(program'[s]) >= Len(program[s])
                            /\ \A k \in 1 .. Len(program[s]) : program'[s][k] = program[s][k],
         UNCHANGED <<count, ran, active, buffer>>, Replaying' <=> Replaying,
         capturing' => /\ capturing
                       /\ program'["compute"] = program["compute"]
                       /\ program'["copy"] = program["copy"]
  PROVE  DeviceInv'
<1>1. /\ program \in [Streams -> Seq(Ops)] /\ ran \in [Streams -> Nat]
      /\ \A s \in Streams : ran[s] <= End(s)
      /\ \A s \in Streams : active[s] => ran[s] < End(s)
      /\ Streams = {"compute", "copy", "graph_compute", "graph_copy"}
  BY DEF Shape, TypeOK, Running, Streams
<1>2. \A s \in Streams :
        /\ ran[s] \in 0 .. Len(program[s]) /\ Started(s) \in 0 .. Len(program[s])
        /\ program[s] \in Seq(Ops) /\ program'[s] \in Seq(Ops)
        /\ Started(s)' = Started(s)
  BY SMTT(30), <1>1 DEF Started, End
<1>3. ASSUME NEW s \in Streams
      PROVE  /\ \A n : Passed(program[s], ran[s], n) => Passed(program'[s], ran[s], n)
             /\ \A I : Loaded(program[s], ran[s], Started(s), buffer, I)
                         => Loaded(program'[s], ran[s], Started(s), buffer, I)
  <2>1. PICK p \in Seq(Ops), p2 \in Seq(Ops) : p = program[s] /\ p2 = program'[s]
    BY <1>2
  <2>2. Len(p2) >= Len(p) /\ \A k \in 1 .. Len(p) : p2[k] = p[k]
    BY <2>1
  <2>3. ran[s] \in 0 .. Len(p) /\ Started(s) \in 0 .. Len(p)
    BY <1>2, <2>1
  <2>4. \A n : Passed(p, ran[s], n) => Passed(p2, ran[s], n)
    BY <2>1, <2>2, <2>3, ExecutedStays
  <2>5. \A I : Loaded(p, ran[s], Started(s), buffer, I)
                 => Loaded(p2, ran[s], Started(s), buffer, I)
    BY <2>1, <2>2, <2>3, ExecutedStays
  <2> QED BY <2>1, <2>4, <2>5
<1>4. FirstLayers' = FirstLayers
  BY DEF FirstLayers, Layers
<1>5. /\ Passed(program'["compute"], ran["compute"], ran["copy"])
      /\ Passed(program'["copy"], ran["copy"], ran["compute"])
  BY <1>1, <1>3 DEF DeviceInv
<1>6. capturing' => ran["compute"] = End("compute")' /\ ran["copy"] = End("copy")'
  BY DEF DeviceInv, End
<1>7. ~Replaying => Loaded(program'["copy"], ran["copy"], Started("copy"), buffer, {})
  BY <1>1, <1>3 DEF DeviceInv
<1>8. Replaying =>
        /\ Passed(program'["graph_compute"], ran["graph_compute"], ran["graph_copy"])
        /\ Passed(program'["graph_copy"], ran["graph_copy"], ran["graph_compute"])
        /\ Loaded(program'["graph_copy"], ran["graph_copy"], Started("graph_copy"), buffer,
                  FirstLayers)
  BY <1>1, <1>3 DEF DeviceInv
<1>9. Started("copy")' = Started("copy") /\ Started("graph_copy")' = Started("graph_copy")
  BY <1>1, <1>2
<1> QED BY <1>4, <1>5, <1>6, <1>7, <1>8, <1>9 DEF DeviceInv

LEMMA HostAppends ==
  ASSUME Shape, Host, ~BeginCapture
  PROVE  /\ UNCHANGED <<count, ran, active, buffer>> /\ (capturing' => capturing)
         /\ \/ UNCHANGED program
            \/ \E s \in Streams : \E new \in Seq(Ops) :
                 Enqueue(On(s, new)) /\ (capturing => s \notin {"compute", "copy"})
<1>1. /\ Current \in Streams /\ CopyStream \in Streams /\ Walk
      /\ capturing => Current \notin {"compute", "copy"} /\ CopyStream \notin {"compute", "copy"}
  BY HostOps DEF Current, CopyStream, Shape
<1>2. CASE BeginEager \/ EndCapture
  BY <1>1, <1>2 DEF BeginEager, EndCapture, gpu
<1>3. CASE Replay
  <2> DEFINE new == BeforeReplay \o <<Replayed>>
  <2>1. Enqueue(On("compute", new)) /\ ~capturing /\ UNCHANGED <<count, ran, active, buffer>>
        /\ UNCHANGED capturing
    BY <1>1, <1>3 DEF Replay, Starts, Walk
  <2>2. new \in Seq(Ops) /\ "compute" \in Streams
    BY HostOps DEF Streams
  <2> HIDE DEF new
  <2> QED BY <2>1, <2>2
<1>4. CASE WaitForLayer
  <2> DEFINE new == WaitFor(layer)
  <2>1. Enqueue(On(Current, new)) /\ UNCHANGED <<count, ran, active, buffer, capturing>>
    BY <1>4 DEF WaitForLayer
  <2>2. new \in Seq(Ops)
    BY <1>1, <1>4, HostOps DEF WaitForLayer, Walk
  <2> HIDE DEF new
  <2> QED BY <1>1, <2>1, <2>2
<1>5. CASE ForwardLayer
  <2> DEFINE new == <<Read(layer)>>
  <2>1. Enqueue(On(Current, new)) /\ UNCHANGED <<count, ran, active, buffer, capturing>>
    BY <1>5 DEF ForwardLayer
  <2>2. new \in Seq(Ops)
    BY <1>1, <1>5, HostOps DEF ForwardLayer, Walk
  <2> HIDE DEF new
  <2> QED BY <1>1, <2>1, <2>2
<1>6. CASE StartPrefetch
  <2> DEFINE new == <<Await(Current, ForkPoint, Capture), Copy(NextIndex)>>
  <2>1. Enqueue(On(CopyStream, new)) /\ UNCHANGED <<count, ran, active, buffer, capturing>>
    BY <1>6 DEF StartPrefetch
  <2>2. new \in Seq(Ops)
    BY <1>1, <1>6, HostOps DEF StartPrefetch, Walk
  <2> HIDE DEF new
  <2> QED BY <1>1, <2>1, <2>2
<1>7. CASE JoinLayer
  <2> DEFINE new == <<Await("graph_copy", done[layer].at, done[layer].of)>>
  <2>1. Enqueue(On(Current, new)) \/ UNCHANGED program
    BY <1>7 DEF JoinLayer
  <2>2. UNCHANGED <<count, ran, active, buffer, capturing>>
    BY <1>7 DEF JoinLayer
  <2>3. new \in Seq(Ops)
    BY <1>7, HostOps DEF JoinLayer
  <2> HIDE DEF new
  <2> QED BY <1>1, <2>1, <2>2, <2>3
<1> QED BY <1>2, <1>3, <1>4, <1>5, <1>6, <1>7 DEF Host

LEMMA DeviceHost == Shape /\ DeviceInv /\ Host => DeviceInv'
<1> SUFFICES ASSUME Shape, DeviceInv, Host PROVE DeviceInv'
  OBVIOUS
<1>1. TypeOK /\ Running /\ program \in [Streams -> Seq(Ops)]
      /\ ran \in [Streams -> Nat] /\ \A s \in Streams : End(s) \in Nat
  BY DEF Shape, TypeOK, End
<1>2. CASE BeginCapture
  <2>1. /\ ran["compute"] = End("compute") /\ ran["copy"] = End("copy")
        /\ UNCHANGED <<active, buffer>>
        /\ program' = [program EXCEPT !["graph_compute"] = <<>>, !["graph_copy"] = <<>>]
        /\ ran' = [ran EXCEPT !["graph_compute"] = 0, !["graph_copy"] = 0]
    BY <1>2 DEF BeginCapture
  <2>2. ~active["compute"] /\ ran["copy"] \in Nat
    <3>1. "compute" \in Streams /\ "copy" \in Streams
      BY DEF Streams
    <3>2. ran["compute"] \in Nat /\ ~(ran["compute"] < End("compute"))
      BY <1>1, <2>1, <3>1
    <3> QED BY <1>1, <3>1, <3>2 DEF Running
  <2>3. ~Replaying /\ ~Replaying'
    BY <2>1, <2>2 DEF Replaying
  <2>4. /\ program'["compute"] = program["compute"] /\ program'["copy"] = program["copy"]
        /\ ran'["compute"] = ran["compute"] /\ ran'["copy"] = ran["copy"]
    BY <1>1, <2>1 DEF Streams
  <2>5. Started("copy")' = Started("copy")
        /\ End("compute")' = End("compute") /\ End("copy")' = End("copy")
    BY <2>1, <2>4 DEF Started, End
  <2> QED BY <2>1, <2>3, <2>4, <2>5 DEF DeviceInv
<1>3. CASE ~BeginCapture
  <2>1. UNCHANGED <<count, ran, active, buffer>> /\ (capturing' => capturing)
    BY <1>3, HostAppends
  <2>2. ASSUME NEW s \in Streams, NEW new \in Seq(Ops), Enqueue(On(s, new)),
               capturing => s \notin {"compute", "copy"}
        PROVE  DeviceInv'
    <3>1. /\ program' \in [Streams -> Seq(Ops)]
          /\ \A t \in Streams : t # s => program'[t] = program[t]
          /\ Len(program'[s]) = End(s) + Len(new)
          /\ \A k \in 1 .. End(s) : program'[s][k] = program[s][k]
      BY <1>1, <2>2, EnqueueOn
    <3>2. ASSUME NEW t \in Streams
          PROVE  /\ Len(program'[t]) >= Len(program[t])
                 /\ \A k \in 1 .. Len(program[t]) : program'[t][k] = program[t][k]
      <4>1. Len(new) \in Nat /\ End(s) = Len(program[s]) /\ End(s) \in Nat
            /\ Len(program[t]) \in Nat
        BY <1>1 DEF End
      <4>2. CASE t = s
        BY <3>1, <4>1, <4>2
      <4>3. CASE t # s
        BY <3>1, <4>1, <4>3
      <4> QED BY <4>2, <4>3
    <3>3. Replaying' <=> Replaying
      BY <1>1, <2>1, <2>2, EnqueueKeepsShape
    <3>4. capturing' => /\ capturing
                        /\ program'["compute"] = program["compute"]
                        /\ program'["copy"] = program["copy"]
      BY <2>1, <2>2, <3>1 DEF Streams
    <3> QED BY <2>1, <3>1, <3>2, <3>3, <3>4, DeviceKept
  <2>3. CASE UNCHANGED program
    <3>1. Replaying' <=> Replaying
      BY <2>1, <2>3 DEF Replaying, Op
    <3>2. \A t \in Streams : /\ Len(program'[t]) >= Len(program[t])
                             /\ \A k \in 1 .. Len(program[t]) : program'[t][k] = program[t][k]
      BY <1>1, <2>3 DEF End
    <3> QED BY <1>1, <2>1, <2>3, <3>1, <3>2, DeviceKept
  <2> QED BY <1>3, <2>2, <2>3, HostAppends
<1> QED BY <1>2, <1>3

(* The streams of a pair, for the lemmas about sequences.                  *)
LEMMA PairFacts ==
  ASSUME Shape, HostInv
  PROVE  /\ \A s \in Streams : /\ program[s] \in Seq(Ops)
                               /\ ran[s] \in Nat /\ ran[s] \in 0 .. Len(program[s])
                               /\ End(s) = Len(program[s])
                               /\ Started(s) \in {ran[s], ran[s] + 1}
                               /\ ran[s] < End(s) => ran[s] + 1 <= Len(program[s])
         /\ ReadForm(program["compute"], "copy") /\ CopyForm(program["copy"], "compute", End("compute"))
         /\ ReadForm(program["graph_compute"], "graph_copy")
         /\ CopyForm(program["graph_copy"], "graph_compute", End("graph_compute"))
         /\ Sound(program["compute"], program["copy"], "compute", "copy", FirstLayers, {})
         /\ Sound(program["graph_compute"], program["graph_copy"], "graph_compute",
                  "graph_copy", FirstLayers, FirstLayers)
<1>1. /\ program \in [Streams -> Seq(Ops)] /\ ran \in [Streams -> Nat]
      /\ \A s \in Streams : ran[s] <= End(s)
  BY DEF Shape, TypeOK
<1>2. ASSUME NEW s \in Streams
      PROVE  /\ program[s] \in Seq(Ops)
             /\ ran[s] \in Nat /\ ran[s] \in 0 .. Len(program[s])
             /\ End(s) = Len(program[s]) /\ Started(s) \in {ran[s], ran[s] + 1}
             /\ ran[s] < End(s) => ran[s] + 1 <= Len(program[s])
  <2>1. program[s] \in Seq(Ops) /\ ran[s] \in Nat /\ ran[s] <= End(s)
        /\ End(s) = Len(program[s])
    BY <1>1 DEF End
  <2>2. Len(program[s]) \in Nat
    BY <2>1
  <2> QED BY <2>1, <2>2 DEF Started
<1> QED BY <1>2 DEF HostInv, SoundPrograms, Sound, End

(* What a stream is about to execute is of the kind the stream is for.     *)
LEMMA OpOfKind ==
  ASSUME Shape, HostInv, NEW s \in Streams, NEW name, Ready(s, name)
  PROVE  /\ s \in {"compute", "graph_compute"} => name \in {"await", "read", "replay"}
         /\ s \in {"copy", "graph_copy"} => name \in {"await", "copy"}
         /\ name = "await" =>
              Op(s).on = CASE s = "compute" -> "copy" [] s = "copy" -> "compute"
                           [] s = "graph_compute" -> "graph_copy"
                           [] s = "graph_copy" -> "graph_compute"
<1>1. /\ ran[s] + 1 \in 1 .. Len(program[s]) /\ Op(s) = program[s][ran[s] + 1]
      /\ Op(s).op = name
  <2>1. program[s] \in Seq(Ops) /\ ran[s] \in Nat /\ End(s) = Len(program[s])
        /\ ran[s] < End(s) /\ ran[s] + 1 <= Len(program[s])
    BY PairFacts DEF Ready
  <2> QED BY <2>1 DEF Ready, Op
<1>2. CASE s = "compute"
  <2>1. ReadForm(program["compute"], "copy")
    BY PairFacts
  <2> QED BY <1>1, <1>2, <2>1 DEF ReadForm
<1>3. CASE s = "graph_compute"
  <2>1. ReadForm(program["graph_compute"], "graph_copy")
    BY PairFacts
  <2> QED BY <1>1, <1>3, <2>1 DEF ReadForm
<1>4. CASE s = "copy"
  <2>1. CopyForm(program["copy"], "compute", End("compute"))
    BY PairFacts
  <2> QED BY <1>1, <1>4, <2>1 DEF CopyForm
<1>5. CASE s = "graph_copy"
  <2>1. CopyForm(program["graph_copy"], "graph_compute", End("graph_compute"))
    BY PairFacts
  <2> QED BY <1>1, <1>5, <2>1 DEF CopyForm
<1> QED BY <1>2, <1>3, <1>4, <1>5 DEF Streams

(* A replay starts with every slot filled, and until it ends, which the    *)
(* wait of every later copy is for, no slot changes but by its own copies. *)
LEMMA ReplayOwnsTheSlots ==
  ASSUME Shape, HostInv, DeviceInv,
         ran["compute"] < End("compute"), Op("compute") = Replayed, NEW l \in FirstLayers
  PROVE  \E c \in 1 .. ran["copy"] :
           /\ program["copy"][c].op = "copy" /\ program["copy"][c].layer = l
           /\ \A d \in c + 1 .. ran["copy"] + 1 : ~Into(program["copy"], d, Slot(l))
<1>1. PICK p \in Seq(Ops), q \in Seq(Ops), n \in Nat, m \in Nat :
        /\ m \in 0 .. Len(q)
        /\ p = program["compute"] /\ q = program["copy"]
        /\ n = ran["compute"] /\ m = ran["copy"]
  BY PairFacts DEF Streams
<1>2. n + 1 <= Len(p) /\ p[n + 1] = Replayed
  BY <1>1, PairFacts DEF Streams, Op
<1>3. Passed(p, n, m) /\ Passed(q, m, n)
  BY <1>1 DEF DeviceInv
<1>4. l \in Uses(p[n + 1], FirstLayers)
  BY <1>2 DEF Uses, Replayed
<1>5. Sound(p, q, "compute", "copy", FirstLayers, {})
  BY <1>1, PairFacts
<1>6. \E c \in 1 .. m : /\ q[c].op = "copy" /\ q[c].layer = l
                        /\ \A d \in c + 1 .. m + 1 : ~Into(q, d, Slot(l))
  <2>1. PICK F, I : F = FirstLayers /\ I = {}
    OBVIOUS
  <2>2. l \in Uses(p[n + 1], F) /\ Sound(p, q, "compute", "copy", F, I)
    BY <1>4, <1>5, <2>1
  <2>3. m \in 0 .. Len(q) /\ n + 1 <= Len(p)
    BY <1>1, <1>2
  <2>4. \/ l \in I /\ \A c \in 1 .. m + 1 : ~Into(q, c, Slot(l))
        \/ \E c \in 1 .. m : /\ q[c].op = "copy" /\ q[c].layer = l
                             /\ \A d \in c + 1 .. m + 1 : ~Into(q, d, Slot(l))
    BY <1>3, <2>2, <2>3, UseIsOrdered
  <2> QED BY <2>1, <2>4
<1> QED BY <1>1, <1>6

LEMMA NoCopyInAReplay ==
  ASSUME Shape, Rotates, HostInv, DeviceInv, Replaying
  PROVE  ~Ready("copy", "copy")
<1> SUFFICES ASSUME Ready("copy", "copy") PROVE FALSE
  OBVIOUS
<1>1. "copy" \in Streams /\ "compute" \in Streams
      /\ program \in [Streams -> Seq(Ops)] /\ ran \in [Streams -> Nat]
  BY DEF Streams, Shape, TypeOK
<1>2. ran["compute"] < End("compute") /\ Op("compute") = Replayed
  BY <1>1 DEF Shape, Running, Replaying
<1>3. ran["copy"] + 1 \in 1 .. End("copy") /\ Op("copy").op = "copy" /\ Op("copy").layer \in Layers
  BY <1>1, ReadyOp
<1>4. PICK f \in FirstLayers : Slot(f) = Slot(Op("copy").layer)
  BY <1>3, RingFact DEF Shape
<1>5. Into(program["copy"], ran["copy"] + 1, Slot(f))
  BY <1>3, <1>4 DEF Into, Op, End
<1>6. PICK c \in 1 .. ran["copy"] :
        \A d \in c + 1 .. ran["copy"] + 1 : ~Into(program["copy"], d, Slot(f))
  BY <1>2, ReplayOwnsTheSlots
<1>7. ran["copy"] + 1 \in c + 1 .. ran["copy"] + 1
  BY <1>1
<1> QED BY <1>5, <1>6, <1>7

LEMMA PassedOn ==
  ASSUME NEW p \in Seq(Ops), NEW n \in 0 .. Len(p), NEW m \in Nat, Passed(p, n, m)
  PROVE  /\ Passed(p, n, m + 1)
         /\ (p[n + 1].op = "await" => m >= p[n + 1].n) => Passed(p, n + 1, m)
<1>1. ASSUME NEW j \in 1 .. n, p[j].op = "await" PROVE m >= p[j].n /\ m + 1 >= p[j].n
  <2>1. p[j] \in Ops /\ m >= p[j].n
    BY <1>1 DEF Passed
  <2>2. p[j].n \in Nat
    BY <1>1, <2>1, OpTypes
  <2> QED BY <2>1, <2>2
<1>2. \A j \in 1 .. n + 1 : j \in 1 .. n \/ j = n + 1
  OBVIOUS
<1> QED BY <1>1, <1>2 DEF Passed

(* An operation that finishes leaves the waits of its pair behind passed.  *)
LEMMA PassedAfterFinish ==
  ASSUME Shape, HostInv, NEW a \in Streams, NEW b \in Streams, <<a, b>> \in Pairs,
         Passed(program[a], ran[a], ran[b]), Passed(program[b], ran[b], ran[a]),
         NEW s \in {a, b}, NEW name, Ready(s, name),
         name = "await" => ran[Op(s).on] >= Op(s).n,
         ran' = [ran EXCEPT ![s] = @ + 1]
  PROVE  /\ Passed(program[a], ran'[a], ran'[b])
         /\ Passed(program[b], ran'[b], ran'[a])
<1>1. ran \in [Streams -> Nat] /\ a # b
  BY DEF Shape, TypeOK, Pairs
<1>2. PICK p \in Seq(Ops), q \in Seq(Ops), n \in Nat, m \in Nat :
        /\ n \in 0 .. Len(p) /\ m \in 0 .. Len(q)
        /\ p = program[a] /\ q = program[b] /\ n = ran[a] /\ m = ran[b]
  BY PairFacts
<1>3. name = "await" => Op(s).on = IF s = a THEN b ELSE a
  BY OpOfKind DEF Pairs
<1>4. CASE s = a
  <2>1. ran'[a] = n + 1 /\ ran'[b] = m
    BY <1>1, <1>2, <1>4
  <2>2. p[n + 1].op = "await" => m >= p[n + 1].n
    <3>1. Op(a) = p[n + 1] /\ Op(a).op = name
      BY <1>2, <1>4 DEF Op, Ready
    <3> QED BY <1>2, <1>3, <1>4, <3>1
  <2>3. Passed(p, n + 1, m) /\ Passed(q, m, n + 1)
    BY <1>2, <2>2, PassedOn
  <2> QED BY <1>2, <2>1, <2>3
<1>5. CASE s = b
  <2>1. ran'[a] = n /\ ran'[b] = m + 1
    BY <1>1, <1>2, <1>5
  <2>2. q[m + 1].op = "await" => n >= q[m + 1].n
    <3>1. Op(b) = q[m + 1] /\ Op(b).op = name
      BY <1>2, <1>5 DEF Op, Ready
    <3> QED BY <1>1, <1>2, <1>3, <1>5, <3>1
  <2>3. Passed(p, n, m + 1) /\ Passed(q, m + 1, n)
    BY <1>2, <2>2, PassedOn
  <2> QED BY <1>2, <2>1, <2>3
<1> QED BY <1>4, <1>5

LEMMA AfterFinish ==
  ASSUME Shape, HostInv, DeviceInv, NEW s \in Streams, NEW name, Ready(s, name),
         Finish(s), name = "await" => ran[Op(s).on] >= Op(s).n,
         UNCHANGED <<count, program, host>>,
         s = "copy" /\ ~Replaying =>
           Loaded(program["copy"], ran["copy"] + 1, ran["copy"] + 1, buffer', {}),
         s = "graph_copy" =>
           Loaded(program["graph_copy"], ran["graph_copy"] + 1, ran["graph_copy"] + 1,
                  buffer', FirstLayers),
         s \in {"compute", "graph_compute"} \/ (s = "copy" /\ Replaying) => buffer' = buffer
  PROVE  DeviceInv'
<1>1. /\ ran \in [Streams -> Nat] /\ active \in [Streams -> BOOLEAN]
      /\ ran' = [ran EXCEPT ![s] = @ + 1] /\ active' = [active EXCEPT ![s] = FALSE]
      /\ Streams = {"compute", "copy", "graph_compute", "graph_copy"}
      /\ ran[s] < End(s) /\ s \in Executing
  BY DEF Shape, TypeOK, Finish, Ready, Streams
<1>2. FirstLayers' = FirstLayers /\ capturing' = capturing /\ \A t : End(t)' = End(t)
  BY DEF FirstLayers, Layers, host, End
<1>3. Replaying' <=> Replaying
  <2>1. CASE s = "compute"
    BY <1>1, <2>1 DEF Executing, Replaying
  <2>2. CASE s # "compute"
    <3>1. active'["compute"] = active["compute"] /\ ran'["compute"] = ran["compute"]
      BY <1>1, <2>2
    <3> QED BY <3>1 DEF Replaying, Op
  <2> QED BY <2>1, <2>2
<1>4. capturing => ran'["compute"] = End("compute") /\ ran'["copy"] = End("copy")
  <2> SUFFICES ASSUME capturing
               PROVE  ran'["compute"] = End("compute") /\ ran'["copy"] = End("copy")
    OBVIOUS
  <2>1. ran["compute"] = End("compute") /\ ran["copy"] = End("copy")
    BY DEF DeviceInv
  <2>2. ran["compute"] \in Nat /\ ran["copy"] \in Nat
    BY <1>1
  <2>3. s \notin {"compute", "copy"}
    BY <1>1, <2>1, <2>2
  <2> QED BY <1>1, <2>1, <2>3
<1>5. /\ Passed(program["compute"], ran'["compute"], ran'["copy"])
      /\ Passed(program["copy"], ran'["copy"], ran'["compute"])
  <2>1. /\ Passed(program["compute"], ran["compute"], ran["copy"])
        /\ Passed(program["copy"], ran["copy"], ran["compute"])
    BY DEF DeviceInv
  <2>2. CASE s \in {"compute", "copy"}
    <3>1. <<"compute", "copy">> \in Pairs
      BY DEF Pairs
    <3> QED BY <1>1, <2>1, <2>2, <3>1, PassedAfterFinish
  <2>3. CASE s \notin {"compute", "copy"}
    BY <1>1, <2>1, <2>3
  <2> QED BY <2>2, <2>3
<1>6. Replaying =>
        /\ Passed(program["graph_compute"], ran'["graph_compute"], ran'["graph_copy"])
        /\ Passed(program["graph_copy"], ran'["graph_copy"], ran'["graph_compute"])
  <2> SUFFICES ASSUME Replaying
        PROVE /\ Passed(program["graph_compute"], ran'["graph_compute"], ran'["graph_copy"])
              /\ Passed(program["graph_copy"], ran'["graph_copy"], ran'["graph_compute"])
    OBVIOUS
  <2>1. /\ Passed(program["graph_compute"], ran["graph_compute"], ran["graph_copy"])
        /\ Passed(program["graph_copy"], ran["graph_copy"], ran["graph_compute"])
    BY DEF DeviceInv
  <2>2. CASE s \in {"graph_compute", "graph_copy"}
    <3>1. <<"graph_compute", "graph_copy">> \in Pairs
      BY DEF Pairs
    <3> QED BY <1>1, <2>1, <2>2, <3>1, PassedAfterFinish
  <2>3. CASE s \notin {"graph_compute", "graph_copy"}
    BY <1>1, <2>1, <2>3
  <2> QED BY <2>2, <2>3
<1>7. \A t \in Streams : /\ t # s => ran'[t] = ran[t] /\ Started(t)' = Started(t)
                         /\ t = s => ran'[t] = ran[t] + 1 /\ Started(t)' = ran[t] + 1
  BY <1>1 DEF Started
<1>8. ~Replaying => Loaded(program["copy"], ran'["copy"], Started("copy")', buffer', {})
  <2> SUFFICES ASSUME ~Replaying
               PROVE  Loaded(program["copy"], ran'["copy"], Started("copy")', buffer', {})
    OBVIOUS
  <2>1. s \in {"compute", "copy"}
    BY <1>1 DEF Executing
  <2>2. CASE s = "copy"
    BY <1>1, <1>7, <2>2
  <2>3. CASE s = "compute"
    BY <1>1, <1>7, <2>3 DEF DeviceInv
  <2> QED BY <2>1, <2>2, <2>3
<1>9. Replaying => Loaded(program["graph_copy"], ran'["graph_copy"], Started("graph_copy")',
                          buffer', FirstLayers)
  <2> SUFFICES ASSUME Replaying
               PROVE  Loaded(program["graph_copy"], ran'["graph_copy"], Started("graph_copy")',
                             buffer', FirstLayers)
    OBVIOUS
  <2>1. CASE s = "graph_copy"
    BY <1>1, <1>7, <2>1
  <2>2. CASE s # "graph_copy"
    <3>1. buffer' = buffer
      BY <1>1, <2>2 DEF Executing
    <3> QED BY <1>1, <1>7, <2>2, <3>1 DEF DeviceInv
  <2> QED BY <2>1, <2>2
<1> QED BY <1>2, <1>3, <1>4, <1>5, <1>6, <1>8, <1>9 DEF DeviceInv

LEMMA AfterBegin ==
  ASSUME Shape, HostInv, DeviceInv, NEW s \in Streams, NEW name \in {"read", "copy"},
         Ready(s, name), active' = [active EXCEPT ![s] = TRUE],
         UNCHANGED <<count, program, ran, host>>,
         s = "copy" =>
           Loaded(program["copy"], ran["copy"], ran["copy"] + 1, buffer', {}) /\ ~Replaying,
         s = "graph_copy" =>
           Loaded(program["graph_copy"], ran["graph_copy"], ran["graph_copy"] + 1,
                  buffer', FirstLayers),
         s \in {"compute", "graph_compute"} => buffer' = buffer
  PROVE  DeviceInv'
<1>1. /\ active \in [Streams -> BOOLEAN]
      /\ Streams = {"compute", "copy", "graph_compute", "graph_copy"} /\ s \in Executing
  BY DEF Shape, TypeOK, Ready, Streams
<1>2. FirstLayers' = FirstLayers /\ capturing' = capturing /\ \A t : End(t)' = End(t)
  BY DEF FirstLayers, Layers, host, End
<1>3. Replaying' <=> Replaying
  <2>1. Op("compute")' = Op("compute")
    BY DEF Op
  <2>2. CASE s = "compute"
    <3>1. Op("compute") # Replayed
      BY <2>2 DEF Ready, Replayed
    <3> QED BY <2>1, <3>1 DEF Replaying
  <2>3. CASE s # "compute"
    <3>1. active'["compute"] = active["compute"]
      BY <1>1, <2>3
    <3> QED BY <2>1, <3>1 DEF Replaying
  <2> QED BY <2>2, <2>3
<1>4. \A t \in Streams : /\ t # s => Started(t)' = Started(t)
                         /\ t = s => Started(t)' = ran[t] + 1
  BY <1>1 DEF Started
<1>5. ~Replaying => Loaded(program["copy"], ran["copy"], Started("copy")', buffer', {})
  <2> SUFFICES ASSUME ~Replaying
               PROVE  Loaded(program["copy"], ran["copy"], Started("copy")', buffer', {})
    OBVIOUS
  <2>1. s \in {"compute", "copy"}
    BY <1>1 DEF Executing
  <2>2. CASE s = "copy"
    BY <1>1, <1>4, <2>2
  <2>3. CASE s = "compute"
    BY <1>1, <1>4, <2>3 DEF DeviceInv
  <2> QED BY <2>1, <2>2, <2>3
<1>6. Replaying => Loaded(program["graph_copy"], ran["graph_copy"], Started("graph_copy")',
                          buffer', FirstLayers)
  <2> SUFFICES ASSUME Replaying
               PROVE  Loaded(program["graph_copy"], ran["graph_copy"], Started("graph_copy")',
                             buffer', FirstLayers)
    OBVIOUS
  <2>1. CASE s = "graph_copy"
    BY <1>1, <1>4, <2>1
  <2>2. CASE s # "graph_copy"
    <3>1. buffer' = buffer
      BY <1>1, <2>2 DEF Executing
    <3> QED BY <1>1, <1>4, <2>2, <3>1 DEF DeviceInv
  <2> QED BY <2>1, <2>2
<1> QED BY <1>2, <1>3, <1>5, <1>6 DEF DeviceInv

(* The buffer, while a copy and when it has finished.                      *)
LEMMA CopyFills ==
  ASSUME Shape, HostInv, NEW b \in {"copy", "graph_copy"}, Ready(b, "copy"),
         NEW I \in SUBSET Layers, Loaded(program[b], ran[b], Started(b), buffer, I)
  PROVE  /\ Loaded(program[b], ran[b], ran[b] + 1,
                   [buffer EXCEPT ![Slot(Op(b).layer)] = -1], I)
         /\ Loaded(program[b], ran[b] + 1, ran[b] + 1,
                   [buffer EXCEPT ![Slot(Op(b).layer)] = Op(b).layer], I)
<1>1. b \in Streams /\ count \in Counts
      /\ DOMAIN buffer = 0 .. PrefetchStep - 1
  BY DEF Streams, Shape, TypeOK
<1>2. PICK q \in Seq(Ops), m \in Nat, st \in {Started(b)}, S \in {0 .. PrefetchStep - 1} :
        /\ q = program[b] /\ m = ran[b] /\ st = Started(b) /\ S = 0 .. PrefetchStep - 1
        /\ st \in {m, m + 1} /\ m + 1 <= Len(q)
  BY <1>1, PairFacts DEF Ready
<1>3. Op(b) = q[m + 1] /\ q[m + 1].op = "copy"
  BY <1>2 DEF Op, Ready
<1>4. \A l \in I : Slot(l) \in S
  BY <1>1, <1>2, SlotFact
<1>5. \A c \in 1 .. m + 1 : q[c].op = "copy" => Slot(q[c].layer) \in S
  <2> SUFFICES ASSUME NEW c \in 1 .. m + 1, q[c].op = "copy" PROVE Slot(q[c].layer) \in S
    OBVIOUS
  <2>1. Len(q) \in Nat /\ c \in 1 .. Len(q)
    BY <1>2
  <2>2. q[c] \in Ops
    BY <2>1
  <2>3. q[c].layer \in Layers
    BY <2>2, OpTypes
  <2> QED BY <1>1, <1>2, <2>3, SlotFact
<1>6. Loaded(q, m, st, buffer, I) /\ DOMAIN buffer = S /\ Len(q) \in Nat
  BY <1>1, <1>2
<1>7. /\ \A x : Loaded(q, m, m + 1, [buffer EXCEPT ![Slot(q[m + 1].layer)] = x], I)
      /\ Loaded(q, m + 1, m + 1,
                [buffer EXCEPT ![Slot(q[m + 1].layer)] = q[m + 1].layer], I)
  BY <1>2, <1>3, <1>4, <1>5, <1>6, LoadedWhileCopying
<1> QED BY <1>2, <1>3, <1>7

LEMMA DeviceWaits ==
  ASSUME Shape, HostInv, DeviceInv, NEW s \in Streams, PassAwait(s)
  PROVE  DeviceInv'
<1>1. /\ Ready(s, "await") /\ ran[Op(s).on] >= Op(s).n /\ Finish(s)
      /\ UNCHANGED <<count, program, buffer, host>>
  BY DEF PassAwait
<1>2. ASSUME NEW b \in {"copy", "graph_copy"}, s = b, NEW I,
             Loaded(program[b], ran[b], Started(b), buffer, I)
      PROVE  Loaded(program[b], ran[b] + 1, ran[b] + 1, buffer, I)
  <2>1. PICK q \in Seq(Ops), m \in Nat, st \in Nat :
          /\ q = program[b] /\ m = ran[b] /\ st = Started(b) /\ st \in {m, m + 1}
    <3>1. /\ program[b] \in Seq(Ops) /\ ran[b] \in Nat
          /\ Started(b) \in {ran[b], ran[b] + 1}
      BY <1>2, PairFacts
    <3>2. Started(b) \in Nat
      BY <3>1
    <3> QED BY <3>1, <3>2
  <2>2. q[m + 1].op = "await"
    BY <1>1, <1>2, <2>1 DEF Op, Ready
  <2>3. Loaded(q, m + 1, m + 1, buffer, I)
    BY <1>2, <2>1, <2>2, LoadedAfterAwait
  <2> QED BY <2>1, <2>3
<1>3. s = "copy" /\ ~Replaying =>
        Loaded(program["copy"], ran["copy"] + 1, ran["copy"] + 1, buffer, {})
  BY <1>2 DEF DeviceInv
<1>4. s = "graph_copy" =>
        Loaded(program["graph_copy"], ran["graph_copy"] + 1, ran["graph_copy"] + 1, buffer,
               FirstLayers)
  <2> SUFFICES ASSUME s = "graph_copy"
               PROVE  Loaded(program["graph_copy"], ran["graph_copy"] + 1,
                             ran["graph_copy"] + 1, buffer, FirstLayers)
    OBVIOUS
  <2>1. Replaying
    BY <1>1 DEF Ready, Executing
  <2> QED BY <1>2, <2>1 DEF DeviceInv
<1> QED BY <1>1, <1>3, <1>4, AfterFinish

LEMMA DeviceReads ==
  ASSUME Shape, HostInv, DeviceInv, NEW s \in Streams, BeginRead(s) \/ EndRead(s)
  PROVE  DeviceInv'
<1>1. Ready(s, "read")
  BY DEF BeginRead, EndRead
<1>2. s \in {"compute", "graph_compute"}
  BY <1>1, OpOfKind DEF Streams
<1>3. CASE BeginRead(s)
  BY <1>1, <1>2, <1>3, AfterBegin DEF BeginRead
<1>4. CASE EndRead(s)
  BY <1>1, <1>2, <1>4, AfterFinish DEF EndRead
<1> QED BY <1>3, <1>4

LEMMA DeviceCopies ==
  ASSUME Shape, Rotates, HostInv, DeviceInv, NEW s \in Streams, BeginCopy(s) \/ EndCopy(s)
  PROVE  DeviceInv'
<1>1. Ready(s, "copy")
  BY DEF BeginCopy, EndCopy
<1>2. s \in {"copy", "graph_copy"}
  BY <1>1, OpOfKind DEF Streams
<1>3. s = "copy" => ~Replaying
  BY <1>1, NoCopyInAReplay
<1>4. s = "graph_copy" => Replaying
  BY <1>1 DEF Ready, Executing
<1>5. FirstLayers \in SUBSET Layers /\ {} \in SUBSET Layers
  BY DEF FirstLayers
<1>6. s = "copy" =>
        /\ Loaded(program["copy"], ran["copy"], ran["copy"] + 1,
                  [buffer EXCEPT ![Slot(Op("copy").layer)] = -1], {})
        /\ Loaded(program["copy"], ran["copy"] + 1, ran["copy"] + 1,
                  [buffer EXCEPT ![Slot(Op("copy").layer)] = Op("copy").layer], {})
  BY <1>1, <1>3, <1>5, CopyFills DEF DeviceInv
<1>7. s = "graph_copy" =>
        /\ Loaded(program["graph_copy"], ran["graph_copy"], ran["graph_copy"] + 1,
                  [buffer EXCEPT ![Slot(Op("graph_copy").layer)] = -1], FirstLayers)
        /\ Loaded(program["graph_copy"], ran["graph_copy"] + 1, ran["graph_copy"] + 1,
                  [buffer EXCEPT ![Slot(Op("graph_copy").layer)] = Op("graph_copy").layer],
                  FirstLayers)
  BY <1>1, <1>4, <1>5, CopyFills DEF DeviceInv
<1>8. CASE BeginCopy(s)
  <2>1. /\ active' = [active EXCEPT ![s] = TRUE]
        /\ buffer' = [buffer EXCEPT ![Slot(Op(s).layer)] = -1]
        /\ UNCHANGED <<count, program, ran, host>>
    BY <1>8 DEF BeginCopy
  <2> QED BY <1>1, <1>2, <1>3, <1>6, <1>7, <2>1, AfterBegin
<1>9. CASE EndCopy(s)
  <2>1. /\ buffer' = [buffer EXCEPT ![Slot(Op(s).layer)] = Op(s).layer]
        /\ Finish(s) /\ UNCHANGED <<count, program, host>>
    BY <1>9 DEF EndCopy
  <2> QED BY <1>1, <1>2, <1>3, <1>6, <1>7, <2>1, AfterFinish
<1> QED BY <1>8, <1>9

LEMMA DeviceStartsReplay ==
  ASSUME Shape, HostInv, DeviceInv, BeginReplay
  PROVE  DeviceInv'
<1>1. /\ ran \in [Streams -> Nat] /\ active \in [Streams -> BOOLEAN]
      /\ program \in [Streams -> Seq(Ops)]
      /\ Streams = {"compute", "copy", "graph_compute", "graph_copy"}
  BY DEF Shape, TypeOK, Streams
<1>2. /\ Ready("compute", "replay") /\ active' = [active EXCEPT !["compute"] = TRUE]
      /\ ran' = [ran EXCEPT !["graph_compute"] = 0, !["graph_copy"] = 0]
      /\ UNCHANGED <<count, program, buffer, host>>
  BY DEF BeginReplay
<1>3. ~Replaying /\ ran["compute"] < End("compute")
  BY <1>2 DEF Ready, Executing
<1>4. Op("compute") = Replayed
  <2>1. Op("compute") \in Ops /\ Op("compute").op = "replay"
    BY <1>1, <1>2, ReadyOp
  <2> QED BY <2>1, OpTypes DEF Ops
<1>5. ran'["compute"] = ran["compute"] /\ ran'["copy"] = ran["copy"]
      /\ ran'["graph_compute"] = 0 /\ ran'["graph_copy"] = 0
      /\ active'["compute"] /\ active'["graph_copy"] = active["graph_copy"]
  BY <1>1, <1>2
<1>6. Replaying'
  BY <1>2, <1>4, <1>5 DEF Replaying, Op
<1>7. ~active["graph_copy"]
  BY <1>3 DEF Shape, Running
<1>8. Started("graph_copy")' = 0
  BY <1>5, <1>7 DEF Started
<1>9. \A l \in FirstLayers : buffer[Slot(l)] = l
  <2> SUFFICES ASSUME NEW l \in FirstLayers PROVE buffer[Slot(l)] = l
    OBVIOUS
  <2>1. PICK c \in 1 .. ran["copy"] :
          /\ program["copy"][c].op = "copy" /\ program["copy"][c].layer = l
          /\ \A d \in c + 1 .. ran["copy"] + 1 : ~Into(program["copy"], d, Slot(l))
    BY <1>3, <1>4, ReplayOwnsTheSlots
  <2>2. Loaded(program["copy"], ran["copy"], Started("copy"), buffer, {})
    BY <1>3 DEF DeviceInv
  <2>3. Started("copy") \in {ran["copy"], ran["copy"] + 1} /\ ran["copy"] \in Nat
    BY <1>1, PairFacts
  <2>4. \A d \in c + 1 .. Started("copy") : d \in c + 1 .. ran["copy"] + 1
    BY <2>3
  <2> QED BY <2>1, <2>2, <2>4 DEF Loaded
<1>10. Loaded(program["graph_copy"], 0, 0, buffer, FirstLayers)
  BY <1>9 DEF Loaded
<1>11. \A p, n : Passed(p, 0, n)
  BY DEF Passed
<1>12. FirstLayers' = FirstLayers /\ capturing' = capturing /\ \A t : End(t)' = End(t)
  BY <1>2 DEF FirstLayers, Layers, host, End
<1> QED BY <1>2, <1>5, <1>6, <1>8, <1>10, <1>11, <1>12 DEF DeviceInv

LEMMA DeviceEndsReplay ==
  ASSUME Shape, Rotates, HostInv, DeviceInv, EndReplay
  PROVE  DeviceInv'
<1>1. /\ ran \in [Streams -> Nat] /\ active \in [Streams -> BOOLEAN] /\ count \in Counts
      /\ program \in [Streams -> Seq(Ops)]
      /\ Streams = {"compute", "copy", "graph_compute", "graph_copy"}
  BY DEF Shape, TypeOK, Streams
<1>2. /\ Replaying /\ ran["graph_copy"] = End("graph_copy")
      /\ ran' = [ran EXCEPT !["compute"] = @ + 1]
      /\ active' = [active EXCEPT !["compute"] = FALSE]
      /\ UNCHANGED <<count, program, buffer, host>>
  BY DEF EndReplay, Finish
<1>3. ran["compute"] < End("compute") /\ Op("compute") = Replayed
  BY <1>1, <1>2 DEF Shape, Running, Replaying
<1>4. ran'["compute"] = ran["compute"] + 1 /\ ran'["copy"] = ran["copy"]
      /\ ~active'["compute"] /\ active'["copy"] = active["copy"]
  BY <1>1, <1>2
<1>5. ~Replaying' /\ Started("copy")' = Started("copy")
  BY <1>4 DEF Replaying, Started
<1>6. ~capturing
  <2>1. ran["compute"] \in Nat
    BY <1>1
  <2> QED BY <1>3, <2>1 DEF DeviceInv
(* The graph leaves in every slot the layer it found there. *)
<1>7. \A f \in FirstLayers : buffer[Slot(f)] = f
  <2> SUFFICES ASSUME NEW f \in FirstLayers PROVE buffer[Slot(f)] = f
    OBVIOUS
  <2>1. PICK q \in Seq(Ops), m \in Nat :
          q = program["graph_copy"] /\ m = ran["graph_copy"] /\ m = Len(q)
    <3>1. program["graph_copy"] \in Seq(Ops) /\ ran["graph_copy"] \in Nat
      BY <1>1
    <3>2. ran["graph_copy"] = Len(program["graph_copy"])
      BY <1>2 DEF End
    <3> QED BY <3>1, <3>2
  <2>2. ~active["graph_copy"]
    <3>1. ~(m < m)
      BY <2>1
    <3>2. active["graph_copy"] => ran["graph_copy"] < End("graph_copy")
      BY <1>1 DEF Shape, Running
    <3> QED BY <1>2, <2>1, <3>1, <3>2
  <2>3. Loaded(q, m, m, buffer, FirstLayers)
    BY <1>2, <2>1, <2>2 DEF DeviceInv, Started
  <2>4. f \in Window(0)
    BY RingFact DEF Shape
  <2>5. Untouched(q, f) \/ \E c \in 1 .. m : Latest(q, f, c)
    BY <1>2, <1>6, <2>1, <2>4 DEF HostInv, GraphSlots
  <2>6. CASE Untouched(q, f)
    BY <2>1, <2>3, <2>6 DEF Untouched, Loaded
  <2>7. ASSUME NEW c \in 1 .. m, Latest(q, f, c) PROVE buffer[Slot(f)] = f
    BY <2>1, <2>3, <2>7 DEF Latest, Loaded
  <2> QED BY <2>5, <2>6, <2>7
(* That is what the finished copies of the other stream put there. *)
<1>8. Loaded(program["copy"], ran["copy"], Started("copy"), buffer, {})
  <2>1. PICK q \in Seq(Ops), m \in Nat, st \in {Started("copy")} :
          /\ q = program["copy"] /\ m = ran["copy"] /\ st = Started("copy")
          /\ st \in {m, m + 1} /\ m <= Len(q)
    <3>1. program["copy"] \in Seq(Ops) /\ ran["copy"] \in Nat
          /\ ran["copy"] \in 0 .. Len(program["copy"])
          /\ Started("copy") \in {ran["copy"], ran["copy"] + 1}
      BY <1>1, PairFacts
    <3>2. ran["copy"] <= Len(program["copy"])
      BY <3>1
    <3> QED BY <3>1, <3>2
  <2>2. ASSUME NEW c \in 1 .. m, q[c].op = "copy",
               \A d \in c + 1 .. st : ~Into(q, d, Slot(q[c].layer))
        PROVE  buffer[Slot(q[c].layer)] = q[c].layer
    <3>1. c \in 1 .. Len(q) /\ Len(q) \in Nat
      BY <2>1
    <3>2. q[c] \in Ops
      BY <3>1
    <3>3. q[c].layer \in Layers
      BY <2>2, <3>2, OpTypes
    <3>4. PICK f \in FirstLayers : Slot(f) = Slot(q[c].layer)
      BY <3>3, RingFact DEF Shape
    <3>5. PICK e \in 1 .. m :
            /\ q[e].op = "copy" /\ q[e].layer = f
            /\ \A d \in e + 1 .. m + 1 : ~Into(q, d, Slot(f))
      BY <1>3, <2>1, ReplayOwnsTheSlots
    <3>6. Into(q, c, Slot(f)) /\ Into(q, e, Slot(f))
      <4>1. e \in 1 .. Len(q)
        BY <2>1, <3>1
      <4> QED BY <2>2, <3>1, <3>4, <3>5, <4>1 DEF Into
    <3>7. ~(c \in e + 1 .. m + 1) /\ ~(e \in c + 1 .. st)
      BY <2>2, <3>4, <3>5, <3>6
    <3>8. c = e
      BY <2>1, <3>7
    <3> QED BY <1>7, <3>4, <3>5, <3>8
  <2>3. Loaded(q, m, st, buffer, {})
    BY <2>2 DEF Loaded
  <2> QED BY <2>1, <2>3
<1>9. /\ Passed(program["compute"], ran["compute"] + 1, ran["copy"])
      /\ Passed(program["copy"], ran["copy"], ran["compute"] + 1)
  <2>1. PICK p \in Seq(Ops), q \in Seq(Ops), n \in Nat, m \in Nat :
          /\ n \in 0 .. Len(p) /\ m \in 0 .. Len(q)
          /\ p = program["compute"] /\ q = program["copy"]
          /\ n = ran["compute"] /\ m = ran["copy"]
    BY <1>1, PairFacts
  <2>2. Passed(p, n, m) /\ Passed(q, m, n)
    BY <2>1 DEF DeviceInv
  <2>3. p[n + 1].op # "await"
    BY <1>3, <2>1 DEF Op, Replayed
  <2>4. Passed(p, n + 1, m) /\ Passed(q, m, n + 1)
    BY <2>1, <2>2, <2>3, PassedOn
  <2> QED BY <2>1, <2>4
<1>10. capturing' = capturing
  BY <1>2 DEF host
<1> QED BY <1>2, <1>4, <1>5, <1>6, <1>8, <1>9, <1>10 DEF DeviceInv

LEMMA DeviceStep == Shape /\ Rotates /\ HostInv /\ DeviceInv /\ [Next]_vars => DeviceInv'
<1> SUFFICES ASSUME Shape, Rotates, HostInv, DeviceInv, [Next]_vars PROVE DeviceInv'
  OBVIOUS
<1>1. CASE Host
  BY <1>1, DeviceHost
<1>2. CASE Device
  BY <1>2, DeviceWaits, DeviceReads, DeviceCopies, DeviceStartsReplay, DeviceEndsReplay
  DEF Device
<1>3. CASE UNCHANGED vars
  <2>1. UNCHANGED <<count, program, ran, active, buffer, capturing>>
    BY <1>3 DEF vars, gpu, host
  <2> QED BY <2>1 DEF DeviceInv, Replaying, Started, Op, End, FirstLayers, Layers
<1> QED BY <1>1, <1>2, <1>3 DEF Next

(* The number of offloaded layers never changes.                           *)
LEMMA CountStays == [Next]_vars => count' = count
<1> SUFFICES ASSUME [Next]_vars PROVE count' = count
  OBVIOUS
<1>1. CASE Host
  BY <1>1 DEF Host, BeginEager, BeginCapture, Replay, WaitForLayer, ForwardLayer,
     StartPrefetch, JoinLayer, EndCapture
<1>2. CASE Device
  BY <1>2 DEF Device, PassAwait, BeginRead, EndRead, BeginCopy, EndCopy, BeginReplay,
     EndReplay
<1> QED BY <1>1, <1>2 DEF Next, vars

(* Where the slots rotate a layer reads its own weights, all of them.      *)
(* What is known of a read that is under way: the last copy into its slot  *)
(* that started is its own layer's, and it has finished.                   *)
THEOREM LayersReadTheirOwnWeights == Spec => [](Rotates => ReadsOwnWeights)
<1>1. Shape /\ HostInv /\ DeviceInv => ReadsOwnWeights
  <2> SUFFICES ASSUME Shape, HostInv, DeviceInv, NEW s \in {"compute", "graph_compute"},
                      active[s], Op(s).op = "read"
               PROVE  buffer[Slot(Op(s).layer)] = Op(s).layer
    BY DEF ReadsOwnWeights
  <2>1. s \in Streams /\ ran[s] < End(s)
    BY DEF Shape, Running, Streams
  <2>2. ASSUME NEW b \in Streams, NEW I,
               Sound(program[s], program[b], s, b, FirstLayers, I),
               Passed(program[s], ran[s], ran[b]), Passed(program[b], ran[b], ran[s]),
               Loaded(program[b], ran[b], Started(b), buffer, I)
        PROVE  buffer[Slot(Op(s).layer)] = Op(s).layer
    <3>1. PICK p \in Seq(Ops), q \in Seq(Ops), n \in Nat, m \in Nat,
              st \in {Started(b)}, l \in {Op(s).layer} :
            /\ p = program[s] /\ q = program[b] /\ n = ran[s] /\ m = ran[b]
            /\ st = Started(b) /\ l = Op(s).layer
            /\ m \in 0 .. Len(q) /\ n + 1 <= Len(p) /\ st \in {m, m + 1}
      BY <2>1, <2>2, PairFacts
    <3>2. l \in Uses(p[n + 1], FirstLayers)
      BY <3>1 DEF Op, Uses
    <3>3. PICK F : F = FirstLayers
      OBVIOUS
    <3> QED BY SMTT(30), <2>2, <3>1, <3>2, <3>3, UseFindsItsWeights
  <2>3. CASE s = "compute"
    <3>1. ~Replaying
      BY <2>3 DEF Replaying, Replayed
    <3>2. "copy" \in Streams
      BY DEF Streams
    <3>3. Sound(program["compute"], program["copy"], "compute", "copy", FirstLayers, {})
      BY PairFacts
    <3> QED BY <2>2, <2>3, <3>1, <3>2, <3>3 DEF DeviceInv
  <2>4. CASE s = "graph_compute"
    <3>1. Replaying
      BY <2>4 DEF Shape, Running
    <3>2. "graph_copy" \in Streams
      BY DEF Streams
    <3>3. Sound(program["graph_compute"], program["graph_copy"], "graph_compute",
                "graph_copy", FirstLayers, FirstLayers)
      BY PairFacts
    <3> QED BY <2>2, <2>4, <3>1, <3>2, <3>3 DEF DeviceInv
  <2> QED BY <2>3, <2>4
<1> DEFINE Inv == Rotates => HostInv /\ DeviceInv
<1>2. Init => Inv
  BY InitHost, InitDevice
<1>3. Shape /\ Inv /\ [Next]_vars => Inv'
  <2> SUFFICES ASSUME Shape, Inv, [Next]_vars, Rotates' PROVE (HostInv /\ DeviceInv)'
    OBVIOUS
  <2>1. Rotates
    BY CountStays DEF Rotates
  <2> QED BY <2>1, HostStep, DeviceStep
<1>4. Shape /\ Inv => (Rotates => ReadsOwnWeights)
  BY <1>1
<1> QED BY InitShape, ShapeStep, <1>2, <1>3, <1>4, PTL DEF Spec
=============================================================================
