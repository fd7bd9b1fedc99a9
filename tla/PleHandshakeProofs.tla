------------------------- MODULE PleHandshakeProofs -------------------------
(***************************************************************************)
(* Proofs about the handshake of PLE CPU offload, for any number of        *)
(* groups, ranks and PLE layers, and any steps in which a warm-up run is   *)
(* followed by a capture: no matter how the threads, the worker and the    *)
(* streams interleave, and whoever gives up waiting, a forward copies what *)
(* was computed from its own inputs.                                       *)
(***************************************************************************)
EXTENDS PleHandshake, FiniteSetTheorems, SequenceTheorems, TLAPS

(* A dummy run is a warm-up: the capture that follows it synchronises the  *)
(* device.  The shipped configuration runs one batch at a time.            *)
PlansPaired ==
  \A p \in Plans : \A k \in 1 .. Len(p) :
    p[k] = "dummy" /\ k < Len(p) => p[k + 1] = "capture"

Setting == PlansPaired /\ MaxConcurrentBatches = 1

USE HandshakeAssumption

-----------------------------------------------------------------------------
(* Ranks and plans. *)

LEMMA RankFacts ==
  /\ \A r \in Ranks : /\ GroupOf(r) \in Groups /\ r[2] \in 0 .. TpSize - 1
                      /\ r = <<GroupOf(r), r[2]>> /\ r \in Targets(GroupOf(r))
                      /\ IsRankZero(r) <=> r = RankZero(GroupOf(r))
  /\ \A d \in Groups : /\ RankZero(d) \in Ranks /\ RankZero(d) \in Targets(d)
                       /\ GroupOf(RankZero(d)) = d /\ RankZero(d)[2] = 0
                       /\ IsRankZero(RankZero(d))
                       /\ \A r \in Targets(d) : r \in Ranks /\ GroupOf(r) = d
                       /\ \A t \in 0 .. TpSize - 1 :
                            /\ <<d, t>> \in Ranks /\ <<d, t>> \in Targets(d)
                            /\ GroupOf(<<d, t>>) = d /\ <<d, t>>[2] = t
  /\ Groups # {}
<1>1. \A r \in Ranks : r[1] \in Groups /\ r[2] \in 0 .. TpSize - 1 /\ r = <<r[1], r[2]>>
  BY DEF Ranks
<1>2. \A d \in Groups, t \in 0 .. TpSize - 1 : <<d, t>> \in Ranks
  BY DEF Ranks
<1>3. 0 \in 0 .. TpSize - 1 /\ 0 \in Groups
  BY DEF Groups
<1> QED BY <1>1, <1>2, <1>3 DEF GroupOf, Targets, IsRankZero, RankZero

LEMMA PlanFacts ==
  ASSUME plan \in [Groups -> Plans], NEW d \in Groups
  PROVE  /\ plan[d] \in Plans /\ plan[d] \in Seq(Kinds) /\ Len(plan[d]) \in Nat
         /\ DOMAIN plan[d] = 1 .. Len(plan[d])
         /\ \A k \in 1 .. Len(plan[d]) : plan[d][k] \in {"capture", "dummy", "real"}
<1>1. plan[d] \in Plans
  OBVIOUS
<1>2. plan[d] \in Seq(Kinds)
  BY <1>1
<1> QED BY <1>1, <1>2 DEF Kinds

-----------------------------------------------------------------------------
(* The operations of the streams, in the order of their execution.         *)

Is(name, k, l) == [op |-> name, step |-> k, layer |-> l]

ForwardOps(k) ==
  {x \in Ops : /\ x.step = k
               /\ \/ x.op \in {"wait", "copy", "reset", "consume"} /\ x.layer \in Layers
                  \/ x.op = "end" /\ x.layer = 0}

Pos(x) ==
  CASE x.op = "produce" -> 0
    [] x.op = "event"   -> 1
    [] x.op = "wait"    -> 4 * x.layer
    [] x.op = "copy"    -> 4 * x.layer + 1
    [] x.op = "reset"   -> 4 * x.layer + 2
    [] x.op = "consume" -> 4 * x.layer + 3
    [] x.op = "end"     -> 4 * NumLayers + 4

Earlier(x, y) == x.step < y.step \/ (x.step = y.step /\ Pos(x) < Pos(y))

Sorted(s) == \A i, j \in 1 .. Len(s) : i < j => Earlier(s[i], s[j])
Has(s, x) == \E i \in 1 .. Len(s) : s[i] = x

OpNames == {"produce", "event", "wait", "copy", "reset", "consume", "end"}

LEMMA OpIs ==
  ASSUME NEW x \in Ops
  PROVE  /\ x.step \in Nat /\ x.layer \in 0 .. NumLayers /\ x.layer \in Nat
         /\ x.op \in OpNames
         /\ x = Is(x.op, x.step, x.layer)
         /\ Pos(x) \in Nat
<1>1. x.step \in Nat /\ x.layer \in 0 .. NumLayers /\ x.layer \in Nat /\ x.op \in OpNames
  BY DEF Ops, Steps, OpNames
<1>2. x = Is(x.op, x.step, x.layer)
  BY DEF Ops, Is
<1>3. Pos(x) \in Nat
  <2>1. PICK l \in Nat : l = x.layer
    BY <1>1
  <2>2. 4 * l \in Nat /\ 4 * l + 1 \in Nat /\ 4 * l + 2 \in Nat /\ 4 * l + 3 \in Nat
        /\ 4 * NumLayers + 4 \in Nat
    OBVIOUS
  <2> QED BY <1>1, <2>1, <2>2 DEF Pos, OpNames
<1> QED BY <1>1, <1>2, <1>3

LEMMA IsOp ==
  ASSUME NEW name \in OpNames, NEW k \in Nat, NEW l \in 0 .. NumLayers
  PROVE  /\ Is(name, k, l) \in Ops
         /\ Is(name, k, l).op = name /\ Is(name, k, l).step = k /\ Is(name, k, l).layer = l
BY DEF Is, Ops, Steps, OpNames

LEMMA EarlierIsStrict ==
  /\ \A x \in Ops : ~Earlier(x, x)
  /\ \A x, y, z \in Ops : Earlier(x, y) /\ Earlier(y, z) => Earlier(x, z)
<1>1. \A x \in Ops : x.step \in Nat /\ Pos(x) \in Nat
  BY OpIs
<1> QED BY <1>1 DEF Earlier

(* What the execution of the first operation leaves.                       *)
LEMMA PopStream ==
  ASSUME NEW s \in Seq(Ops), s # <<>>, Sorted(s)
  PROVE  /\ Head(s) \in Ops /\ Tail(s) \in Seq(Ops) /\ Sorted(Tail(s))
         /\ Has(s, Head(s)) /\ ~Has(Tail(s), Head(s))
         /\ \A x : Has(Tail(s), x) <=> Has(s, x) /\ x # Head(s)
         /\ \A x : Has(Tail(s), x) => Earlier(Head(s), x)
<1>1. /\ Len(s) \in Nat \ {0} /\ Head(s) = s[1] /\ Head(s) \in Ops
      /\ Tail(s) \in Seq(Ops) /\ Len(Tail(s)) = Len(s) - 1
      /\ \A i \in 1 .. Len(s) - 1 : Tail(s)[i] = s[i + 1]
  OBVIOUS
<1>2. \A i \in 1 .. Len(s) - 1 : i + 1 \in 1 .. Len(s) /\ Earlier(s[1], s[i + 1])
  BY <1>1 DEF Sorted
<1>3. Sorted(Tail(s))
  BY <1>1 DEF Sorted
<1>4. \A x : Has(Tail(s), x) => Has(s, x) /\ Earlier(Head(s), x)
  BY <1>1, <1>2 DEF Has
<1>5. Has(s, Head(s))
  BY <1>1 DEF Has
<1>6. ~Has(Tail(s), Head(s))
  BY <1>1, <1>4, EarlierIsStrict
<1>7. ASSUME NEW x, Has(s, x), x # Head(s) PROVE Has(Tail(s), x)
  <2>1. PICK i \in 1 .. Len(s) : s[i] = x
    BY <1>7 DEF Has
  <2>2. i - 1 \in 1 .. Len(s) - 1
    BY <1>1, <1>7, <2>1
  <2>3. Tail(s)[i - 1] = s[i - 1 + 1] /\ i - 1 + 1 = i
    BY <1>1, <2>2
  <2> QED BY <1>1, <2>1, <2>2, <2>3 DEF Has
<1> QED BY <1>1, <1>3, <1>4, <1>5, <1>6, <1>7

(* What is enqueued behind it stays behind it.                             *)
LEMMA PushStream ==
  ASSUME NEW s \in Seq(Ops), NEW t \in Seq(Ops), Sorted(s), Sorted(t),
         \A x, y : Has(s, x) /\ Has(t, y) => Earlier(x, y)
  PROVE  /\ s \o t \in Seq(Ops) /\ Sorted(s \o t)
         /\ \A x : Has(s \o t, x) <=> Has(s, x) \/ Has(t, x)
<1>1. /\ s \o t \in Seq(Ops) /\ Len(s) \in Nat /\ Len(t) \in Nat
      /\ Len(s \o t) = Len(s) + Len(t)
      /\ \A i \in 1 .. Len(s) : (s \o t)[i] = s[i]
      /\ \A i \in 1 .. Len(t) : (s \o t)[Len(s) + i] = t[i]
  OBVIOUS
<1> DEFINE u == s \o t
<1>2. \A i \in 1 .. Len(u) : i \in 1 .. Len(s) \/ (i - Len(s) \in 1 .. Len(t)
                                                  /\ u[i] = t[i - Len(s)])
  <2> SUFFICES ASSUME NEW i \in 1 .. Len(u), i \notin 1 .. Len(s)
               PROVE  i - Len(s) \in 1 .. Len(t) /\ u[i] = t[i - Len(s)]
    OBVIOUS
  <2>1. i - Len(s) \in 1 .. Len(t) /\ Len(s) + (i - Len(s)) = i
    BY <1>1
  <2> QED BY <1>1, <2>1
<1>3. /\ u \in Seq(Ops) /\ Len(u) = Len(s) + Len(t)
      /\ \A i \in 1 .. Len(s) : u[i] = s[i] /\ i \in 1 .. Len(u)
      /\ \A i \in 1 .. Len(t) : u[Len(s) + i] = t[i] /\ Len(s) + i \in 1 .. Len(u)
  BY <1>1
<1> HIDE DEF u
<1>4. Sorted(u)
  <2> SUFFICES ASSUME NEW i \in 1 .. Len(u), NEW j \in 1 .. Len(u), i < j
               PROVE  Earlier(u[i], u[j])
    BY DEF Sorted
  <2>1. CASE i \in 1 .. Len(s) /\ j \in 1 .. Len(s)
    BY <1>3, <2>1 DEF Sorted
  <2>2. CASE i \in 1 .. Len(s) /\ j \notin 1 .. Len(s)
    <3>1. Has(s, u[i]) /\ Has(t, u[j])
      BY <1>2, <1>3, <2>2 DEF Has
    <3> QED BY <3>1
  <2>3. CASE i \notin 1 .. Len(s) /\ j \notin 1 .. Len(s)
    <3>1. i - Len(s) \in 1 .. Len(t) /\ j - Len(s) \in 1 .. Len(t) /\ i - Len(s) < j - Len(s)
          /\ u[i] = t[i - Len(s)] /\ u[j] = t[j - Len(s)]
      BY <1>1, <1>2, <2>3
    <3> QED BY <3>1 DEF Sorted
  <2> QED BY <1>1, <2>1, <2>2, <2>3
<1>5. ASSUME NEW x PROVE Has(u, x) <=> Has(s, x) \/ Has(t, x)
  <2>1. Has(u, x) => Has(s, x) \/ Has(t, x)
    BY <1>2, <1>3 DEF Has
  <2>2. Has(s, x) => Has(u, x)
    BY <1>3 DEF Has
  <2>3. Has(t, x) => Has(u, x)
    BY <1>3 DEF Has
  <2> QED BY <2>1, <2>2, <2>3
<1> QED BY <1>3, <1>4, <1>5 DEF u

LEMMA SmallStreams ==
  /\ Sorted(<<>>) /\ \A x : ~Has(<<>>, x)
  /\ \A x \in Ops : Sorted(<<x>>) /\ \A y : Has(<<x>>, y) <=> y = x
  /\ \A x, y \in Ops : Earlier(x, y) =>
       Sorted(<<x, y>>) /\ \A z : Has(<<x, y>>, z) <=> z = x \/ z = y
<1>1. Sorted(<<>>) /\ \A x : ~Has(<<>>, x)
  BY DEF Sorted, Has
<1>2. \A x \in Ops : Sorted(<<x>>) /\ \A y : Has(<<x>>, y) <=> y = x
  BY DEF Sorted, Has
<1>3. ASSUME NEW x \in Ops, NEW y \in Ops, Earlier(x, y)
      PROVE  Sorted(<<x, y>>) /\ \A z : Has(<<x, y>>, z) <=> z = x \/ z = y
  <2>1. \A i \in 1 .. Len(<<x, y>>) : i = 1 \/ i = 2
    OBVIOUS
  <2>2. 1 \in 1 .. Len(<<x, y>>) /\ 2 \in 1 .. Len(<<x, y>>) /\ <<x, y>>[1] = x /\ <<x, y>>[2] = y
    OBVIOUS
  <2>3. Sorted(<<x, y>>)
    BY <1>3, <2>1, <2>2 DEF Sorted
  <2>4. \A z : Has(<<x, y>>, z) <=> z = x \/ z = y
    BY <2>1, <2>2 DEF Has
  <2> QED BY <2>3, <2>4
<1> QED BY <1>1, <1>2, <1>3

(* A forward has each of its operations once, layer after layer.           *)
LEMMA ForwardFacts ==
  ASSUME NEW r, NEW k \in Nat, step[r] = k
  PROVE  /\ Forward(r) \in Seq(Ops) /\ Sorted(Forward(r))
         /\ \A x : Has(Forward(r), x) <=> x \in ForwardOps(k)
<1> DEFINE F == Forward(r)
           name(m) == CASE m = 0 -> "wait" [] m = 1 -> "copy"
                        [] m = 2 -> "reset" [] m = 3 -> "consume"
<1>1. \A l, m : m \in 0 .. 3 => HostCopy(r, l)[1 + m] = Is(name(m), k, l)
  <2> SUFFICES ASSUME NEW l, NEW m \in 0 .. 3 PROVE HostCopy(r, l)[1 + m] = Is(name(m), k, l)
    OBVIOUS
  <2>1. \A x : Op(x, r, l) = Is(x, k, l)
    BY DEF Op, Is
  <2>2. HostCopy(r, l) = <<Is("wait", k, l), Is("copy", k, l), Is("reset", k, l),
                           Is("consume", k, l)>>
    BY <2>1 DEF HostCopy
  <2>3. CASE m = 0
    BY <2>2, <2>3
  <2>4. CASE m = 1
    BY <2>2, <2>4
  <2>5. CASE m = 2
    BY <2>2, <2>5
  <2>6. CASE m = 3
    BY <2>2, <2>6
  <2> QED BY <2>3, <2>4, <2>5, <2>6
<1>2. \A i \in 1 .. 4 * NumLayers :
        \E l \in Layers, m \in 0 .. 3 : i = 4 * l + m - 3 /\ F[i] = Is(name(m), k, l)
  <2> SUFFICES ASSUME NEW i \in 1 .. 4 * NumLayers
               PROVE  \E l \in Layers, m \in 0 .. 3 :
                        i = 4 * l + m - 3 /\ F[i] = Is(name(m), k, l)
    OBVIOUS
  <2>1. /\ (i + 3) \div 4 \in Layers /\ (i - 1) % 4 \in 0 .. 3
        /\ i = 4 * ((i + 3) \div 4) + ((i - 1) % 4) - 3
    BY DEF Layers
  <2>2. i \in 1 .. 4 * NumLayers + 1 /\ i <= 4 * NumLayers
    OBVIOUS
  <2>3. F[i] = HostCopy(r, (i + 3) \div 4)[1 + ((i - 1) % 4)]
    BY <2>2 DEF Forward
  <2> HIDE DEF F, name
  <2> QED BY <1>1, <2>1, <2>3
<1>3. DOMAIN F = 1 .. 4 * NumLayers + 1 /\ F[4 * NumLayers + 1] = Is("end", k, 0)
  BY DEF Forward, Op, Is
<1>4. \A i \in 1 .. 4 * NumLayers + 1 : i \in 1 .. 4 * NumLayers \/ i = 4 * NumLayers + 1
  OBVIOUS
<1>a. /\ \A m \in 0 .. 3 : name(m) \in {"wait", "copy", "reset", "consume"}
      /\ name(0) = "wait" /\ name(1) = "copy" /\ name(2) = "reset" /\ name(3) = "consume"
      /\ 0 \in 0 .. 3 /\ 1 \in 0 .. 3 /\ 2 \in 0 .. 3 /\ 3 \in 0 .. 3
  OBVIOUS
<1> HIDE DEF name
<1>5. \A l \in Layers, m \in 0 .. 3 :
        /\ Is(name(m), k, l) \in ForwardOps(k) /\ Pos(Is(name(m), k, l)) = 4 * l + m
        /\ \A x \in Ops : x.op = name(m) /\ x.step = k /\ x.layer = l => x = Is(name(m), k, l)
  <2> SUFFICES ASSUME NEW l \in Layers, NEW m \in 0 .. 3
               PROVE  /\ Is(name(m), k, l) \in ForwardOps(k)
                      /\ Pos(Is(name(m), k, l)) = 4 * l + m
                      /\ \A x \in Ops : x.op = name(m) /\ x.step = k /\ x.layer = l
                                          => x = Is(name(m), k, l)
    OBVIOUS
  <2>1. l \in 0 .. NumLayers /\ l \in Nat
    BY DEF Layers
  <2>2. name(m) \in {"wait", "copy", "reset", "consume"}
    BY <1>a
  <2>3. PICK x \in Ops : x = Is(name(m), k, l) /\ x.op = name(m) /\ x.step = k /\ x.layer = l
    <3>1. name(m) \in OpNames
      BY <2>2 DEF OpNames
    <3> QED BY <2>1, <3>1, IsOp
  <2>4. x \in ForwardOps(k)
    BY <2>2, <2>3 DEF ForwardOps
  <2>5. Pos(x) = 4 * l + m
    BY <2>1, <2>3, <1>a DEF Pos, name
  <2>6. \A y \in Ops : y = Is(y.op, y.step, y.layer)
    BY OpIs
  <2> QED BY <2>3, <2>4, <2>5, <2>6
<1>6. Is("end", k, 0) \in ForwardOps(k) /\ Pos(Is("end", k, 0)) = 4 * NumLayers + 4
  <2>1. Is("end", k, 0) \in Ops /\ Is("end", k, 0).op = "end" /\ Is("end", k, 0).step = k
        /\ Is("end", k, 0).layer = 0
    BY IsOp DEF OpNames
  <2> QED BY <2>1 DEF ForwardOps, Pos
<1>7. \A x \in ForwardOps(k) :
        \/ x = Is("end", k, 0)
        \/ \E l \in Layers, m \in 0 .. 3 : x = Is(name(m), k, l)
  <2> SUFFICES ASSUME NEW x \in ForwardOps(k), x # Is("end", k, 0)
               PROVE  \E l \in Layers, m \in 0 .. 3 : x = Is(name(m), k, l)
    OBVIOUS
  <2>1. x \in Ops /\ x = Is(x.op, x.step, x.layer) /\ x.step = k
        /\ x.op \in {"wait", "copy", "reset", "consume"} /\ x.layer \in Layers
    <3>1. x \in Ops /\ x.step = k
      BY DEF ForwardOps
    <3>2. x = Is(x.op, x.step, x.layer)
      BY <3>1, OpIs
    <3>3. ~(x.op = "end" /\ x.layer = 0)
      BY <3>1, <3>2
    <3> QED BY <3>1, <3>2, <3>3 DEF ForwardOps
  <2>2. \E m \in 0 .. 3 : x.op = name(m)
    BY <1>a, <2>1
  <2> QED BY <2>1, <2>2
<1> HIDE DEF F
<1>8. \A i \in 1 .. 4 * NumLayers + 1 :
        F[i] \in ForwardOps(k) /\ F[i] \in Ops /\ F[i].step = k /\ Pos(F[i]) = i + 3
  <2> SUFFICES ASSUME NEW i \in 1 .. 4 * NumLayers + 1
               PROVE  F[i] \in ForwardOps(k) /\ Pos(F[i]) = i + 3
    BY DEF ForwardOps
  <2>1. CASE i \in 1 .. 4 * NumLayers
    <3>1. PICK l \in Layers, m \in 0 .. 3 : i = 4 * l + m - 3 /\ F[i] = Is(name(m), k, l)
      BY <1>2, <2>1
    <3>2. F[i] \in ForwardOps(k) /\ Pos(F[i]) = 4 * l + m
      BY <1>5, <3>1
    <3> QED BY <3>1, <3>2 DEF Layers
  <2>2. CASE i = 4 * NumLayers + 1
    BY <1>3, <1>6, <2>2
  <2> QED BY <1>4, <2>1, <2>2
<1>9. F \in Seq(Ops) /\ Len(F) = 4 * NumLayers + 1
  <2>1. F = [i \in 1 .. 4 * NumLayers + 1 |-> F[i]]
    BY <1>3 DEF F, Forward
  <2>2. \A i \in 1 .. 4 * NumLayers + 1 : F[i] \in Ops
    BY <1>8
  <2>3. 4 * NumLayers + 1 \in Nat
    OBVIOUS
  <2> QED BY <2>1, <2>2, <2>3
<1>10. Sorted(F)
  <2> SUFFICES ASSUME NEW i \in 1 .. Len(F), NEW j \in 1 .. Len(F), i < j
               PROVE  Earlier(F[i], F[j])
    BY DEF Sorted
  <2> QED BY <1>8, <1>9 DEF Earlier
<1>11. \A x : Has(F, x) => x \in ForwardOps(k)
  BY <1>8, <1>9 DEF Has
<1>12. ASSUME NEW x \in ForwardOps(k) PROVE Has(F, x)
  <2>1. CASE x = Is("end", k, 0)
    <3>1. 4 * NumLayers + 1 \in 1 .. Len(F)
      BY <1>9
    <3> QED BY <1>3, <2>1, <3>1 DEF Has
  <2>2. ASSUME NEW l \in Layers, NEW m \in 0 .. 3, x = Is(name(m), k, l)
        PROVE  Has(F, x)
    <3>1. PICK i \in 1 .. Len(F) : i = 4 * l + m - 3 /\ i \in 1 .. 4 * NumLayers
      <4>1. 4 * l + m - 3 \in 1 .. 4 * NumLayers
        BY DEF Layers
      <4> QED BY <1>9, <4>1
    <3>2. PICK b \in Layers, n \in 0 .. 3 : i = 4 * b + n - 3 /\ F[i] = Is(name(n), k, b)
      BY <1>2, <3>1
    <3>3. b = l /\ n = m
      BY <3>1, <3>2 DEF Layers
    <3> QED BY <2>2, <3>2, <3>3 DEF Has
  <2> QED BY <1>7, <2>1, <2>2
<1> QED BY <1>9, <1>10, <1>11, <1>12 DEF F

-----------------------------------------------------------------------------
(* Types.  What the worker is at is needed for them: its targets exist.     *)

WorkerShape ==
  /\ wpc = "poll" => batch = <<>>
  /\ wpc # "poll" => windex \in 1 .. Len(batch)
  /\ wpc \in {"ready", "consumed", "compute", "computing", "publish"} => wtarget < TpSize
  /\ wpc = "fanout" => wtarget >= 1
  /\ \A i, j \in 1 .. Len(batch) : batch[i].group = batch[j].group => i = j

Shape == TypeOK /\ WorkerShape

TypeThreads ==
  /\ plan \in [Groups -> Plans]
  /\ step \in [Ranks -> Nat] /\ layer \in [Ranks -> 1 .. NumLayers + 1]
  /\ pc \in [Ranks -> {"idle", "signal", "claim", "full", "timeout"}]

TypeRequests ==
  /\ queue \in [Groups -> Seq(Nat)] /\ \A d \in Groups : Len(queue[d]) <= 1
  /\ request \in [Groups -> Nat] /\ awaited \in [Groups -> Nat]
  /\ staging \in [Groups -> {"idle", "get", "d2h", "copy", "send"}]
  /\ channel \in [Groups -> Seq(Nat)]

TypeStreams ==
  /\ stream \in [Ranks -> Seq(Ops)]
  /\ recorded \in [Groups -> Nat] /\ passed \in [Groups -> Nat]
  /\ source \in [Groups -> Nat] /\ done \in [Ranks -> Nat]
  /\ gpu \in [Ranks -> [Layers -> [forward : Nat, got : Contents]]]

TypeMemory ==
  /\ inputs \in [Groups -> Contents]
  /\ out \in [Ranks -> [Layers -> Contents]]
  /\ ready \in [Ranks -> [Layers -> 0 .. 1]]
  /\ consumed \in [Ranks -> [Layers -> 0 .. 1]]

TypeWorker ==
  /\ wpc \in {"poll", "wait", "ready", "consumed", "compute", "computing",
             "fanout", "publish"}
  /\ batch \in Seq([group : Groups, step : Nat])
  /\ wlayer \in Layers /\ windex \in Nat \ {0} /\ wtarget \in 0 .. TpSize
  /\ wtarget = TpSize => wpc = "fanout"
  /\ reading \in Contents /\ skipped \subseteq Groups \X Nat

LEMMA TypeParts ==
  TypeOK <=> TypeThreads /\ TypeRequests /\ TypeStreams /\ TypeMemory /\ TypeWorker
BY DEF TypeOK, TypeThreads, TypeRequests, TypeStreams, TypeMemory, TypeWorker, Steps

LEMMA InitShape == Init => Shape
<1> SUFFICES ASSUME Init PROVE Shape
  OBVIOUS
<1>1. TypeThreads
  BY DEF Init, TypeThreads
<1>2. TypeRequests
  BY DEF Init, TypeRequests
<1>3. Nothing \in Contents
  BY DEF Nothing, Data, Contents, Steps
<1>4. TypeStreams
  BY <1>3 DEF Init, TypeStreams
<1>5. TypeMemory
  BY <1>3 DEF Init, TypeMemory
<1>6. TypeWorker
  BY <1>3 DEF Init, TypeWorker, Layers
<1>7. WorkerShape
  BY DEF Init, WorkerShape
<1> QED BY <1>1, <1>2, <1>4, <1>5, <1>6, <1>7, TypeParts DEF Shape

LEMMA ThreadsKeepTypes ==
  ASSUME TypeThreads, Next
  PROVE  TypeThreads'
<1> USE DEF TypeThreads
<1>1. ASSUME NEW r \in Ranks, BeginReal(r) PROVE TypeThreads'
  BY <1>1 DEF BeginReal
<1>2. ASSUME NEW r \in Ranks, ClaimSeen(r) PROVE TypeThreads'
  BY <1>2 DEF ClaimSeen
<1>3. ASSUME NEW r \in Ranks, ClaimTimeout(r) PROVE TypeThreads'
  BY <1>3 DEF ClaimTimeout
<1>4. ASSUME NEW r \in Ranks, LaunchReal(r) \/ LaunchDummy(r) PROVE TypeThreads'
  <2>1. UNCHANGED plan /\ pc' = [pc EXCEPT ![r] = "idle"]
        /\ step' = [step EXCEPT ![r] = step[r] + 1] /\ layer' = [layer EXCEPT ![r] = 1]
    BY <1>4 DEF LaunchReal, LaunchDummy, Finish
  <2>2. step[r] + 1 \in Nat /\ 1 \in 1 .. NumLayers + 1
    OBVIOUS
  <2> QED BY <2>1, <2>2
<1>5. ASSUME NEW r \in Ranks, BeginDummy(r) PROVE TypeThreads'
  BY <1>5 DEF BeginDummy
<1>6. ASSUME NEW r \in Ranks, SignalDummy(r) PROVE TypeThreads'
  BY <1>6 DEF SignalDummy
<1>7. ASSUME NEW r \in Ranks, StreamStep(r) PROVE UNCHANGED <<plan, threads>>
  BY <1>7 DEF StreamStep, Produce, PassEvent, WaitReady, CopyToDevice, ResetReady,
              SetConsumed, EndForward
<1>8. ASSUME NEW d \in Groups, RequestThread(d) PROVE UNCHANGED <<plan, threads>>
  BY <1>8 DEF RequestThread, GetRequest, WaitEvent, StartCopy, EndCopy, Send
<1>9. ASSUME Worker PROVE UNCHANGED <<plan, threads>>
  BY <1>9 DEF Worker, Drain, WaitConsumed, ClaimReady, ClaimConsumed, StartCompute,
              EndCompute, FanOut, Publish
<1>10. ASSUME UNCHANGED <<plan, threads>> PROVE TypeThreads'
  BY <1>10 DEF threads
<1> QED BY <1>1, <1>2, <1>3, <1>4, <1>5, <1>6, <1>7, <1>8, <1>9, <1>10
        DEF Next, ModelThread

LEMMA RequestsKeepTypes ==
  ASSUME TypeThreads, TypeRequests, TypeStreams, Next
  PROVE  TypeRequests'
<1> USE DEF TypeRequests
<1>1. ASSUME NEW r \in Ranks, BeginReal(r) PROVE TypeRequests'
  <2>1. GroupOf(r) \in Groups
    BY RankFacts
  <2>2. PICK Q \in Seq(Nat) : Q = <<step[r]>> /\ Len(Q) <= 1
    <3>1. PICK k \in Nat : k = step[r]
      BY DEF TypeThreads
    <3>2. <<k>> \in Seq(Nat) /\ Len(<<k>>) <= 1
      OBVIOUS
    <3> QED BY <3>1, <3>2, Zenon
  <2>3. queue' = queue \/ queue' = [queue EXCEPT ![GroupOf(r)] = Q]
    BY <1>1, <2>2 DEF BeginReal
  <2>4. UNCHANGED <<request, staging, awaited, channel>>
    BY <1>1 DEF BeginReal
  <2>5. queue' \in [Groups -> Seq(Nat)] /\ \A d \in Groups : Len(queue'[d]) <= 1
    BY <2>1, <2>2, <2>3
  <2> QED BY <2>4, <2>5
<1>2. ASSUME NEW d \in Groups, GetRequest(d) PROVE TypeRequests'
  <2>1. Head(queue[d]) \in Nat /\ <<>> \in Seq(Nat) /\ Len(<<>>) = 0
    BY <1>2 DEF GetRequest
  <2>2. /\ queue' = [queue EXCEPT ![d] = <<>>] /\ UNCHANGED <<awaited, channel>>
        /\ request' = [request EXCEPT ![d] = Head(queue[d])]
        /\ staging' = [staging EXCEPT ![d] = "get"]
    BY <1>2 DEF GetRequest
  <2>3. queue' \in [Groups -> Seq(Nat)] /\ \A e \in Groups : Len(queue'[e]) <= 1
    BY <2>1, <2>2
  <2> QED BY <2>1, <2>2, <2>3
<1>3. ASSUME NEW d \in Groups, WaitEvent(d) \/ StartCopy(d) \/ EndCopy(d)
      PROVE  TypeRequests'
  <2>1. CASE WaitEvent(d)
    <3>1. recorded[d] \in Nat
      BY DEF TypeStreams
    <3>2. /\ UNCHANGED <<queue, request, channel>>
          /\ awaited' = [awaited EXCEPT ![d] = recorded[d]]
          /\ staging' = [staging EXCEPT ![d] = "d2h"]
      BY <2>1 DEF WaitEvent, AwaitRecord
    <3> QED BY <3>1, <3>2
  <2>2. CASE StartCopy(d)
    <3>1. source[d] \in Nat
      BY DEF TypeStreams
    <3>2. /\ UNCHANGED <<queue, request, channel>>
          /\ awaited' = [awaited EXCEPT ![d] = source[d]]
          /\ staging' = [staging EXCEPT ![d] = "copy"]
      BY <2>2 DEF StartCopy
    <3> QED BY <3>1, <3>2
  <2>3. CASE EndCopy(d)
    <3>1. /\ UNCHANGED <<queue, request, awaited, channel>>
          /\ staging' = [staging EXCEPT ![d] = "send"]
      BY <2>3 DEF EndCopy
    <3> QED BY <3>1
  <2> QED BY <1>3, <2>1, <2>2, <2>3
<1>4. ASSUME NEW d \in Groups, Send(d) PROVE TypeRequests'
  <2>1. Append(channel[d], request[d]) \in Seq(Nat)
    OBVIOUS
  <2> QED BY <1>4, <2>1 DEF Send
<1>5. ASSUME Drain PROVE TypeRequests'
  <2>1. UNCHANGED <<queue, request, staging, awaited>>
    BY <1>5 DEF Drain
  <2>2. PICK taken \in [Groups -> 0 .. 2] :
          /\ \A d \in Groups : taken[d] <= Len(channel[d])
          /\ channel' = [d \in Groups |-> SubSeq(channel[d], taken[d] + 1, Len(channel[d]))]
    BY <1>5 DEF Drain
  <2>3. ASSUME NEW d \in Groups
        PROVE  SubSeq(channel[d], taken[d] + 1, Len(channel[d])) \in Seq(Nat)
    <3>1. PICK c \in Seq(Nat) : c = channel[d]
      OBVIOUS
    <3>2. taken[d] \in 0 .. 2
      BY <2>2
    <3>3. taken[d] + 1 \in Int /\ Len(c) \in Int
          /\ \A i \in taken[d] + 1 .. Len(c) : c[i] \in Nat
      BY <3>2
    <3> QED BY <3>1, <3>3, SubSeqProperties
  <2>4. channel' \in [Groups -> Seq(Nat)]
    BY <2>2, <2>3
  <2> QED BY <2>1, <2>4
<1>6. ASSUME NEW r \in Ranks,
             \/ ClaimSeen(r) \/ ClaimTimeout(r) \/ LaunchReal(r)
             \/ BeginDummy(r) \/ SignalDummy(r) \/ LaunchDummy(r) \/ StreamStep(r)
      PROVE  UNCHANGED requests
  BY <1>6 DEF ClaimSeen, ClaimTimeout, LaunchReal, BeginDummy, SignalDummy, LaunchDummy,
              StreamStep, Produce, PassEvent, WaitReady, CopyToDevice, ResetReady,
              SetConsumed, EndForward
<1>7. ASSUME Worker PROVE Drain \/ UNCHANGED requests
  BY <1>7 DEF Worker, WaitConsumed, ClaimReady, ClaimConsumed, StartCompute,
              EndCompute, FanOut, Publish
<1>8. ASSUME UNCHANGED requests PROVE TypeRequests'
  BY <1>8 DEF requests
<1> QED BY <1>1, <1>2, <1>3, <1>4, <1>5, <1>6, <1>7, <1>8
        DEF Next, ModelThread, RequestThread

LEMMA StreamsKeepTypes ==
  ASSUME TypeThreads, TypeStreams, TypeMemory, Next
  PROVE  TypeStreams'
<1> USE DEF TypeStreams
<1>1. ASSUME NEW r \in Ranks, NEW name \in OpNames PROVE Op(name, r, 0) \in Ops
  <2>1. Op(name, r, 0) = Is(name, step[r], 0) /\ step[r] \in Nat /\ 0 \in 0 .. NumLayers
    BY DEF Op, Is, TypeThreads
  <2> QED BY <2>1, IsOp
<1>2. ASSUME NEW r \in Ranks, BeginReal(r) PROVE TypeStreams'
  <2>1. GroupOf(r) \in Groups /\ step[r] \in Nat /\ stream[r] \in Seq(Ops)
    BY RankFacts DEF TypeThreads
  <2>2. recorded' = recorded \/ recorded' = [recorded EXCEPT ![GroupOf(r)] = step[r]]
    BY <1>2 DEF BeginReal
  <2>3. UNCHANGED <<passed, source, gpu, done>>
    BY <1>2 DEF BeginReal
  <2>4. Op("produce", r, 0) \in Ops /\ Op("event", r, 0) \in Ops
    BY <1>1 DEF OpNames
  <2>5. PICK t \in Seq(Ops) : stream' = [stream EXCEPT ![r] = @ \o t]
    <3>1. <<Op("produce", r, 0), Op("event", r, 0)>> \in Seq(Ops) /\ <<>> \in Seq(Ops)
      BY <2>4
    <3> QED BY <1>2, <3>1 DEF BeginReal
  <2>6. stream[r] \o t \in Seq(Ops)
    BY <2>1
  <2>7. stream' \in [Ranks -> Seq(Ops)]
    BY <2>5, <2>6
  <2>8. recorded' \in [Groups -> Nat]
    BY <2>1, <2>2
  <2> QED BY <2>3, <2>7, <2>8
<1>3. ASSUME NEW r \in Ranks, LaunchReal(r) \/ LaunchDummy(r) PROVE TypeStreams'
  <2>1. UNCHANGED <<recorded, passed, source, gpu, done>> /\ Finish(r)
    BY <1>3 DEF LaunchReal, LaunchDummy
  <2>2. step[r] \in Nat /\ stream[r] \in Seq(Ops)
    BY DEF TypeThreads
  <2>3. Enqueued(r) \in Seq(Ops)
    BY <2>2, ForwardFacts DEF Enqueued
  <2>4. stream[r] \o Enqueued(r) \in Seq(Ops)
    BY <2>2, <2>3
  <2>5. stream' = [stream EXCEPT ![r] = stream[r] \o Enqueued(r)]
    BY <2>1 DEF Finish
  <2>6. stream' \in [Ranks -> Seq(Ops)]
    BY <2>4, <2>5
  <2> QED BY <2>1, <2>6
<1>4. ASSUME NEW r \in Ranks, BeginDummy(r) PROVE TypeStreams'
  <2>1. UNCHANGED <<recorded, passed, source, gpu, done>>
    BY <1>4 DEF BeginDummy
  <2>2. Op("produce", r, 0) \in Ops
    BY <1>1 DEF OpNames
  <2>3. Append(stream[r], Op("produce", r, 0)) \in Seq(Ops)
    BY <2>2
  <2>4. stream' = stream \/ stream' = [stream EXCEPT ![r] = Append(stream[r], Op("produce", r, 0))]
    BY <1>4 DEF BeginDummy
  <2>5. stream' \in [Ranks -> Seq(Ops)]
    BY <2>3, <2>4
  <2> QED BY <2>1, <2>5
<1>5. ASSUME NEW r \in Ranks, StreamStep(r) PROVE TypeStreams'
  <2>1. stream[r] # <<>> /\ stream' = [stream EXCEPT ![r] = Tail(stream[r])]
    BY <1>5 DEF StreamStep, Produce, PassEvent, WaitReady, CopyToDevice, ResetReady,
                SetConsumed, EndForward, Pop, Next1
  <2>2. Tail(stream[r]) \in Seq(Ops) /\ Head(stream[r]) \in Ops
    BY <2>1
  <2>3. stream' \in [Ranks -> Seq(Ops)]
    BY <2>1, <2>2
  <2>4. Head(stream[r]).step \in Nat /\ GroupOf(r) \in Groups
    BY <2>2, OpIs, RankFacts
  <2>5. recorded' = recorded
    BY <1>5 DEF StreamStep, Produce, PassEvent, WaitReady, CopyToDevice, ResetReady,
                SetConsumed, EndForward
  <2>6. passed' \in [Groups -> Nat]
    BY <1>5, <2>4 DEF StreamStep, Produce, PassEvent, WaitReady, CopyToDevice, ResetReady,
                      SetConsumed, EndForward
  <2>7. source' \in [Groups -> Nat]
    BY <1>5, <2>4 DEF StreamStep, Produce, PassEvent, WaitReady, CopyToDevice, ResetReady,
                      SetConsumed, EndForward
  <2>8. done' \in [Ranks -> Nat]
    BY <1>5, <2>4 DEF StreamStep, Produce, PassEvent, WaitReady, CopyToDevice, ResetReady,
                      SetConsumed, EndForward
  <2>9. gpu' \in [Ranks -> [Layers -> [forward : Nat, got : Contents]]]
    <3>1. CASE gpu' = gpu
      BY <3>1
    <3>2. CASE CopyToDevice(r)
      <4> DEFINE l == Head(stream[r]).layer
                 G == [forward |-> Head(stream[r]).step, got |-> out[r][l]]
      <4>1. gpu' = [gpu EXCEPT ![r][l] = G]
        BY <3>2 DEF CopyToDevice
      <4>2. CASE l \in Layers
        <5>1. out[r][l] \in Contents
          BY <4>2 DEF TypeMemory
        <5>2. G \in [forward : Nat, got : Contents]
          BY <2>4, <5>1
        <5> HIDE DEF G, l
        <5> QED BY <4>1, <4>2, <5>2
      <4>3. CASE l \notin Layers
        <5> HIDE DEF G, l
        <5> QED BY <4>1, <4>3
      <4> QED BY <4>2, <4>3
    <3>3. gpu' = gpu \/ CopyToDevice(r)
      BY <1>5 DEF StreamStep, Produce, PassEvent, WaitReady, ResetReady, SetConsumed, EndForward
    <3> QED BY <3>1, <3>2, <3>3
  <2> QED BY <2>3, <2>5, <2>6, <2>7, <2>8, <2>9
<1>6. ASSUME NEW r \in Ranks, ClaimSeen(r) \/ ClaimTimeout(r) \/ SignalDummy(r)
      PROVE  UNCHANGED streams
  BY <1>6 DEF ClaimSeen, ClaimTimeout, SignalDummy
<1>7. ASSUME NEW d \in Groups, RequestThread(d) PROVE UNCHANGED streams
  BY <1>7 DEF RequestThread, GetRequest, WaitEvent, StartCopy, EndCopy, Send
<1>8. ASSUME Worker PROVE UNCHANGED streams
  BY <1>8 DEF Worker, Drain, WaitConsumed, ClaimReady, ClaimConsumed, StartCompute,
              EndCompute, FanOut, Publish
<1>9. ASSUME UNCHANGED streams PROVE TypeStreams'
  BY <1>9 DEF streams
<1> QED BY <1>2, <1>3, <1>4, <1>5, <1>6, <1>7, <1>8, <1>9 DEF Next, ModelThread

LEMMA SequenceOf ==
  ASSUME NEW S, NEW n \in Nat, NEW f \in [1 .. n -> S]
  PROVE  f \in Seq(S) /\ Len(f) = n
OBVIOUS

LEMMA ElementOf ==
  ASSUME NEW S, NEW s \in Seq(S), NEW i \in 1 .. Len(s)
  PROVE  s[i] \in S
OBVIOUS

(* The worker is at a group, and at a rank of it.                          *)
LEMMA WorkerAt ==
  ASSUME TypeWorker, WorkerShape, wpc # "poll"
  PROVE  /\ windex \in 1 .. Len(batch) /\ Len(batch) \in Nat /\ WGroup \in Groups
         /\ batch[windex].step \in Nat
         /\ RankZero(WGroup) \in Ranks /\ RankZero(WGroup) \in Targets(WGroup)
         /\ wtarget < TpSize => /\ WTarget \in Ranks /\ WTarget \in Targets(WGroup)
                                /\ GroupOf(WTarget) = WGroup /\ WTarget[2] = wtarget
<1>1. windex \in 1 .. Len(batch) /\ Len(batch) \in Nat
  BY DEF WorkerShape, TypeWorker
<1>2. batch[windex] \in [group : Groups, step : Nat]
  BY <1>1, ElementOf DEF TypeWorker
<1>3. WGroup \in Groups /\ batch[windex].step \in Nat
  BY <1>2 DEF WGroup
<1>4. wtarget < TpSize => wtarget \in 0 .. TpSize - 1
  BY DEF TypeWorker
<1> QED BY <1>1, <1>3, <1>4, RankFacts DEF WTarget

LEMMA SetAFlag ==
  ASSUME NEW S, NEW f \in [Ranks -> [Layers -> S]], NEW r, NEW l, NEW v \in S
  PROVE  /\ [f EXCEPT ![r][l] = v] \in [Ranks -> [Layers -> S]]
         /\ r \in Ranks /\ l \in Layers => [f EXCEPT ![r][l] = v][r][l] = v
         /\ \A q \in Ranks, m \in Layers :
              q # r \/ m # l => [f EXCEPT ![r][l] = v][q][m] = f[q][m]
OBVIOUS

LEMMA MemoryKeepsTypes ==
  ASSUME TypeStreams, TypeMemory, TypeWorker, WorkerShape, Next
  PROVE  TypeMemory'
<1> USE DEF TypeMemory
<1>1. Nothing \in Contents /\ Torn \in Contents /\ 0 \in 0 .. 1 /\ 1 \in 0 .. 1
  BY DEF Nothing, Torn, Data, Contents, Steps
<1>2. ASSUME NEW r \in Ranks, SignalDummy(r) PROVE TypeMemory'
  <2>1. out' = [out EXCEPT ![r][layer[r]] = Nothing] /\ inputs' = inputs
        /\ ready' = [ready EXCEPT ![r][layer[r]] = 1]
        /\ consumed' = [consumed EXCEPT ![r][layer[r]] = 1]
    BY <1>2 DEF SignalDummy, ConsumedAfterSignal
  <2> QED BY <1>1, <2>1, SetAFlag
<1>3. ASSUME NEW d \in Groups, StartCopy(d) \/ EndCopy(d) PROVE TypeMemory'
  <2>1. Data(source[d], FALSE) \in Contents
    BY DEF TypeStreams, Data, Contents, Steps
  <2>2. UNCHANGED <<out, ready, consumed>>
    BY <1>3 DEF StartCopy, EndCopy, flags
  <2>3. inputs' \in [Groups -> Contents]
    BY <1>1, <1>3, <2>1 DEF StartCopy, EndCopy
  <2> QED BY <2>2, <2>3
<1>4. ASSUME Drain PROVE TypeMemory'
  <2>1. UNCHANGED <<out, ready, consumed>>
    BY <1>4 DEF Drain, flags
  <2>2. PICK from \in SUBSET Groups :
          inputs' = [d \in Groups |-> IF d \in from THEN [inputs[d] EXCEPT !.clamped = TRUE]
                                                    ELSE inputs[d]]
    BY <1>4 DEF Drain
  <2>3. \A d \in Groups : [inputs[d] EXCEPT !.clamped = TRUE] \in Contents
    BY DEF Contents
  <2>4. inputs' \in [Groups -> Contents]
    BY <2>2, <2>3
  <2> QED BY <2>1, <2>4
<1>5. ASSUME ClaimReady \/ ClaimConsumed PROVE TypeMemory'
  <2>1. UNCHANGED <<inputs, out>>
    BY <1>5 DEF ClaimReady, ClaimConsumed
  <2>2. \/ ready' = [ready EXCEPT ![WTarget][wlayer] = 0] /\ consumed' = consumed
        \/ consumed' = [consumed EXCEPT ![WTarget][wlayer] = 0] /\ ready' = ready
    BY <1>5 DEF ClaimReady, ClaimConsumed, Lower, FirstFlag
  <2>3. /\ [ready EXCEPT ![WTarget][wlayer] = 0] \in [Ranks -> [Layers -> 0 .. 1]]
        /\ [consumed EXCEPT ![WTarget][wlayer] = 0] \in [Ranks -> [Layers -> 0 .. 1]]
    BY <1>1, SetAFlag
  <2>4. ready' \in [Ranks -> [Layers -> 0 .. 1]]
    BY <2>2, <2>3
  <2>5. consumed' \in [Ranks -> [Layers -> 0 .. 1]]
    BY <2>2, <2>3
  <2> QED BY <2>1, <2>4, <2>5
<1>6. ASSUME StartCompute PROVE TypeMemory'
  BY <1>1, <1>6, SetAFlag DEF StartCompute, flags
<1>7. ASSUME EndCompute PROVE TypeMemory'
  <2>1. PICK v \in Contents : out' = [out EXCEPT ![RankZero(WGroup)][wlayer] = v]
    BY <1>1, <1>7 DEF EndCompute, TypeWorker
  <2>2. UNCHANGED <<inputs, ready, consumed>>
    BY <1>7 DEF EndCompute, flags
  <2> QED BY <2>1, <2>2, SetAFlag
<1>8. ASSUME FanOut PROVE TypeMemory'
  <2>1. UNCHANGED <<inputs, ready, consumed>>
    BY <1>8 DEF FanOut, flags
  <2>2. RankZero(WGroup) \in Ranks /\ wlayer \in Layers
    BY <1>8, WorkerAt DEF FanOut, TypeWorker
  <2>3. PICK v \in Contents : v = out[RankZero(WGroup)][wlayer]
    BY <2>2
  <2>4. out' = out \/ out' = [out EXCEPT ![WTarget][wlayer] = v]
    BY <1>8, <2>3 DEF FanOut
  <2>5. [out EXCEPT ![WTarget][wlayer] = v] \in [Ranks -> [Layers -> Contents]]
    BY SetAFlag
  <2>6. out' \in [Ranks -> [Layers -> Contents]]
    BY <2>4, <2>5
  <2> QED BY <2>1, <2>6
<1>9. ASSUME Publish PROVE TypeMemory'
  BY <1>1, <1>9, SetAFlag DEF Publish
<1>10. ASSUME NEW r \in Ranks, ResetReady(r) PROVE TypeMemory'
  <2>1. ready' = [ready EXCEPT ![r][Head(stream[r]).layer] = 0]
        /\ UNCHANGED <<inputs, out, consumed>>
    BY <1>10 DEF ResetReady
  <2> QED BY <1>1, <2>1, SetAFlag
<1>11. ASSUME NEW r \in Ranks, SetConsumed(r) PROVE TypeMemory'
  <2>1. consumed' = [consumed EXCEPT ![r][Head(stream[r]).layer] = 1]
        /\ UNCHANGED <<inputs, out, ready>>
    BY <1>11 DEF SetConsumed, ConsumedAfterCopy
  <2> QED BY <1>1, <2>1, SetAFlag
<1>12. ASSUME NEW r \in Ranks,
             \/ BeginReal(r) \/ ClaimSeen(r) \/ ClaimTimeout(r) \/ LaunchReal(r)
             \/ BeginDummy(r) \/ LaunchDummy(r) \/ Produce(r) \/ PassEvent(r)
             \/ WaitReady(r) \/ CopyToDevice(r) \/ EndForward(r)
      PROVE  UNCHANGED <<inputs, out, flags>>
  BY <1>12 DEF BeginReal, ClaimSeen, ClaimTimeout, LaunchReal, BeginDummy, LaunchDummy,
               Produce, PassEvent, WaitReady, CopyToDevice, EndForward
<1>13. ASSUME NEW d \in Groups, GetRequest(d) \/ WaitEvent(d) \/ Send(d)
      PROVE  UNCHANGED <<inputs, out, flags>>
  BY <1>13 DEF GetRequest, WaitEvent, Send
<1>14. ASSUME WaitConsumed PROVE UNCHANGED <<inputs, out, flags>>
  BY <1>14 DEF WaitConsumed
<1>15. ASSUME UNCHANGED <<inputs, out, flags>> PROVE TypeMemory'
  BY <1>15 DEF flags
<1> QED BY <1>2, <1>3, <1>4, <1>5, <1>6, <1>7, <1>8, <1>9, <1>10, <1>11, <1>12, <1>13,
           <1>14, <1>15 DEF Next, ModelThread, RequestThread, Worker, StreamStep

(* A drain takes one request of each group it hears from.                  *)
Requests == [group : Groups, step : Nat]

DrainOf(taken, from) ==
  /\ from = {d \in Groups : taken[d] > 0} /\ from # {}
  /\ \A d \in Groups : taken[d] <= Len(channel[d])
  /\ batch' \in Seq(Requests) /\ Len(batch') >= 1
  /\ \A i \in 1 .. Len(batch') :
       /\ batch'[i].group \in from
       /\ batch'[i].step = Head(channel[batch'[i].group])
  /\ \A d \in from : \E i \in 1 .. Len(batch') : batch'[i].group = d
  /\ \A i, j \in 1 .. Len(batch') : batch'[i].group = batch'[j].group => i = j
  /\ skipped' = skipped \cup {<<d, channel[d][2]>> : d \in {e \in from : taken[e] = 2}}
  /\ inputs' = [d \in Groups |-> IF d \in from THEN [inputs[d] EXCEPT !.clamped = TRUE]
                                               ELSE inputs[d]]
  /\ channel' = [d \in Groups |-> SubSeq(channel[d], taken[d] + 1, Len(channel[d]))]

(* A drain leaves such a batch. *)
LEMMA DrainFacts ==
  ASSUME TypeRequests, Drain
  PROVE  \E taken \in [Groups -> 0 .. 2], from \in SUBSET Groups : DrainOf(taken, from)
<1>1. PICK taken \in [Groups -> 0 .. 2], from \in SUBSET Groups :
        /\ from = {d \in Groups : taken[d] > 0} /\ from # {}
        /\ \A d \in Groups : taken[d] <= Len(channel[d])
        /\ \E order \in [1 .. Cardinality(from) -> from] :
             /\ \A d \in from : \E i \in DOMAIN order : order[i] = d
             /\ batch' = [i \in DOMAIN order |->
                            [group |-> order[i], step |-> Head(channel[order[i]])]]
        /\ skipped' = skipped \cup {<<d, channel[d][2]>> : d \in {e \in from : taken[e] = 2}}
        /\ inputs' = [d \in Groups |-> IF d \in from THEN [inputs[d] EXCEPT !.clamped = TRUE]
                                                     ELSE inputs[d]]
        /\ channel' = [d \in Groups |-> SubSeq(channel[d], taken[d] + 1, Len(channel[d]))]
  BY DEF Drain
<1> DEFINE n == Cardinality(from)
<1>2. IsFiniteSet(from) /\ n \in Nat /\ n # 0
  <2>1. IsFiniteSet(Groups)
    BY FS_Interval DEF Groups
  <2> QED BY <1>1, <2>1, FS_Subset, FS_CardinalityType, FS_EmptySet
<1>3. PICK order \in [1 .. n -> from] :
        /\ \A d \in from : \E i \in 1 .. n : order[i] = d
        /\ batch' = [i \in 1 .. n |-> [group |-> order[i], step |-> Head(channel[order[i]])]]
  BY <1>1
<1>4. \A i, j \in 1 .. n : order[i] = order[j] => i = j
  <2>1. IsFiniteSet(1 .. n) /\ Cardinality(1 .. n) = n
    BY <1>2, FS_Interval
  <2>2. order \in Surjection(1 .. n, from)
    BY <1>3 DEF Surjection
  <2>3. order \in Injection(1 .. n, from)
    BY <1>2, <2>1, <2>2, FS_SurjSameCardinalityImpliesInj
  <2> QED BY <2>3 DEF Injection, IsInjective
<1> HIDE DEF n
<1>5. ASSUME NEW i \in 1 .. n PROVE Head(channel[order[i]]) \in Nat
  <2>1. order[i] \in from /\ order[i] \in Groups /\ taken[order[i]] \in 0 .. 2
        /\ taken[order[i]] > 0 /\ taken[order[i]] <= Len(channel[order[i]])
    BY <1>1, <1>3
  <2>2. PICK c \in Seq(Nat) : c = channel[order[i]]
    BY <2>1 DEF TypeRequests
  <2>3. Len(c) # 0
    BY <2>1, <2>2
  <2> QED BY <2>2, <2>3
<1>6. \A i \in 1 .. n : batch'[i] \in Requests
  BY <1>1, <1>3, <1>5 DEF Requests
<1>7. batch' \in Seq(Requests) /\ Len(batch') = n
  <2>1. batch' \in [1 .. n -> Requests]
    BY <1>3, <1>6
  <2> QED BY <1>2, <2>1, SequenceOf
<1>8. Len(batch') >= 1
  BY <1>2, <1>7
<1>9. \A i \in 1 .. n : batch'[i].group = order[i] /\ order[i] \in from
                        /\ batch'[i].step = Head(channel[order[i]])
  BY <1>3
<1>10. /\ \A i \in 1 .. Len(batch') :
            /\ batch'[i].group \in from
            /\ batch'[i].step = Head(channel[batch'[i].group])
       /\ \A d \in from : \E i \in 1 .. Len(batch') : batch'[i].group = d
       /\ \A i, j \in 1 .. Len(batch') : batch'[i].group = batch'[j].group => i = j
  <2>1. Len(batch') = n
    BY <1>7
  <2>2. \A d \in from : \E i \in 1 .. n : batch'[i].group = d
    BY <1>3, <1>9
  <2>3. \A i, j \in 1 .. n : batch'[i].group = batch'[j].group => i = j
    BY <1>4, <1>9
  <2> QED BY <1>9, <2>1, <2>2, <2>3
<1>11. DrainOf(taken, from)
  BY <1>1, <1>7, <1>8, <1>10 DEF DrainOf
<1> QED BY <1>11

LEMMA WorkerKeepsTypes ==
  ASSUME TypeRequests, TypeMemory, TypeWorker, WorkerShape, Next
  PROVE  TypeWorker' /\ WorkerShape'
<1> USE DEF TypeWorker, WorkerShape
<1>1. ASSUME Drain PROVE TypeWorker' /\ WorkerShape'
  <2>1. PICK taken \in [Groups -> 0 .. 2], from \in SUBSET Groups : DrainOf(taken, from)
    BY <1>1, DrainFacts
  <2>2.    /\ from = {d \in Groups : taken[d] > 0}
           /\ \A d \in Groups : taken[d] <= Len(channel[d])
           /\ batch' \in Seq([group : Groups, step : Nat]) /\ Len(batch') >= 1
           /\ \A i, j \in 1 .. Len(batch') : batch'[i].group = batch'[j].group => i = j
           /\ skipped' = skipped \cup {<<d, channel[d][2]>> : d \in {e \in from : taken[e] = 2}}
    BY <2>1 DEF DrainOf, Requests
  <2>3. ASSUME NEW d \in from, taken[d] = 2 PROVE channel[d][2] \in Nat
    <3>1. PICK c \in Seq(Nat) : c = channel[d]
      BY DEF TypeRequests
    <3>2. 2 \in 1 .. Len(c)
      BY <2>2, <2>3, <3>1
    <3> QED BY <3>1, <3>2
  <2>4. skipped' \subseteq Groups \X Nat
    BY <2>2, <2>3
  <2>5. wpc = "poll" /\ wpc' = "wait" /\ wlayer' = 1 /\ windex' = 1 /\ UNCHANGED <<wtarget, reading>>
    BY <1>1 DEF Drain
  <2>6. 1 \in Layers /\ Len(batch') \in Nat
    BY <2>2 DEF Layers
  <2>7. TypeWorker'
    BY <2>2, <2>4, <2>5, <2>6
  <2>8. WorkerShape'
    BY <2>2, <2>5, <2>6
  <2> QED BY <2>7, <2>8
<1>2. ASSUME WaitConsumed \/ ClaimReady PROVE TypeWorker' /\ WorkerShape'
  BY <1>2 DEF WaitConsumed, ClaimReady
<1>3. ASSUME ClaimConsumed PROVE TypeWorker' /\ WorkerShape'
  BY <1>3 DEF ClaimConsumed, MoreTargets
<1>4. ASSUME StartCompute PROVE TypeWorker' /\ WorkerShape'
  <2>1. inputs[WGroup] \in Contents
    BY <1>4, WorkerAt DEF StartCompute, TypeMemory
  <2> QED BY <1>4, <2>1 DEF StartCompute
<1>5. ASSUME EndCompute PROVE TypeWorker' /\ WorkerShape'
  BY <1>5 DEF EndCompute
<1>6. ASSUME FanOut PROVE TypeWorker' /\ WorkerShape'
  BY <1>6 DEF FanOut
<1>7. ASSUME Publish PROVE TypeWorker' /\ WorkerShape'
  <2>1. wpc = "publish" /\ UNCHANGED <<reading, skipped>> /\ Len(batch) \in Nat
    BY <1>7 DEF Publish
  <2>2. CASE MoreTargets
    BY <1>7, <2>1, <2>2 DEF Publish, MoreTargets
  <2>3. CASE ~MoreTargets /\ windex < Len(batch)
    BY <1>7, <2>1, <2>3 DEF Publish
  <2>4. CASE ~MoreTargets /\ ~(windex < Len(batch)) /\ wlayer < NumLayers
    <3>1. wlayer + 1 \in Layers
      BY <2>4 DEF Layers
    <3> QED BY <1>7, <2>1, <2>4, <3>1 DEF Publish
  <2>5. CASE ~MoreTargets /\ ~(windex < Len(batch)) /\ ~(wlayer < NumLayers)
    <3>1. 1 \in Layers
      BY DEF Layers
    <3> QED BY <1>7, <2>1, <2>5, <3>1 DEF Publish
  <2> QED BY <2>2, <2>3, <2>4, <2>5
<1>8. ASSUME NEW r \in Ranks, ModelThread(r) \/ ClaimTimeout(r) PROVE UNCHANGED worker
  BY <1>8 DEF ModelThread, BeginReal, ClaimSeen, ClaimTimeout, LaunchReal, BeginDummy,
              SignalDummy, LaunchDummy
<1>9. ASSUME NEW r \in Ranks, StreamStep(r) PROVE UNCHANGED worker
  BY <1>9 DEF StreamStep, Produce, PassEvent, WaitReady, CopyToDevice, ResetReady,
              SetConsumed, EndForward
<1>10. ASSUME NEW d \in Groups, RequestThread(d) PROVE UNCHANGED worker
  BY <1>10 DEF RequestThread, GetRequest, WaitEvent, StartCopy, EndCopy, Send
<1>11. ASSUME UNCHANGED worker PROVE TypeWorker' /\ WorkerShape'
  BY <1>11 DEF worker
<1> QED BY <1>1, <1>2, <1>3, <1>4, <1>5, <1>6, <1>7, <1>8, <1>9, <1>10, <1>11
        DEF Next, Worker

LEMMA ShapeKept ==
  ASSUME Shape, [Next]_vars
  PROVE  Shape'
<1>1. TypeThreads /\ TypeRequests /\ TypeStreams /\ TypeMemory /\ TypeWorker /\ WorkerShape
  BY TypeParts DEF Shape
<1>2. CASE Next
  <2>1. TypeThreads' /\ TypeRequests' /\ TypeStreams' /\ TypeMemory' /\ TypeWorker' /\ WorkerShape'
    BY <1>1, <1>2, ThreadsKeepTypes, RequestsKeepTypes, StreamsKeepTypes,
       MemoryKeepsTypes, WorkerKeepsTypes
  <2>2. (TypeThreads /\ TypeRequests /\ TypeStreams /\ TypeMemory /\ TypeWorker => TypeOK)'
    BY TypeParts, PTL
  <2> QED BY <2>1, <2>2 DEF Shape
<1>3. CASE UNCHANGED vars
  BY <1>3 DEF vars, threads, requests, streams, flags, worker, Shape, TypeOK, WorkerShape
<1> QED BY <1>2, <1>3

(* Every variable keeps its type, in any configuration.                    *)
THEOREM TypeCorrect == Spec => []TypeOK
<1>1. Shape /\ [Next]_vars => Shape'
  BY ShapeKept
<1>2. Shape => TypeOK
  BY DEF Shape
<1> QED BY <1>1, <1>2, InitShape, PTL DEF Spec

-----------------------------------------------------------------------------
(* The inductive invariant.  A group is being served from the moment its    *)
(* rank 0 has recorded a step until the forward of that step is over there. *)

Real(d, k) == k \in 1 .. Len(plan[d]) /\ plan[d][k] = "real"
Serving(d) == done[RankZero(d)] < recorded[d]

(* An operation on a stream belongs to a step that was executed, and whose  *)
(* forward is not over.                                                     *)
OpOf(r, x) ==
  /\ x \in Ops /\ x.step \in 1 .. Len(plan[GroupOf(r)]) /\ done[r] < x.step
  /\ plan[GroupOf(r)][x.step] # "capture"
  /\ \/ x \in ForwardOps(x.step) /\ x.step < step[r]
     \/ /\ x.op \in {"produce", "event"} /\ x.layer = 0 /\ IsRankZero(r)
        /\ x.step <= step[r] /\ (x.step = step[r] => pc[r] # "idle")
        /\ x.op = "event" => plan[GroupOf(r)][x.step] = "real"
  /\ plan[GroupOf(r)][x.step] = "dummy" =>
       \/ step[r] = x.step /\ pc[r] = "signal"
       \/ step[r] = x.step + 1 /\ pc[r] = "idle"

(* What is left of a forward is its end, and everything behind what is left.*)
RestOf(r, k) ==
  k < step[r] /\ plan[GroupOf(r)][k] # "capture" =>
    /\ done[r] >= k \/ Has(stream[r], Is("end", k, 0))
    /\ \A x, y \in ForwardOps(k) : Has(stream[r], x) /\ Pos(x) < Pos(y) => Has(stream[r], y)

StreamOf(r) ==
  /\ Sorted(stream[r])
  /\ \A x : Has(stream[r], x) => OpOf(r, x)
  /\ \A k \in 1 .. Len(plan[GroupOf(r)]) : RestOf(r, k)

(* A rank is at the recorded step, or at the one behind it, as long as the  *)
(* group is served; it is never past a step that is not recorded.           *)
StepOf(r) ==
  LET d == GroupOf(r)  n == recorded[d] IN
  /\ step[r] \in 1 .. Len(plan[d]) + 1 /\ done[r] < step[r] /\ pc[r] # "full"
  /\ pc[r] \in {"claim", "timeout"} => Real(d, step[r])
  /\ pc[r] = "signal" => step[r] \in 1 .. Len(plan[d]) /\ ~Real(d, step[r])
  /\ pc[r] \in {"claim", "timeout"} /\ step[r] > n => layer[r] = 1
  /\ pc[r] = "idle" => layer[r] = 1
  /\ step[r] > n /\ pc[r] # "idle" => ~Serving(d)
  /\ Serving(d) => step[r] \in {n, n + 1}
  /\ \A k \in 1 .. Len(plan[d]) : plan[d][k] = "real" /\ k > n => step[r] <= k

(* A forward that is over on a rank is about to be on all.                  *)
DoneOf(r) ==
  \A k \in 1 .. Len(plan[GroupOf(r)]) : plan[GroupOf(r)][k] = "real" /\ k <= done[r] =>
    \A q \in Targets(GroupOf(r)) :
      step[q] > k /\ \A x : Has(stream[q], x) /\ x.step = k => x.op = "end"

RecordedOf(d) ==
  LET n == recorded[d]  z == RankZero(d) IN
  /\ n <= step[z] /\ (n = step[z] <=> pc[z] \in {"claim", "timeout"})
  /\ n > 0 => Real(d, n)
  /\ \A k \in 1 .. Len(plan[d]) : plan[d][k] = "real" /\ k < n => done[z] >= k

(* In front of the worker is the request of the recorded step.              *)
FrontOf(d) ==
  LET n == recorded[d]  z == RankZero(d) IN
  /\ InFront(d) => Serving(d)
  /\ queue[d] # <<>> => queue[d] = <<n>> /\ staging[d] = "idle" /\ channel[d] = <<>>
  /\ staging[d] # "idle" => request[d] = n /\ channel[d] = <<>>
  /\ channel[d] # <<>> => channel[d] = <<n>> /\ inputs[d] = Data(n, FALSE)
  /\ staging[d] = "d2h" => awaited[d] = n
  /\ staging[d] = "copy" => passed[d] = n /\ awaited[d] = n
  /\ staging[d] = "send" => inputs[d] = Data(n, FALSE)
  /\ passed[d] <= n
  /\ Serving(d) =>
       /\ passed[d] = n <=> ~Has(stream[z], Is("event", n, 0))
       /\ source[d] = n \/ Has(stream[z], Is("produce", n, 0))
       /\ Has(stream[z], Is("produce", n, 0)) => Has(stream[z], Is("event", n, 0))

(* The worker's batch: of each group, the recorded step.                    *)
Unserved(i) == wlayer < NumLayers \/ i >= windex

BatchOf(i) ==
  LET d == batch[i].group IN
  Unserved(i) =>
    /\ batch[i].step = recorded[d] /\ Serving(d) /\ ~InFront(d)
    /\ StillReads(i) => inputs[d] = Data(batch[i].step, TRUE)

WorkerInv ==
  /\ \A i \in 1 .. Len(batch) : BatchOf(i)
  /\ wpc = "computing" => reading = Data(batch[windex].step, TRUE)
  /\ skipped = {}

(* The slot of a rank and a layer, in the step that is served: the worker   *)
(* has not claimed it, has claimed it, or has given it its output.          *)
Unclaimed(r, l) ==
  \/ Ahead(GroupOf(r), l)
  \/ At(GroupOf(r), l) /\ wpc \in {"ready", "consumed"} /\ r[2] >= wtarget

Served(r, l) ==
  ~Ahead(GroupOf(r), l) /\ (At(GroupOf(r), l) => wpc = "publish" /\ r[2] < wtarget)

Left(r, name, k, l) == step[r] <= k \/ Has(stream[r], Is(name, k, l))

Free(r, l, n) ==
  /\ consumed[r][l] = 1 /\ step[r] <= n
  /\ step[r] = n /\ pc[r] \in {"claim", "timeout"} => layer[r] <= l
  /\ At(GroupOf(r), l) /\ wpc = "consumed" /\ r[2] = wtarget => ready[r][l] = 0

Taken(r, l, n) ==
  /\ consumed[r][l] = 0 /\ ready[r][l] = 0 /\ Left(r, "wait", n, l)
  /\ wpc = "publish" \/ (wpc = "fanout" /\ r[2] < wtarget) => out[r][l] = Data(n, TRUE)

Given(r, l, n) ==
  /\ ready[r][l] = (IF Left(r, "reset", n, l) THEN 1 ELSE 0)
  /\ consumed[r][l] = (IF Left(r, "consume", n, l) THEN 0 ELSE 1)
  /\ Left(r, "copy", n, l) => out[r][l] = Data(n, TRUE)

SlotOf(r, l) ==
  LET n == recorded[GroupOf(r)] IN
  IF Serving(GroupOf(r))
    THEN /\ Unclaimed(r, l) => Free(r, l, n)
         /\ Served(r, l) => Given(r, l, n)
         /\ ~Unclaimed(r, l) /\ ~Served(r, l) => Taken(r, l, n)
    ELSE consumed[r][l] = 1

(* A dummy run leaves zeros for the forward that follows it.                *)
DummyOf(r) ==
  /\ pc[r] = "signal" => \A l \in Layers : l < layer[r] => out[r][l] = Nothing
  /\ \A x : Has(stream[r], x) /\ x.op = "copy" /\ plan[GroupOf(r)][x.step] = "dummy"
              => out[r][x.layer] = Nothing

(* And what a forward has copied was its own.                               *)
CopyOf(r, l) ==
  LET n == gpu[r][l].forward IN
  n > 0 => gpu[r][l].got = IF plan[GroupOf(r)][n] = "real" THEN Data(n, TRUE) ELSE Nothing

StreamInv   == \A r \in Ranks : StreamOf(r)
StepInv     == \A r \in Ranks : StepOf(r)
DoneInv     == \A r \in Ranks : DoneOf(r)
RecordedInv == \A d \in Groups : RecordedOf(d)
FrontInv    == \A d \in Groups : FrontOf(d)
SlotInv     == \A r \in Ranks, l \in Layers : SlotOf(r, l)
DummyInv    == \A r \in Ranks : DummyOf(r)

Orders == StreamInv /\ StepInv /\ DoneInv /\ RecordedInv
Inv == Shape /\ Orders /\ FrontInv /\ WorkerInv /\ SlotInv /\ DummyInv

-----------------------------------------------------------------------------
(* What the steps of the actors do, in the terms of the invariant.          *)

(* x is executed at the head of the stream of r.                            *)
Popped(r, x) ==
  /\ x \in Ops /\ Has(stream[r], x) /\ Sorted(stream'[r])
  /\ \A y : Has(stream'[r], y) <=> Has(stream[r], y) /\ y # x
  /\ \A y : Has(stream[r], y) => y = x \/ Earlier(x, y)
  /\ \A q \in Ranks : q # r => stream'[q] = stream[q]
  /\ UNCHANGED <<plan, threads, requests, recorded, inputs, out, worker>>
  /\ source' = IF x.op = "produce" THEN [source EXCEPT ![GroupOf(r)] = x.step] ELSE source
  /\ passed' = IF x.op = "event" THEN [passed EXCEPT ![GroupOf(r)] = x.step] ELSE passed
  /\ x.op = "wait" => ready[r][x.layer] = 1
  /\ gpu' = IF x.op = "copy"
              THEN [gpu EXCEPT ![r][x.layer] = [forward |-> x.step, got |-> out[r][x.layer]]]
              ELSE gpu
  /\ ready' = IF x.op = "reset" THEN [ready EXCEPT ![r][x.layer] = 0] ELSE ready
  /\ consumed' = IF x.op = "consume" THEN [consumed EXCEPT ![r][x.layer] = 1] ELSE consumed
  /\ done' = IF x.op = "end" THEN [done EXCEPT ![r] = x.step] ELSE done
  /\ x.op = "end" => \A q \in Targets(GroupOf(r)) :
       \/ done[q] >= x.step
       \/ \E y \in Ops : /\ Has(stream[q], y) /\ y.op = "end" /\ y.step = x.step
                         /\ \A v : Has(stream[q], v) => v = y \/ Earlier(y, v)

LEMMA HeadIsFirst ==
  ASSUME NEW s \in Seq(Ops), s # <<>>, Sorted(s)
  PROVE  /\ Head(s) \in Ops /\ Has(s, Head(s))
         /\ \A y : Has(s, y) => y = Head(s) \/ Earlier(Head(s), y)
<1>1. \A y : Has(s, y) => y = Head(s) \/ Has(Tail(s), y)
  BY PopStream
<1> QED BY <1>1, PopStream

LEMMA StreamStepFacts ==
  ASSUME TypeStreams, StreamInv, NEW r \in Ranks, StreamStep(r)
  PROVE  \E x \in Ops : Popped(r, x)
<1> DEFINE s == stream[r]
           x == Head(s)
<1>1. s \in Seq(Ops) /\ Sorted(s) /\ s # <<>> /\ stream' = [stream EXCEPT ![r] = Tail(s)]
  <2>1. s \in Seq(Ops) /\ Sorted(s)
    BY DEF TypeStreams, StreamInv, StreamOf
  <2> QED BY <2>1 DEF StreamStep, Produce, PassEvent, WaitReady, CopyToDevice, ResetReady,
                      SetConsumed, EndForward, Next1, Pop
<1> HIDE DEF s
<1>2. /\ x \in Ops /\ Has(s, x) /\ Sorted(Tail(s))
      /\ \A y : Has(Tail(s), y) <=> Has(s, y) /\ y # x
      /\ \A y : Has(s, y) => y = x \/ Earlier(x, y)
  BY <1>1, PopStream, HeadIsFirst
<1>3. stream'[r] = Tail(s) /\ \A q \in Ranks : q # r => stream'[q] = stream[q]
  BY <1>1 DEF TypeStreams
<1>4. UNCHANGED <<plan, threads, requests, recorded, inputs, out, worker>>
  BY DEF StreamStep, Produce, PassEvent, WaitReady, CopyToDevice, ResetReady,
         SetConsumed, EndForward
<1>5. /\ source' = IF x.op = "produce" THEN [source EXCEPT ![GroupOf(r)] = x.step] ELSE source
      /\ passed' = IF x.op = "event" THEN [passed EXCEPT ![GroupOf(r)] = x.step] ELSE passed
      /\ done' = IF x.op = "end" THEN [done EXCEPT ![r] = x.step] ELSE done
  BY DEF StreamStep, Produce, PassEvent, WaitReady, CopyToDevice, ResetReady,
         SetConsumed, EndForward, Next1, s
<1>6. /\ x.op = "wait" => ready[r][x.layer] = 1
      /\ gpu' = IF x.op = "copy"
                  THEN [gpu EXCEPT ![r][x.layer] = [forward |-> x.step, got |-> out[r][x.layer]]]
                  ELSE gpu
  BY DEF StreamStep, Produce, PassEvent, WaitReady, CopyToDevice, ResetReady,
         SetConsumed, EndForward, Next1, s
<1>7. /\ ready' = IF x.op = "reset" THEN [ready EXCEPT ![r][x.layer] = 0] ELSE ready
      /\ consumed' = IF x.op = "consume" THEN [consumed EXCEPT ![r][x.layer] = 1] ELSE consumed
  BY DEF StreamStep, Produce, PassEvent, WaitReady, CopyToDevice, ResetReady,
         SetConsumed, EndForward, Next1, s, flags, ConsumedAfterCopy
<1>8. ASSUME x.op = "end", NEW q \in Targets(GroupOf(r)), ~(done[q] >= x.step)
      PROVE  \E y \in Ops : /\ Has(stream[q], y) /\ y.op = "end" /\ y.step = x.step
                            /\ \A v : Has(stream[q], v) => v = y \/ Earlier(y, v)
  <2>1. stream[q] # <<>> /\ Head(stream[q]).op = "end" /\ Head(stream[q]).step = x.step
    BY <1>8 DEF StreamStep, Produce, PassEvent, WaitReady, CopyToDevice, ResetReady,
                SetConsumed, EndForward, Next1, s
  <2>2. stream[q] \in Seq(Ops) /\ Sorted(stream[q])
    BY DEF Targets, TypeStreams, StreamInv, StreamOf
  <2> QED BY <2>1, <2>2, HeadIsFirst
<1> HIDE DEF x
<1>9. Popped(r, x)
  BY <1>2, <1>3, <1>4, <1>5, <1>6, <1>7, <1>8 DEF Popped, s
<1> QED BY <1>2, <1>9

(* The operations of E are enqueued on the stream of r.                     *)
Pushed(r, E) ==
  /\ Sorted(stream'[r]) /\ \A y : Has(stream'[r], y) <=> Has(stream[r], y) \/ y \in E
  /\ \A q \in Ranks : q # r => stream'[q] = stream[q]

LEMMA PushFacts ==
  ASSUME TypeStreams, StreamInv, NEW r \in Ranks, NEW t \in Seq(Ops), NEW E,
         stream' = [stream EXCEPT ![r] = stream[r] \o t], Sorted(t),
         \A y : Has(t, y) <=> y \in E,
         \A x, y : Has(stream[r], x) /\ y \in E => Earlier(x, y)
  PROVE  Pushed(r, E)
<1>1. stream[r] \in Seq(Ops) /\ Sorted(stream[r])
  BY DEF TypeStreams, StreamInv, StreamOf
<1>2. stream'[r] = stream[r] \o t /\ \A q \in Ranks : q # r => stream'[q] = stream[q]
  BY DEF TypeStreams
<1>3. \A x, y : Has(stream[r], x) /\ Has(t, y) => Earlier(x, y)
  OBVIOUS
<1>4. Sorted(stream[r] \o t) /\ \A x : Has(stream[r] \o t, x) <=> Has(stream[r], x) \/ Has(t, x)
  BY <1>1, <1>3, PushStream
<1> QED BY <1>2, <1>4 DEF Pushed

(* The layers of a forward come after the preparation of its inputs.        *)
LEMMA Positions ==
  ASSUME NEW x \in Ops
  PROVE  /\ x.op \in {"produce", "event"} => Pos(x) <= 1
         /\ x \in ForwardOps(x.step) => Pos(x) >= 4 /\ Pos(x) <= 4 * NumLayers + 4
         /\ x \in ForwardOps(x.step) /\ x.op # "end" => Pos(x) < 4 * NumLayers + 4
         /\ x.op = "end" => Pos(x) = 4 * NumLayers + 4
<1>1. x.op \in {"produce", "event"} => Pos(x) <= 1
  BY DEF Pos
<1>2. x.op = "end" => Pos(x) = 4 * NumLayers + 4
  BY DEF Pos
<1>3. ASSUME x \in ForwardOps(x.step), x.op # "end"
      PROVE  Pos(x) >= 4 /\ Pos(x) < 4 * NumLayers + 4
  <2>1. x.op \in {"wait", "copy", "reset", "consume"} /\ x.layer \in 1 .. NumLayers
    BY <1>3 DEF ForwardOps, Layers
  <2>2. PICK l \in 1 .. NumLayers : l = x.layer
    BY <2>1
  <2>3. Pos(x) \in {4 * l, 4 * l + 1, 4 * l + 2, 4 * l + 3}
    BY <2>1, <2>2 DEF Pos
  <2> QED BY <2>3
<1>4. 4 * NumLayers + 4 \in Nat /\ 4 * NumLayers + 4 >= 4 /\ Pos(x) \in Nat
  BY OpIs
<1>5. CASE x.op = "end"
  BY <1>2, <1>4, <1>5
<1>6. CASE x.op # "end"
  BY <1>1, <1>3, <1>4, <1>6
<1> QED BY <1>5, <1>6

(* r launches its step: of a capture nothing is executed.                   *)
LaunchedOps(r) ==
  IF plan[GroupOf(r)][step[r]] = "capture" THEN {} ELSE ForwardOps(step[r])

Launched(r) ==
  /\ pc[r] \in {"claim", "signal"} /\ layer[r] = NumLayers + 1
  /\ pc[r] = "claim" => Real(GroupOf(r), step[r])
  /\ pc[r] = "signal" => ~Real(GroupOf(r), step[r])
  /\ step[r] \in 1 .. Len(plan[GroupOf(r)])
  /\ Pushed(r, LaunchedOps(r))
  /\ step' = [step EXCEPT ![r] = step[r] + 1]
  /\ pc' = [pc EXCEPT ![r] = "idle"] /\ layer' = [layer EXCEPT ![r] = 1]
  /\ UNCHANGED <<plan, requests, recorded, passed, source, gpu, done, inputs, out,
                 flags, worker>>

LEMMA LaunchFacts ==
  ASSUME TypeThreads, TypeStreams, StreamInv, StepInv,
         NEW r \in Ranks, LaunchReal(r) \/ LaunchDummy(r)
  PROVE  Launched(r)
<1> DEFINE d == GroupOf(r)
           k == step[r]
           E == LaunchedOps(r)
<1>1. /\ pc[r] \in {"claim", "signal"} /\ layer[r] = NumLayers + 1
      /\ step' = [step EXCEPT ![r] = step[r] + 1]
      /\ pc' = [pc EXCEPT ![r] = "idle"] /\ layer' = [layer EXCEPT ![r] = 1]
      /\ stream' = [stream EXCEPT ![r] = stream[r] \o Enqueued(r)]
      /\ UNCHANGED <<plan, requests, recorded, passed, source, gpu, done, inputs, out,
                     flags, worker>>
  BY DEF LaunchReal, LaunchDummy, Finish
<1>2. StepOf(r) /\ StreamOf(r)
  BY DEF StepInv, StreamInv
<1>3. /\ k \in 1 .. Len(plan[d]) /\ (pc[r] = "claim" => Real(d, k))
      /\ (pc[r] = "signal" => ~Real(d, k))
  BY <1>1, <1>2 DEF StepOf, Real
<1>4. k \in Nat
  BY <1>3
<1>5. Enqueued(r) \in Seq(Ops) /\ Sorted(Enqueued(r)) /\ \A y : Has(Enqueued(r), y) <=> y \in E
  <2>1. CASE Kind(r) = "capture"
    <3>1. Enqueued(r) = <<>> /\ E = {}
      BY <2>1 DEF Enqueued, LaunchedOps, Kind
    <3> QED BY <3>1, SmallStreams
  <2>2. CASE Kind(r) # "capture"
    <3>1. Enqueued(r) = Forward(r) /\ E = ForwardOps(k)
      BY <2>2 DEF Enqueued, LaunchedOps, Kind
    <3> QED BY <1>4, <3>1, ForwardFacts
  <2> QED BY <2>1, <2>2
<1>6. ASSUME NEW x, NEW y, Has(stream[r], x), y \in E PROVE Earlier(x, y)
  <2>1. y \in ForwardOps(k) /\ y \in Ops /\ y.step = k
    BY <1>6 DEF LaunchedOps, ForwardOps
  <2>2. OpOf(r, x) /\ x \in Ops /\ x.step \in Nat
    BY <1>2, <1>6, OpIs DEF StreamOf, OpOf
  <2>3. x.step < k \/ (x.step = k /\ x.op \in {"produce", "event"})
    BY <1>4, <2>2 DEF OpOf
  <2>4. CASE x.step < k
    BY <2>1, <2>4 DEF Earlier
  <2>5. CASE x.step = k /\ x.op \in {"produce", "event"}
    <3>1. Pos(x) <= 1 /\ Pos(y) >= 4 /\ Pos(x) \in Nat /\ Pos(y) \in Nat
      BY <2>1, <2>2, <2>5, Positions, OpIs
    <3> QED BY <2>1, <2>5, <3>1 DEF Earlier
  <2> QED BY <2>3, <2>4, <2>5
<1> HIDE DEF E
<1>7. Pushed(r, E)
  BY <1>1, <1>5, <1>6, PushFacts
<1> QED BY <1>1, <1>3, <1>7 DEF Launched, E

(* What the engine's dispatch guarantees of the steps before.               *)
LEMMA DispatchFacts ==
  ASSUME Setting, TypeThreads, StepInv, NEW r \in Ranks, Dispatched(r)
  PROVE  /\ step[r] \in 1 .. Len(plan[GroupOf(r)])
         /\ \A k \in 1 .. step[r] - 1 :
              plan[GroupOf(r)][k] = "real" => done[RankZero(GroupOf(r))] >= k
         /\ Kind(r) = "real" =>
              \A k \in 1 .. step[r] - 1, q \in Targets(GroupOf(r)) :
                plan[GroupOf(r)][k] = "capture" => step[q] > k
<1>1. StepOf(r)
  BY DEF StepInv
<1>2. step[r] \in 1 .. Len(plan[GroupOf(r)]) + 1 /\ step[r] <= Len(plan[GroupOf(r)])
  BY <1>1 DEF StepOf, Dispatched
<1>3. Len(plan[GroupOf(r)]) \in Nat
  BY RankFacts, PlanFacts DEF TypeThreads
<1> QED BY <1>2, <1>3 DEF Dispatched, Setting

(* Nothing of the next step is enqueued before it begins.                   *)
LEMMA IdleStream ==
  ASSUME TypeThreads, StreamInv, NEW r \in Ranks, pc[r] = "idle", NEW x, Has(stream[r], x)
  PROVE  x \in Ops /\ x.step \in Nat /\ x.step < step[r]
<1>1. OpOf(r, x)
  BY DEF StreamInv, StreamOf
<1>2. x \in Ops /\ x.step \in Nat /\ step[r] \in Nat
  BY <1>1, OpIs DEF OpOf, TypeThreads
<1> QED BY <1>1, <1>2 DEF OpOf

(* A group that is not served has no request in front of the worker.       *)
LEMMA NoRequest ==
  ASSUME FrontInv, NEW d \in Groups, ~Serving(d)
  PROVE  ~InFront(d) /\ queue[d] = <<>> /\ staging[d] = "idle" /\ channel[d] = <<>>
BY DEF FrontInv, FrontOf, InFront

(* r begins a real step.                                                   *)
BegunOps(r) ==
  IF IsRankZero(r) THEN {Is("produce", step[r], 0), Is("event", step[r], 0)} ELSE {}

Begun(r) ==
  LET d == GroupOf(r)  k == step[r] IN
  /\ pc[r] = "idle" /\ pc' = [pc EXCEPT ![r] = "claim"]
  /\ Real(d, k) /\ recorded[d] <= k
  /\ \A j \in 1 .. k - 1 : plan[d][j] = "real" => done[RankZero(d)] >= j
  /\ \A j \in 1 .. k - 1, q \in Targets(d) : plan[d][j] = "capture" => step[q] > j
  /\ Pushed(r, BegunOps(r))
  /\ IsRankZero(r) => /\ ~Serving(d)
                      /\ recorded' = [recorded EXCEPT ![d] = k]
                      /\ queue' = [queue EXCEPT ![d] = <<k>>]
  /\ ~IsRankZero(r) => recorded' = recorded /\ queue' = queue
  /\ UNCHANGED <<plan, step, layer, request, staging, awaited, channel, passed, source,
                 gpu, done, inputs, out, ready, consumed, worker>>

LEMMA BeginRealFacts ==
  ASSUME Setting, TypeThreads, TypeStreams, Orders, FrontInv, NEW r \in Ranks, BeginReal(r)
  PROVE  Begun(r)
<1> DEFINE d == GroupOf(r)
           k == step[r]
           z == RankZero(d)
<1>1. StreamInv /\ StepInv /\ RecordedInv /\ d \in Groups /\ z \in Ranks
  BY RankFacts DEF Orders
<1>2. pc[r] = "idle" /\ Dispatched(r) /\ Kind(r) = "real"
  BY DEF BeginReal
<1>3. /\ k \in 1 .. Len(plan[d])
      /\ \A j \in 1 .. k - 1 : plan[d][j] = "real" => done[z] >= j
      /\ \A j \in 1 .. k - 1, q \in Targets(d) : plan[d][j] = "capture" => step[q] > j
  BY <1>1, <1>2, DispatchFacts
<1>4. Real(d, k)
  BY <1>2, <1>3 DEF Real, Kind
<1>5. /\ UNCHANGED <<plan, step, layer, request, staging, awaited, channel, passed, source,
                     gpu, done, inputs, out, ready, consumed, worker>>
      /\ recorded' = IF IsRankZero(r) THEN [recorded EXCEPT ![d] = k] ELSE recorded
      /\ stream' = [stream EXCEPT ![r] = stream[r] \o
            (IF IsRankZero(r) THEN <<Op("produce", r, 0), Op("event", r, 0)>> ELSE <<>>)]
  BY DEF BeginReal, flags
<1>6. k \in Nat /\ done[r] \in Nat /\ recorded[d] \in Nat /\ done[z] \in Nat
      /\ Len(plan[d]) \in Nat
  BY <1>1, PlanFacts DEF TypeThreads, TypeStreams
<1>7. recorded[d] <= k
  <2>1. RecordedOf(d) /\ StepOf(r)
    BY <1>1 DEF RecordedInv, StepInv
  <2>2. recorded[d] <= step[z]
    BY <2>1 DEF RecordedOf
  <2>3. CASE recorded[d] = 0
    BY <1>6, <2>3
  <2>4. CASE recorded[d] > k
    <3>1. Real(d, recorded[d])
      BY <1>6, <2>1, <2>4 DEF RecordedOf
    <3>2. done[z] >= k
      BY <1>3, <1>4, <2>1, <2>4 DEF RecordedOf, Real
    <3>3. DoneOf(z)
      BY <1>1 DEF Orders, DoneInv
    <3>4. r \in Targets(d) /\ GroupOf(z) = d
      BY <1>1, RankFacts
    <3>5. step[r] > k
      BY <1>3, <1>4, <3>2, <3>3, <3>4 DEF DoneOf, Real
    <3> QED BY <1>6, <3>5
  <2> QED BY <1>6, <2>4
<1>8. ASSUME IsRankZero(r)
      PROVE  ~Serving(d) /\ queue[d] = <<>>
  <2>1. r = z
    BY <1>8, RankFacts
  <2>2. RecordedOf(d)
    BY <1>1 DEF RecordedInv
  <2>3. recorded[d] # k
    BY <1>2, <2>1, <2>2 DEF RecordedOf
  <2>4. recorded[d] = 0 \/ (recorded[d] \in 1 .. k - 1 /\ Real(d, recorded[d]))
    BY <1>6, <1>7, <2>2, <2>3 DEF RecordedOf
  <2>5. ~Serving(d)
    BY <1>3, <1>6, <2>4 DEF Serving, Real
  <2> QED BY <1>1, <2>5, NoRequest
<1>9. /\ pc' = [pc EXCEPT ![r] = "claim"]
      /\ queue' = IF IsRankZero(r) THEN [queue EXCEPT ![d] = <<k>>] ELSE queue
  BY <1>8 DEF BeginReal
<1>10. Pushed(r, BegunOps(r))
  <2>1. \A name : Op(name, r, 0) = Is(name, k, 0)
    BY DEF Op, Is
  <2>2. CASE ~IsRankZero(r)
    <3>1. stream' = [stream EXCEPT ![r] = stream[r] \o <<>>] /\ BegunOps(r) = {}
      BY <1>5, <2>2 DEF BegunOps
    <3>2. <<>> \in Seq(Ops)
      OBVIOUS
    <3> QED BY <1>1, <3>1, <3>2, SmallStreams, PushFacts
  <2>3. CASE IsRankZero(r)
    <3> DEFINE x == Is("produce", k, 0)
               y == Is("event", k, 0)
    <3>1. stream' = [stream EXCEPT ![r] = stream[r] \o <<x, y>>] /\ BegunOps(r) = {x, y}
      <4>1. Op("produce", r, 0) = x /\ Op("event", r, 0) = y
        BY <2>1
      <4>2. (IF IsRankZero(r) THEN <<Op("produce", r, 0), Op("event", r, 0)>> ELSE <<>>) = <<x, y>>
        BY <2>3, <4>1
      <4>3. BegunOps(r) = {x, y}
        BY <2>3 DEF BegunOps
      <4> QED BY <1>5, <4>2, <4>3
    <3>2. x \in Ops /\ y \in Ops /\ x.step = k /\ y.step = k /\ x.op = "produce" /\ y.op = "event"
      BY <1>6, IsOp DEF OpNames
    <3> HIDE DEF x, y
    <3>3. Earlier(x, y)
      BY <3>2 DEF Earlier, Pos
    <3>4. <<x, y>> \in Seq(Ops)
      BY <3>2
    <3>5. \A v : Has(<<x, y>>, v) <=> v \in {x, y}
      BY <3>2, <3>3, SmallStreams
    <3>6. \A v, w : Has(stream[r], v) /\ w \in {x, y} => Earlier(v, w)
      BY <1>1, <1>2, <3>2, IdleStream DEF Earlier
    <3>7. Sorted(<<x, y>>)
      BY <3>2, <3>3, SmallStreams
    <3>8. Pushed(r, {x, y})
      BY <1>1, <3>1, <3>4, <3>5, <3>6, <3>7, PushFacts
    <3> QED BY <3>1, <3>8
  <2> QED BY <2>2, <2>3
<1> QED BY <1>2, <1>3, <1>4, <1>5, <1>7, <1>8, <1>9, <1>10 DEF Begun

(* r begins a run of dummy inputs; before a capture its stream is empty.   *)
Warmed(r) ==
  LET d == GroupOf(r)  k == step[r] IN
  /\ pc[r] = "idle" /\ pc' = [pc EXCEPT ![r] = "signal"]
  /\ k \in 1 .. Len(plan[d]) /\ ~Real(d, k) /\ ~Serving(d) /\ recorded[d] < k
  /\ Pushed(r, IF plan[d][k] = "dummy" /\ IsRankZero(r) THEN {Is("produce", k, 0)} ELSE {})
  /\ plan[d][k] = "capture" => \A x : ~Has(stream[r], x)
  /\ UNCHANGED <<plan, step, layer, requests, recorded, passed, source, gpu, done,
                 inputs, out, ready, consumed, worker>>

LEMMA BeginDummyFacts ==
  ASSUME Setting, TypeThreads, TypeStreams, Orders, NEW r \in Ranks, BeginDummy(r)
  PROVE  Warmed(r)
<1> DEFINE d == GroupOf(r)
           k == step[r]
           z == RankZero(d)
<1>1. StreamInv /\ StepInv /\ RecordedInv /\ d \in Groups /\ z \in Ranks
  BY RankFacts DEF Orders
<1>2. pc[r] = "idle" /\ Dispatched(r) /\ Kind(r) # "real"
  BY DEF BeginDummy
<1>3. /\ k \in 1 .. Len(plan[d])
      /\ \A j \in 1 .. k - 1 : plan[d][j] = "real" => done[z] >= j
  BY <1>1, <1>2, DispatchFacts
<1>4. ~Real(d, k)
  BY <1>2 DEF Real, Kind
<1>5. k \in Nat /\ recorded[d] \in Nat /\ done[z] \in Nat
  BY <1>1 DEF TypeThreads, TypeStreams
<1>6. recorded[d] < k
  <2>1. RecordedOf(d) /\ StepOf(r) /\ DoneOf(z)
    BY <1>1 DEF RecordedInv, StepInv, Orders, DoneInv
  <2>2. CASE recorded[d] > 0
    <3>1. Real(d, recorded[d])
      BY <2>1, <2>2 DEF RecordedOf
    <3>2. recorded[d] # k
      BY <1>4, <3>1
    <3>3. CASE Serving(d)
      <4>1. k \in {recorded[d], recorded[d] + 1}
        BY <2>1, <3>3 DEF StepOf
      <4> QED BY <1>5, <3>2, <4>1
    <3>4. CASE ~Serving(d)
      <4>1. done[z] >= recorded[d]
        BY <1>5, <3>4 DEF Serving
      <4>2. r \in Targets(d) /\ GroupOf(z) = d
        BY <1>1, RankFacts
      <4>3. step[r] > recorded[d]
        BY <2>1, <3>1, <4>1, <4>2 DEF DoneOf, Real
      <4> QED BY <4>3
    <3> QED BY <3>3, <3>4
  <2> QED BY <1>3, <1>5, <2>2
<1>7. ~Serving(d)
  <2>1. RecordedOf(d)
    BY <1>1 DEF RecordedInv
  <2>2. recorded[d] = 0 \/ (recorded[d] \in 1 .. k - 1 /\ Real(d, recorded[d]))
    BY <1>5, <1>6, <2>1 DEF RecordedOf
  <2> QED BY <1>3, <1>5, <2>2 DEF Serving, Real
<1>8. Pushed(r, IF plan[d][k] = "dummy" /\ IsRankZero(r) THEN {Is("produce", k, 0)} ELSE {})
  <2>1. CASE Kind(r) = "dummy" /\ IsRankZero(r)
    <3> DEFINE x == Is("produce", k, 0)
    <3>1. stream' = [stream EXCEPT ![r] = Append(stream[r], x)]
      BY <2>1 DEF BeginDummy, Op, Is
    <3>2. x \in Ops /\ x.step = k
      BY <1>5, IsOp DEF OpNames
    <3> HIDE DEF x
    <3>3. stream[r] \in Seq(Ops)
      BY DEF TypeStreams
    <3>4. stream' = [stream EXCEPT ![r] = stream[r] \o <<x>>] /\ <<x>> \in Seq(Ops)
      <4>1. \A s \in Seq(Ops) : Append(s, x) = s \o <<x>>
        BY <3>2
      <4>2. Append(stream[r], x) = stream[r] \o <<x>>
        BY <3>3, <4>1
      <4>3. <<x>> \in Seq(Ops)
        BY <3>2
      <4> QED BY <3>1, <4>2, <4>3
    <3>5. \A v : Has(<<x>>, v) <=> v \in {x}
      BY <3>2, SmallStreams
    <3>6. \A v, w : Has(stream[r], v) /\ w \in {x} => Earlier(v, w)
      BY <1>1, <1>2, <3>2, IdleStream DEF Earlier
    <3>7. Pushed(r, {x})
      <4>1. Sorted(<<x>>)
        BY <3>2, SmallStreams
      <4> QED BY <1>1, <3>4, <3>5, <3>6, <4>1, PushFacts
    <3> QED BY <2>1, <3>7 DEF Kind, x
  <2>2. CASE ~(Kind(r) = "dummy" /\ IsRankZero(r))
    <3>1. stream' = stream
      BY <2>2 DEF BeginDummy
    <3>2. Sorted(stream[r])
      BY <1>1 DEF StreamInv, StreamOf
    <3> QED BY <2>2, <3>1, <3>2 DEF Pushed, Kind
  <2> QED BY <2>1, <2>2
<1>9. plan[d][k] = "capture" => \A x : ~Has(stream[r], x)
  BY SmallStreams DEF BeginDummy, Kind
<1>10. /\ pc' = [pc EXCEPT ![r] = "signal"]
      /\ UNCHANGED <<plan, step, layer, requests, recorded, passed, source, gpu, done,
                     inputs, out, ready, consumed, worker>>
  BY DEF BeginDummy, flags
<1> QED BY <1>2, <1>3, <1>4, <1>6, <1>7, <1>8, <1>9, <1>10 DEF Warmed

-----------------------------------------------------------------------------
(* The streams.                                                            *)

LEMMA SameStream ==
  ASSUME NEW q, StreamOf(q), plan' = plan, stream'[q] = stream[q],
         step'[q] = step[q], pc'[q] = pc[q], done'[q] = done[q]
  PROVE  StreamOf(q)'
BY DEF StreamOf, OpOf, RestOf

(* An operation of a forward has its place.                                *)
LEMMA ForwardOpsAre ==
  ASSUME NEW k \in Nat, NEW x \in ForwardOps(k)
  PROVE  x \in Ops /\ x.step = k /\ Pos(x) \in Nat /\ Pos(x) <= 4 * NumLayers + 4
         /\ Pos(x) >= 4 /\ x.op \in OpNames /\ x = Is(x.op, k, x.layer)
<1>1. x \in Ops /\ x.step = k
  BY DEF ForwardOps
<1> QED BY <1>1, Positions, OpIs

LEMMA EndOfForward ==
  ASSUME NEW k \in Nat
  PROVE  /\ Is("end", k, 0) \in ForwardOps(k) /\ Is("end", k, 0) \in Ops
         /\ Is("end", k, 0).op = "end" /\ Is("end", k, 0).step = k
         /\ Pos(Is("end", k, 0)) = 4 * NumLayers + 4
<1>1. /\ Is("end", k, 0) \in Ops /\ Is("end", k, 0).op = "end"
      /\ Is("end", k, 0).step = k /\ Is("end", k, 0).layer = 0
  BY IsOp DEF OpNames
<1> QED BY <1>1, Positions DEF ForwardOps

LEMMA StreamsOverPop ==
  ASSUME TypeThreads, TypeStreams, StreamInv, NEW r \in Ranks, NEW x \in Ops, Popped(r, x)
  PROVE  StreamInv'
<1> SUFFICES ASSUME NEW q \in Ranks PROVE StreamOf(q)'
  BY DEF StreamInv
<1>1. StreamOf(q) /\ StreamOf(r)
  BY DEF StreamInv
<1>2. plan' = plan /\ step' = step /\ pc' = pc
  BY DEF Popped, threads
<1>3. done' = IF x.op = "end" THEN [done EXCEPT ![r] = x.step] ELSE done
  BY DEF Popped
<1>4. CASE q # r
  <2>1. stream'[q] = stream[q] /\ done'[q] = done[q]
    BY <1>3, <1>4 DEF Popped, TypeStreams
  <2> QED BY <1>1, <1>2, <2>1, SameStream
<1>5. CASE q = r
  <2> DEFINE g == plan[GroupOf(r)]
  <2>1. /\ \A y : Has(stream'[r], y) <=> Has(stream[r], y) /\ y # x
        /\ \A y : Has(stream[r], y) => y = x \/ Earlier(x, y)
        /\ Has(stream[r], x) /\ Sorted(stream'[r])
    BY DEF Popped
  <2>2. /\ x.step \in 1 .. Len(g) /\ done[r] < x.step /\ x.step \in Nat /\ Pos(x) \in Nat
        /\ OpOf(r, x) /\ Len(g) \in Nat /\ done[r] \in Nat
    <3>1. GroupOf(r) \in Groups
      BY RankFacts
    <3> QED BY <1>1, <2>1, <3>1, OpIs, PlanFacts DEF StreamOf, OpOf, TypeThreads, TypeStreams
  <2>3. done'[r] = IF x.op = "end" THEN x.step ELSE done[r]
    BY <1>3 DEF TypeStreams
  <2>4. ASSUME NEW y, Has(stream'[r], y) PROVE OpOf(r, y)'
    <3>1. Has(stream[r], y) /\ y # x /\ Earlier(x, y)
      BY <2>1, <2>4
    <3>2. OpOf(r, y)
      BY <1>1, <3>1 DEF StreamOf
    <3>3. y \in Ops /\ y.step \in Nat /\ Pos(y) \in Nat
      BY <3>2, OpIs DEF OpOf
    <3>4. done'[r] < y.step
      <4>1. CASE x.op # "end"
        BY <2>3, <3>2, <4>1 DEF OpOf
      <4>2. CASE x.op = "end"
        <5>1. Pos(x) = 4 * NumLayers + 4
          BY <4>2, Positions
        <5>2. Pos(y) <= 4 * NumLayers + 4
          <6>1. y \in ForwardOps(y.step) \/ y.op \in {"produce", "event"}
            BY <3>2 DEF OpOf
          <6>2. 1 <= 4 * NumLayers + 4 /\ 4 * NumLayers + 4 \in Nat
            OBVIOUS
          <6> QED BY <3>3, <6>1, <6>2, Positions
        <5>3. 4 * NumLayers + 4 \in Nat
          OBVIOUS
        <5>4. ~(Pos(x) < Pos(y))
          BY <2>2, <3>3, <5>1, <5>2, <5>3
        <5>5. x.step < y.step
          BY <3>1, <5>4 DEF Earlier
        <5> QED BY <2>3, <4>2, <5>5
      <4> QED BY <4>1, <4>2
    <3> QED BY <1>2, <3>2, <3>4 DEF OpOf
  <2>5. ASSUME NEW k \in 1 .. Len(g) PROVE RestOf(r, k)'
    <3> SUFFICES ASSUME k < step[r], g[k] # "capture"
                 PROVE  /\ done'[r] >= k \/ Has(stream'[r], Is("end", k, 0))
                        /\ \A v, w \in ForwardOps(k) :
                             Has(stream'[r], v) /\ Pos(v) < Pos(w) => Has(stream'[r], w)
      BY <1>2 DEF RestOf
    <3>1. /\ done[r] >= k \/ Has(stream[r], Is("end", k, 0))
          /\ \A v, w \in ForwardOps(k) :
               Has(stream[r], v) /\ Pos(v) < Pos(w) => Has(stream[r], w)
      BY <1>1 DEF StreamOf, RestOf
    <3>2. k \in Nat
      BY <2>2
    <3>3. done'[r] >= k \/ Has(stream'[r], Is("end", k, 0))
      <4>1. CASE done[r] >= k
        BY <2>2, <2>3, <3>2, <4>1
      <4>2. CASE Has(stream[r], Is("end", k, 0)) /\ x # Is("end", k, 0)
        BY <2>1, <4>2
      <4>3. CASE x = Is("end", k, 0)
        BY <2>3, <3>2, <4>3, EndOfForward
      <4> QED BY <3>1, <4>1, <4>2, <4>3
    <3>4. ASSUME NEW v \in ForwardOps(k), NEW w \in ForwardOps(k),
                 Has(stream'[r], v), Pos(v) < Pos(w)
          PROVE  Has(stream'[r], w)
      <4>1. Has(stream[r], v) /\ v # x /\ Earlier(x, v)
        BY <2>1, <3>4
      <4>2. Has(stream[r], w)
        BY <3>1, <3>4, <4>1
      <4>3. w # x
        <5>1. v \in Ops /\ w \in Ops /\ v.step = k /\ w.step = k
              /\ Pos(v) \in Nat /\ Pos(w) \in Nat
          BY <3>2, ForwardOpsAre
        <5> QED BY <3>2, <3>4, <4>1, <5>1 DEF Earlier
      <4> QED BY <2>1, <4>2, <4>3
    <3> QED BY <3>3, <3>4
  <2> QED BY <1>2, <1>5, <2>1, <2>4, <2>5 DEF StreamOf
<1> QED BY <1>4, <1>5

LEMMA StreamsOverLaunch ==
  ASSUME Setting, TypeThreads, TypeStreams, Orders, NEW r \in Ranks, Launched(r)
  PROVE  StreamInv'
<1> SUFFICES ASSUME NEW q \in Ranks PROVE StreamOf(q)'
  BY DEF StreamInv
<1>1. StreamOf(q) /\ StreamOf(r) /\ StepOf(r)
  BY DEF StreamInv, StepInv, Orders
<1>2. /\ plan' = plan /\ done' = done
      /\ step' = [step EXCEPT ![r] = step[r] + 1] /\ pc' = [pc EXCEPT ![r] = "idle"]
      /\ Pushed(r, LaunchedOps(r))
  BY DEF Launched
<1>3. CASE q # r
  <2>1. stream'[q] = stream[q] /\ step'[q] = step[q] /\ pc'[q] = pc[q]
    BY <1>2, <1>3 DEF Pushed, TypeThreads
  <2> QED BY <1>1, <1>2, <2>1, SameStream
<1>4. CASE q = r
  <2> DEFINE g == plan[GroupOf(r)]
             n == step[r]
  <2>1. step'[r] = n + 1 /\ pc'[r] = "idle" /\ n \in Nat /\ done[r] \in Nat
    BY <1>2 DEF TypeThreads, TypeStreams
  <2>2. /\ Sorted(stream'[r])
        /\ \A y : Has(stream'[r], y) <=> Has(stream[r], y) \/ y \in LaunchedOps(r)
    BY <1>2 DEF Pushed
  <2>3. /\ pc[r] \in {"claim", "signal"} /\ n \in 1 .. Len(g)
        /\ (pc[r] = "claim" => Real(GroupOf(r), n))
        /\ (pc[r] = "signal" => ~Real(GroupOf(r), n)) /\ done[r] < n
    BY <1>1 DEF Launched, StepOf
  <2>4. ASSUME NEW y, Has(stream[r], y) PROVE OpOf(r, y)'
    <3>1. OpOf(r, y)
      BY <1>1, <2>4 DEF StreamOf
    <3>2. y.step \in Nat
      BY <3>1, OpIs DEF OpOf
    <3>3. g[y.step] = "dummy" => step'[r] = y.step + 1
      BY <2>1, <2>3, <3>1 DEF OpOf
    <3> QED BY <1>2, <2>1, <3>1, <3>2, <3>3 DEF OpOf
  <2>5. ASSUME NEW y, y \in LaunchedOps(r) PROVE OpOf(r, y)'
    <3>1. y \in ForwardOps(n) /\ g[n] # "capture"
      BY <2>5 DEF LaunchedOps
    <3>2. y \in Ops /\ y.step = n
      BY <2>1, <3>1, ForwardOpsAre
    <3> QED BY <1>2, <2>1, <2>3, <3>1, <3>2 DEF OpOf
  <2>6. ASSUME NEW k \in 1 .. Len(g) PROVE RestOf(r, k)'
    <3> SUFFICES ASSUME k < step'[r], g[k] # "capture"
                 PROVE  /\ done[r] >= k \/ Has(stream'[r], Is("end", k, 0))
                        /\ \A v, w \in ForwardOps(k) :
                             Has(stream'[r], v) /\ Pos(v) < Pos(w) => Has(stream'[r], w)
      BY <1>2 DEF RestOf
    <3>1. k \in Nat
      OBVIOUS
    <3>2. CASE k = n
      <4>1. LaunchedOps(r) = ForwardOps(k)
        BY <3>2 DEF LaunchedOps
      <4>2. \A w \in ForwardOps(k) : Has(stream'[r], w)
        BY <2>2, <4>1
      <4> QED BY <3>1, <4>2, EndOfForward
    <3>3. CASE k # n
      <4>1. k < n
        BY <2>1, <3>1, <3>3
      <4>2. /\ done[r] >= k \/ Has(stream[r], Is("end", k, 0))
            /\ \A v, w \in ForwardOps(k) :
                 Has(stream[r], v) /\ Pos(v) < Pos(w) => Has(stream[r], w)
        BY <1>1, <4>1 DEF StreamOf, RestOf
      <4>3. \A v \in ForwardOps(k) : v \notin LaunchedOps(r)
        <5>1. \A v \in ForwardOps(k) : v.step = k
          BY DEF ForwardOps
        <5>2. \A v \in LaunchedOps(r) : v.step = n
          BY DEF LaunchedOps, ForwardOps
        <5> QED BY <3>3, <5>1, <5>2
      <4> QED BY <2>2, <4>2, <4>3
    <3> QED BY <3>2, <3>3
  <2> QED BY <1>2, <1>4, <2>2, <2>4, <2>5, <2>6 DEF StreamOf
<1> QED BY <1>3, <1>4

LEMMA StreamsOverBegin ==
  ASSUME Setting, TypeThreads, TypeStreams, Orders, NEW r \in Ranks, Begun(r) \/ Warmed(r)
  PROVE  StreamInv'
<1> SUFFICES ASSUME NEW q \in Ranks PROVE StreamOf(q)'
  BY DEF StreamInv
<1> DEFINE g == plan[GroupOf(r)]
           n == step[r]
           E == IF Begun(r) THEN BegunOps(r)
                ELSE IF g[n] = "dummy" /\ IsRankZero(r) THEN {Is("produce", n, 0)} ELSE {}
           c == IF Begun(r) THEN "claim" ELSE "signal"
<1>1. plan \in [Groups -> Plans] /\ GroupOf(r) \in Groups /\ g \in Plans
  BY RankFacts, PlanFacts DEF TypeThreads
<1>2. StreamOf(q) /\ StreamOf(r) /\ StepOf(r)
  BY DEF StreamInv, StepInv, Orders
<1>3. /\ plan' = plan /\ done' = done /\ step' = step /\ pc' = [pc EXCEPT ![r] = c]
      /\ pc[r] = "idle" /\ Pushed(r, E)
  BY DEF Begun, Warmed
<1>4. CASE q # r
  <2>1. stream'[q] = stream[q] /\ pc'[q] = pc[q]
    BY <1>3, <1>4 DEF Pushed, TypeThreads
  <2> QED BY <1>2, <1>3, <2>1, SameStream
<1>5. CASE q = r
  <2>1. pc'[r] = c /\ n \in Nat /\ done[r] \in Nat /\ Len(g) \in Nat
    BY <1>1, <1>3, PlanFacts DEF TypeThreads, TypeStreams
  <2>2. /\ Sorted(stream'[r])
        /\ \A y : Has(stream'[r], y) <=> Has(stream[r], y) \/ y \in E
    BY <1>3 DEF Pushed
  <2>3. /\ n \in 1 .. Len(g) /\ done[r] < n /\ (Begun(r) => g[n] = "real")
        /\ (~Begun(r) => g[n] # "real") /\ (g[n] = "capture" => \A x : ~Has(stream[r], x))
    BY <1>2 DEF Begun, Warmed, Real, StepOf
  <2>4. ASSUME NEW y, Has(stream[r], y) PROVE OpOf(r, y)'
    <3>1. OpOf(r, y)
      BY <1>2, <2>4 DEF StreamOf
    <3>2. y.step \in Nat /\ y.step < n /\ y.step \in 1 .. Len(g)
      BY <1>3, <2>4, <3>1, IdleStream DEF Orders, OpOf
    <3>3. g[y.step] # "dummy"
      <4>1. SUFFICES ASSUME g[y.step] = "dummy" PROVE FALSE
        OBVIOUS
      <4>2. n = y.step + 1
        BY <1>3, <3>1, <4>1 DEF OpOf
      <4>3. g[y.step + 1] = "capture"
        BY <1>1, <2>1, <2>3, <3>2, <4>1, <4>2 DEF Setting, PlansPaired
      <4> QED BY <2>3, <2>4, <4>2, <4>3
    <3> QED BY <1>3, <2>1, <3>1, <3>2, <3>3 DEF OpOf
  <2>5. ASSUME NEW y, y \in E PROVE OpOf(r, y)'
    <3>1. IsRankZero(r) /\ g[n] # "capture"
          /\ y \in {Is("produce", n, 0), Is("event", n, 0)}
          /\ (~Begun(r) => y = Is("produce", n, 0))
      BY <2>3, <2>5 DEF BegunOps
    <3>2. y \in Ops /\ y.step = n /\ y.layer = 0 /\ y.op \in {"produce", "event"}
          /\ (y.op = "event" => Begun(r))
      BY <2>1, <3>1, IsOp DEF OpNames
    <3>3. c # "idle" /\ (g[n] = "dummy" => c = "signal")
      BY <2>3
    <3> QED BY <1>3, <2>1, <2>3, <3>1, <3>2, <3>3 DEF OpOf
  <2>6. ASSUME NEW k \in 1 .. Len(g) PROVE RestOf(r, k)'
    <3>1. RestOf(r, k)
      BY <1>2 DEF StreamOf
    <3>2. ASSUME NEW v \in ForwardOps(k) PROVE v \notin E
      <4>1. v.op \notin {"produce", "event"}
        BY DEF ForwardOps
      <4>2. \A y \in E : y.op \in {"produce", "event"}
        BY <2>1, IsOp DEF BegunOps, OpNames
      <4> QED BY <4>1, <4>2
    <3>3. Is("end", k, 0) \in ForwardOps(k)
      BY EndOfForward
    <3> QED BY <1>3, <2>2, <3>1, <3>2, <3>3 DEF RestOf
  <2> QED BY <1>3, <1>5, <2>2, <2>4, <2>5, <2>6 DEF StreamOf
<1> QED BY <1>4, <1>5

-----------------------------------------------------------------------------
(* The steps of the ranks.                                                 *)

LEMMA DoneGrows ==
  ASSUME TypeThreads, TypeStreams, StreamInv, NEW r \in Ranks, NEW x \in Ops, Popped(r, x)
  PROVE  /\ \A q \in Ranks : done'[q] \in Nat /\ done'[q] >= done[q]
         /\ \A q \in Ranks : q # r \/ x.op # "end" => done'[q] = done[q]
         /\ x.op = "end" => done'[r] = x.step /\ done[r] < x.step /\ x.step < step[r]
         /\ \A d \in Groups : Serving(d)' => Serving(d)
<1>1. OpOf(r, x)
  BY DEF StreamInv, StreamOf, Popped
<1>2. x.step \in Nat
  BY OpIs
<1>3. x.op = "end" => done[r] < x.step /\ x.step < step[r]
  BY <1>1 DEF OpOf
<1>4. done' = IF x.op = "end" THEN [done EXCEPT ![r] = x.step] ELSE done
  BY DEF Popped
<1>5. \A q \in Ranks : done[q] \in Nat
  BY DEF TypeStreams
<1>6. \A q \in Ranks : done'[q] = IF q = r /\ x.op = "end" THEN x.step ELSE done[q]
  BY <1>4 DEF TypeStreams
<1>7. \A q \in Ranks : done'[q] \in Nat /\ done'[q] >= done[q]
  BY <1>2, <1>3, <1>5, <1>6
<1>8. ASSUME NEW d \in Groups, Serving(d)' PROVE Serving(d)
  <2>1. RankZero(d) \in Ranks /\ recorded' = recorded /\ recorded[d] \in Nat
    BY RankFacts DEF Popped, TypeStreams
  <2> QED BY <1>5, <1>7, <1>8, <2>1 DEF Serving
<1> QED BY <1>3, <1>6, <1>7, <1>8

LEMMA StepsOverPop ==
  ASSUME TypeThreads, TypeStreams, Orders, NEW r \in Ranks, NEW x \in Ops, Popped(r, x)
  PROVE  StepInv' /\ RecordedInv'
<1>1. StreamInv /\ StepInv /\ RecordedInv
  BY DEF Orders
<1>2. plan' = plan /\ step' = step /\ pc' = pc /\ layer' = layer /\ recorded' = recorded
  BY DEF Popped, threads
<1>3. /\ \A q \in Ranks : done'[q] >= done[q] /\ done'[q] \in Nat /\ done[q] \in Nat
      /\ \A q \in Ranks : q # r \/ x.op # "end" => done'[q] = done[q]
      /\ x.op = "end" => done'[r] < step[r]
      /\ \A d \in Groups : Serving(d)' => Serving(d)
  BY <1>1, DoneGrows DEF TypeStreams
<1>4. ASSUME NEW q \in Ranks PROVE StepOf(q)'
  <2>1. StepOf(q) /\ GroupOf(q) \in Groups
    BY <1>1, RankFacts DEF StepInv
  <2>2. done'[q] < step[q]
    BY <1>3, <2>1 DEF StepOf
  <2>3. Serving(GroupOf(q))' => Serving(GroupOf(q))
    BY <1>3, <2>1
  <2> HIDE DEF Serving
  <2> QED BY <1>2, <2>1, <2>2, <2>3 DEF StepOf, Real
<1>5. ASSUME NEW d \in Groups PROVE RecordedOf(d)'
  <2>1. RecordedOf(d) /\ RankZero(d) \in Ranks
    BY <1>1, RankFacts DEF RecordedInv
  <2>2. \A k \in 1 .. Len(plan[d]) : done[RankZero(d)] >= k => done'[RankZero(d)] >= k
    BY <1>3, <2>1
  <2> QED BY <1>2, <2>1, <2>2 DEF RecordedOf, Real
<1> QED BY <1>4, <1>5 DEF StepInv, RecordedInv

LEMMA DoneOverPop ==
  ASSUME TypeThreads, TypeStreams, Orders, NEW r \in Ranks, NEW x \in Ops, Popped(r, x)
  PROVE  DoneInv'
<1> SUFFICES ASSUME NEW q \in Ranks PROVE DoneOf(q)'
  BY DEF DoneInv
<1>1. StreamInv /\ StepInv /\ DoneInv /\ DoneOf(q)
  BY DEF Orders, DoneInv
<1>2. plan' = plan /\ step' = step
  BY DEF Popped, threads
<1>3. /\ \A p \in Ranks : p # r \/ x.op # "end" => done'[p] = done[p]
      /\ x.op = "end" => done'[r] = x.step /\ done[r] < x.step /\ x.step < step[r]
  BY <1>1, DoneGrows
<1>4. \A p \in Ranks : \A y : Has(stream'[p], y) => Has(stream[p], y)
  BY DEF Popped
<1>5. CASE q # r \/ x.op # "end"
  <2>1. done'[q] = done[q]
    BY <1>3, <1>5
  <2>2. \A p \in Targets(GroupOf(q)) : p \in Ranks
    BY RankFacts
  <2> QED BY <1>1, <1>2, <1>4, <2>1, <2>2 DEF DoneOf
<1>6. CASE q = r /\ x.op = "end"
  <2> DEFINE d == GroupOf(r)
  <2> SUFFICES ASSUME NEW k \in 1 .. Len(plan[d]), plan[d][k] = "real", k <= x.step,
                      NEW p \in Targets(d)
               PROVE  /\ step[p] > k
                      /\ \A y : Has(stream'[p], y) /\ y.step = k => y.op = "end"
    BY <1>2, <1>3, <1>6 DEF DoneOf
  <2>1. p \in Ranks /\ GroupOf(p) = d /\ d \in Groups /\ p \in Targets(GroupOf(p))
    BY RankFacts
  <2>2. k \in Nat /\ x.step \in Nat /\ Len(plan[d]) \in Nat /\ done[p] \in Nat /\ done[r] \in Nat
        /\ step[p] \in Nat
    BY <2>1, OpIs, PlanFacts DEF TypeThreads, TypeStreams
  <2>3. CASE k <= done[p]
    <3>1. DoneOf(p)
      BY <1>1, <2>1 DEF DoneInv
    <3> QED BY <1>4, <2>1, <2>3, <3>1 DEF DoneOf
  <2>4. CASE k <= done[r]
    BY <1>1, <1>4, <1>6, <2>1, <2>4 DEF DoneOf
  <2>5. CASE k > done[r] /\ k < x.step
    <3>1. StreamOf(r) /\ k < step[r]
      BY <1>1, <1>3, <1>6, <2>2, <2>5 DEF StreamInv, TypeThreads
    <3>2. Has(stream[r], Is("end", k, 0))
      BY <2>2, <2>5, <3>1 DEF StreamOf, RestOf
    <3>3. Is("end", k, 0) = x \/ Earlier(x, Is("end", k, 0))
      BY <3>2 DEF Popped
    <3> QED BY <2>2, <2>5, <3>3, EndOfForward DEF Earlier
  <2>6. CASE k = x.step /\ k > done[p]
    <3>1. PICK y \in Ops : /\ Has(stream[p], y) /\ y.op = "end" /\ y.step = k
                           /\ \A v : Has(stream[p], v) => v = y \/ Earlier(y, v)
      <4>1. ~(done[p] >= x.step)
        BY <2>2, <2>6
      <4>2. \E y \in Ops : /\ Has(stream[p], y) /\ y.op = "end" /\ y.step = x.step
                           /\ \A v : Has(stream[p], v) => v = y \/ Earlier(y, v)
        BY <1>6, <4>1 DEF Popped
      <4> QED BY <2>6, <4>2
    <3>2. StreamOf(p)
      BY <1>1, <2>1 DEF StreamInv
    <3>3. OpOf(p, y)
      BY <3>1, <3>2 DEF StreamOf
    <3>4. step[p] > k
      BY <2>2, <3>1, <3>3 DEF OpOf
    <3>5. ASSUME NEW v, Has(stream[p], v), v.step = k PROVE v.op = "end"
      <4>1. OpOf(p, v)
        BY <3>2, <3>5 DEF StreamOf
      <4>2. v \in Ops /\ Pos(v) \in Nat /\ Pos(y) \in Nat /\ Pos(y) = 4 * NumLayers + 4
        BY <3>1, <4>1, OpIs, Positions DEF OpOf
      <4>3. v = y \/ Pos(y) < Pos(v)
        BY <2>2, <3>1, <3>5 DEF Earlier
      <4>4. Pos(v) <= 1 \/ Pos(v) <= 4 * NumLayers + 4
        BY <4>1, <4>2, Positions DEF OpOf
      <4>5. 4 * NumLayers + 4 \in Nat /\ 1 < 4 * NumLayers + 4
        OBVIOUS
      <4> QED BY <3>1, <4>2, <4>3, <4>4, <4>5
    <3> QED BY <1>4, <2>1, <3>4, <3>5
  <2> QED BY <2>2, <2>3, <2>4, <2>5, <2>6
<1> QED BY <1>5, <1>6

LEMMA StepsOverLaunch ==
  ASSUME TypeThreads, TypeStreams, Orders, NEW r \in Ranks, Launched(r)
  PROVE  StepInv' /\ RecordedInv' /\ DoneInv'
<1> DEFINE d == GroupOf(r)
           n == recorded[d]
           k == step[r]
<1>1. /\ StepOf(r) /\ d \in Groups /\ RecordedOf(d) /\ r \in Targets(d)
      /\ StepInv /\ RecordedInv /\ DoneInv /\ RankZero(d) \in Ranks
  BY RankFacts DEF Orders, StepInv, RecordedInv
<1>2. /\ plan' = plan /\ recorded' = recorded /\ done' = done
      /\ step'[r] = k + 1 /\ pc'[r] = "idle" /\ layer'[r] = 1
      /\ \A q \in Ranks : q # r => step'[q] = step[q] /\ pc'[q] = pc[q] /\ layer'[q] = layer[q]
  BY DEF Launched, TypeThreads
<1>3. k \in Nat /\ n \in Nat /\ done[r] \in Nat /\ Len(plan[d]) \in Nat /\ done[RankZero(d)] \in Nat
  BY <1>1, PlanFacts DEF TypeThreads, TypeStreams
<1>4. /\ pc[r] \in {"claim", "signal"} /\ layer[r] = NumLayers + 1 /\ k \in 1 .. Len(plan[d])
      /\ (pc[r] = "claim" => plan[d][k] = "real") /\ (pc[r] = "signal" => plan[d][k] # "real")
  BY DEF Launched, Real
<1>5. \A e \in Groups : Serving(e)' = Serving(e)
  BY <1>2 DEF Serving
<1>6. ASSUME pc[r] = "claim" PROVE StepOf(r)' /\ RecordedOf(d)'
  <2>1. k <= n
    <3>1. k > n => layer[r] = 1
      BY <1>1, <1>6 DEF StepOf
    <3>2. NumLayers + 1 # 1
      OBVIOUS
    <3> QED BY <1>3, <1>4, <3>1, <3>2
  <2>2. StepOf(r)'
    <3>1. Serving(d) => k = n
      BY <1>1, <1>3, <2>1 DEF StepOf
    <3>2. Serving(d)' => k = n
      BY <1>1, <1>5, <3>1
    <3>3. \A j \in 1 .. Len(plan[d]) : plan[d][j] = "real" /\ j > n => k + 1 <= j
      BY <1>3, <2>1
    <3>4. k + 1 \in 1 .. Len(plan[d]) + 1 /\ done[r] < k + 1
      BY <1>1, <1>3, <1>4 DEF StepOf
    <3>5. k = n => k + 1 = n + 1
      OBVIOUS
    <3> HIDE DEF Serving
    <3> QED BY <1>2, <3>2, <3>3, <3>4, <3>5 DEF StepOf
  <2>3. RecordedOf(d)'
    <3>1. CASE r = RankZero(d)
      <4>1. n = k
        BY <1>1, <1>6, <3>1 DEF RecordedOf
      <4>2. n <= k + 1 /\ n # k + 1
        BY <1>3, <4>1
      <4> QED BY <1>1, <1>2, <3>1, <4>2 DEF RecordedOf, Real
    <3>2. CASE r # RankZero(d)
      BY <1>1, <1>2, <3>2 DEF RecordedOf, Real
    <3> QED BY <3>1, <3>2
  <2> QED BY <2>2, <2>3
<1>7. ASSUME pc[r] = "signal" PROVE StepOf(r)' /\ RecordedOf(d)'
  <2>1. StepOf(r)'
    <3>1. ~Serving(d)
      <4>1. SUFFICES ASSUME Serving(d) PROVE FALSE
        OBVIOUS
      <4>2. k = n \/ k = n + 1
        BY <1>1, <4>1 DEF StepOf
      <4>3. n > 0
        BY <1>1, <1>3, <4>1 DEF Serving
      <4>4. k # n
        BY <1>1, <1>4, <1>7, <4>3 DEF RecordedOf, Real
      <4>5. k > n => ~Serving(d)
        BY <1>1, <1>7 DEF StepOf
      <4> QED BY <1>3, <4>1, <4>2, <4>4, <4>5
    <3>2. ~Serving(d)'
      BY <1>1, <1>5, <3>1
    <3>3. \A j \in 1 .. Len(plan[d]) : plan[d][j] = "real" /\ j > n => k + 1 <= j
      <4>1. \A j \in 1 .. Len(plan[d]) : plan[d][j] = "real" /\ j > n => k <= j /\ j # k
        BY <1>1, <1>4, <1>7 DEF StepOf
      <4> QED BY <1>3, <4>1
    <3>4. k + 1 \in 1 .. Len(plan[d]) + 1 /\ done[r] < k + 1
      BY <1>1, <1>3, <1>4 DEF StepOf
    <3> HIDE DEF Serving
    <3> QED BY <1>2, <3>2, <3>3, <3>4 DEF StepOf
  <2>2. RecordedOf(d)'
    <3>1. CASE r = RankZero(d)
      <4>1. n <= k
        BY <1>1, <3>1 DEF RecordedOf
      <4>2. n <= k + 1 /\ n # k + 1
        BY <1>3, <4>1
      <4> QED BY <1>1, <1>2, <3>1, <4>2 DEF RecordedOf, Real
    <3>2. CASE r # RankZero(d)
      BY <1>1, <1>2, <3>2 DEF RecordedOf, Real
    <3> QED BY <3>1, <3>2
  <2> QED BY <2>1, <2>2
<1>8. ASSUME NEW q \in Ranks PROVE StepOf(q)'
  <2>1. CASE q # r
    <3>1. StepOf(q) /\ GroupOf(q) \in Groups
      BY <1>1, RankFacts DEF StepInv
    <3>2. Serving(GroupOf(q))' = Serving(GroupOf(q))
      BY <1>5, <3>1
    <3> HIDE DEF Serving
    <3> QED BY <1>2, <2>1, <3>1, <3>2 DEF StepOf, Real
  <2> QED BY <1>4, <1>6, <1>7, <2>1
<1>9. ASSUME NEW e \in Groups PROVE RecordedOf(e)'
  <2>1. CASE e # d
    <3>1. RecordedOf(e) /\ RankZero(e) \in Ranks /\ RankZero(e) # r
      BY <1>1, <2>1, RankFacts DEF RecordedInv
    <3> QED BY <1>2, <3>1 DEF RecordedOf, Real
  <2> QED BY <1>4, <1>6, <1>7, <2>1
<1>10. ASSUME NEW q \in Ranks PROVE DoneOf(q)'
  <2>1. DoneOf(q) /\ \A p \in Targets(GroupOf(q)) : p \in Ranks /\ GroupOf(p) = GroupOf(q)
    BY <1>1, RankFacts DEF DoneInv
  <2> SUFFICES ASSUME NEW j \in 1 .. Len(plan[GroupOf(q)]), plan[GroupOf(q)][j] = "real",
                      j <= done[q], NEW p \in Targets(GroupOf(q))
               PROVE  /\ step'[p] > j
                      /\ \A y : Has(stream'[p], y) /\ y.step = j => y.op = "end"
    BY <1>2 DEF DoneOf
  <2>2. step[p] > j /\ \A y : Has(stream[p], y) /\ y.step = j => y.op = "end"
    BY <2>1 DEF DoneOf
  <2>3. CASE p # r
    BY <1>2, <2>1, <2>2, <2>3 DEF Launched, Pushed
  <2>4. CASE p = r
    <3>1. k > j /\ k + 1 > j
      BY <1>3, <2>2, <2>4
    <3>2. \A y \in LaunchedOps(r) : y.step = k
      BY DEF LaunchedOps, ForwardOps
    <3>3. \A y : Has(stream'[r], y) => Has(stream[r], y) \/ y \in LaunchedOps(r)
      BY DEF Launched, Pushed
    <3>4. k # j
      BY <1>3, <3>1
    <3> QED BY <1>2, <2>2, <2>4, <3>1, <3>2, <3>3, <3>4
  <2> QED BY <2>3, <2>4
<1> QED BY <1>8, <1>9, <1>10 DEF StepInv, RecordedInv, DoneInv

LEMMA StepsOverWarmUp ==
  ASSUME TypeThreads, TypeStreams, Orders, NEW r \in Ranks, Warmed(r)
  PROVE  StepInv' /\ RecordedInv' /\ DoneInv'
<1> DEFINE d == GroupOf(r)
           n == recorded[d]
           k == step[r]
<1>1. /\ StepOf(r) /\ d \in Groups /\ RecordedOf(d) /\ r \in Targets(d)
      /\ StepInv /\ RecordedInv /\ DoneInv /\ RankZero(d) \in Ranks
  BY RankFacts DEF Orders, StepInv, RecordedInv
<1>2. /\ plan' = plan /\ recorded' = recorded /\ done' = done /\ step' = step /\ layer' = layer
      /\ pc[r] = "idle" /\ pc'[r] = "signal" /\ \A q \in Ranks : q # r => pc'[q] = pc[q]
      /\ k \in 1 .. Len(plan[d]) /\ ~Real(d, k) /\ ~Serving(d)
  BY DEF Warmed, TypeThreads
<1>3. \A e \in Groups : Serving(e)' = Serving(e)
  BY <1>2 DEF Serving
<1>4. ASSUME NEW q \in Ranks PROVE StepOf(q)'
  <2>1. StepOf(q) /\ GroupOf(q) \in Groups
    BY <1>1, RankFacts DEF StepInv
  <2>2. Serving(GroupOf(q))' = Serving(GroupOf(q))
    BY <1>3, <2>1
  <2> HIDE DEF Serving
  <2>3. CASE q # r
    BY <1>2, <2>1, <2>2, <2>3 DEF StepOf, Real
  <2>4. CASE q = r
    BY <1>2, <2>1, <2>2, <2>4 DEF StepOf, Real
  <2> QED BY <2>3, <2>4
<1>5. ASSUME NEW e \in Groups PROVE RecordedOf(e)'
  <2>1. RecordedOf(e) /\ RankZero(e) \in Ranks
    BY <1>1, RankFacts DEF RecordedInv
  <2>2. pc'[RankZero(e)] \in {"claim", "timeout"} <=> pc[RankZero(e)] \in {"claim", "timeout"}
    BY <1>2, <2>1
  <2> QED BY <1>2, <2>1, <2>2 DEF RecordedOf, Real
<1>6. ASSUME NEW q \in Ranks PROVE DoneOf(q)'
  <2>1. DoneOf(q) /\ \A p \in Targets(GroupOf(q)) : p \in Ranks /\ GroupOf(p) = GroupOf(q)
    BY <1>1, RankFacts DEF DoneInv
  <2> SUFFICES ASSUME NEW j \in 1 .. Len(plan[GroupOf(q)]), plan[GroupOf(q)][j] = "real",
                      j <= done[q], NEW p \in Targets(GroupOf(q))
               PROVE  /\ step[p] > j
                      /\ \A y : Has(stream'[p], y) /\ y.step = j => y.op = "end"
    BY <1>2 DEF DoneOf
  <2>2. step[p] > j /\ \A y : Has(stream[p], y) /\ y.step = j => y.op = "end"
    BY <2>1 DEF DoneOf
  <2>3. CASE p # r
    BY <2>1, <2>2, <2>3 DEF Warmed, Pushed
  <2>4. CASE p = r
    <3>1. k \in Nat /\ k # j
      BY <2>1, <2>2, <2>4 DEF TypeThreads
    <3>2. \A y : Has(stream'[r], y) => Has(stream[r], y) \/ y.step = k
      BY <3>1, IsOp DEF Warmed, Pushed, OpNames
    <3> QED BY <2>2, <2>4, <3>1, <3>2
  <2> QED BY <2>3, <2>4
<1> QED BY <1>4, <1>5, <1>6 DEF StepInv, RecordedInv, DoneInv

(* When rank 0 records a step, every rank of its group is about to run it.  *)
LEMMA AllAtTheStep ==
  ASSUME Setting, TypeThreads, TypeStreams, Orders, NEW r \in Ranks, Begun(r), IsRankZero(r)
  PROVE  /\ recorded[GroupOf(r)] < step[r] /\ step[r] \in Nat
         /\ \A q \in Targets(GroupOf(r)) : q \in Ranks /\ step[q] = step[r]
<1> DEFINE d == GroupOf(r)
           n == recorded[d]
           k == step[r]
<1>1. /\ StepInv /\ d \in Groups /\ RecordedOf(d) /\ r = RankZero(d) /\ DoneOf(r)
  BY RankFacts DEF Orders, RecordedInv, DoneInv
<1>2. /\ pc[r] = "idle" /\ Real(d, k) /\ n <= k
      /\ \A j \in 1 .. k - 1 : plan[d][j] = "real" => done[r] >= j
      /\ \A j \in 1 .. k - 1, q \in Targets(d) : plan[d][j] = "capture" => step[q] > j
  BY <1>1 DEF Begun
<1>3. k \in Nat /\ n \in Nat /\ Len(plan[d]) \in Nat /\ plan[d] \in Plans
      /\ \A j \in 1 .. Len(plan[d]) : plan[d][j] \in {"capture", "dummy", "real"}
  BY <1>1, PlanFacts DEF TypeThreads, TypeStreams
<1>4. n < k
  BY <1>1, <1>2, <1>3 DEF RecordedOf
<1>5. ASSUME NEW q \in Targets(d) PROVE q \in Ranks /\ step[q] = k
  <2>1. q \in Ranks /\ GroupOf(q) = d /\ q \in Targets(GroupOf(r))
    BY <1>1, RankFacts
  <2>2. StepOf(q) /\ step[q] \in Nat
    BY <1>1, <2>1 DEF StepInv, TypeThreads
  <2>3. step[q] <= k
    BY <1>2, <1>4, <2>1, <2>2 DEF StepOf, Real
  <2>4. step[q] >= k
    <3>1. CASE k = 1
      BY <1>3, <2>1, <2>2, <3>1 DEF StepOf
    <3>2. CASE k > 1
      <4> DEFINE j == k - 1
      <4>1. j \in 1 .. k - 1 /\ j \in 1 .. Len(plan[d]) /\ j + 1 = k /\ j < Len(plan[d])
        BY <1>2, <1>3, <3>2 DEF Real
      <4> HIDE DEF j
      <4>2. CASE plan[d][j] = "capture"
        <5>1. step[q] > j
          BY <1>2, <4>1, <4>2
        <5> QED BY <1>3, <2>2, <4>1, <5>1
      <4>3. CASE plan[d][j] = "real"
        <5>1. done[r] >= j
          BY <1>2, <4>1, <4>3
        <5>2. step[q] > j
          BY <1>1, <2>1, <4>1, <4>3, <5>1 DEF DoneOf
        <5> QED BY <1>3, <2>2, <4>1, <5>2
      <4>4. CASE plan[d][j] = "dummy"
        <5>1. plan[d][j + 1] = "capture"
          BY <1>3, <4>1, <4>4 DEF Setting, PlansPaired
        <5> QED BY <1>2, <4>1, <5>1 DEF Real
      <4> QED BY <1>3, <4>1, <4>2, <4>3, <4>4
    <3>3. k >= 1
      BY <1>2, <1>3 DEF Real
    <3> QED BY <1>3, <3>1, <3>2, <3>3
  <2> QED BY <1>3, <2>1, <2>2, <2>3, <2>4
<1> QED BY <1>3, <1>4, <1>5

LEMMA StepsOverBegin ==
  ASSUME Setting, TypeThreads, TypeStreams, Orders, NEW r \in Ranks, Begun(r)
  PROVE  StepInv' /\ RecordedInv' /\ DoneInv'
<1> DEFINE d == GroupOf(r)
           n == recorded[d]
           k == step[r]
           z == RankZero(d)
<1>1. /\ StepOf(r) /\ d \in Groups /\ RecordedOf(d) /\ r \in Targets(d)
      /\ StepInv /\ RecordedInv /\ DoneInv /\ z \in Ranks /\ GroupOf(z) = d
      /\ (IsRankZero(r) <=> r = z) /\ StepOf(z)
  BY RankFacts DEF Orders, StepInv, RecordedInv
<1>2. /\ plan' = plan /\ done' = done /\ step' = step /\ layer' = layer
      /\ pc[r] = "idle" /\ pc'[r] = "claim" /\ \A q \in Ranks : q # r => pc'[q] = pc[q]
      /\ Real(d, k) /\ n <= k
      /\ \A j \in 1 .. k - 1 : plan[d][j] = "real" => done[z] >= j
  BY DEF Begun, TypeThreads
<1>3. k \in Nat /\ n \in Nat /\ done[z] \in Nat /\ Len(plan[d]) \in Nat
  BY <1>1, PlanFacts DEF TypeThreads, TypeStreams
<1>4. \A e \in Groups : e # d => recorded'[e] = recorded[e]
  BY DEF Begun, TypeStreams
<1>5. \A e \in Groups : e # d => Serving(e)' = Serving(e)
  BY <1>2, <1>4 DEF Serving
<1>6. ASSUME IsRankZero(r), NEW q \in Targets(d) PROVE StepOf(q)'
  <2>1. recorded'[d] = k /\ n < k /\ q \in Ranks /\ step[q] = k /\ GroupOf(q) = d
    <3>1. n < k /\ q \in Ranks /\ step[q] = k
      BY <1>6, AllAtTheStep
    <3>2. recorded'[d] = k
      BY <1>1, <1>6 DEF Begun, TypeStreams
    <3> QED BY <1>1, <3>1, <3>2, RankFacts
  <2>2. StepOf(q)
    BY <1>1, <2>1 DEF StepInv
  <2>3. pc'[q] \in {"claim", "timeout"} => Real(d, k)
    BY <1>2
  <2>4. pc'[q] # "idle" => pc[q] # "idle" \/ q = r
    BY <1>2, <2>1
  <2>5. ~(k > recorded'[d]) /\ \A j \in 1 .. Len(plan[d]) : j > recorded'[d] => k <= j
    BY <1>3, <2>1
  <2>6. pc'[q] # "full" /\ (pc'[q] = "signal" => pc[q] = "signal")
        /\ (pc'[q] = "idle" => pc[q] = "idle")
    BY <1>2, <2>1, <2>2 DEF StepOf
  <2>7. k \in {recorded'[d], recorded'[d] + 1}
    BY <2>1
  <2> QED BY <1>2, <2>1, <2>2, <2>3, <2>5, <2>6, <2>7 DEF StepOf, Real
<1>7. ASSUME ~IsRankZero(r), NEW q \in Targets(d) PROVE StepOf(q)'
  <2>1. recorded' = recorded /\ q \in Ranks /\ GroupOf(q) = d
    BY <1>1, <1>7, RankFacts DEF Begun
  <2>2. StepOf(q)
    BY <1>1, <2>1 DEF StepInv
  <2>3. k > n => ~Serving(d)
    <3>1. SUFFICES ASSUME k > n, Serving(d) PROVE FALSE
      OBVIOUS
    <3>2. n > 0 /\ n \in 1 .. k - 1 /\ Real(d, n)
      BY <1>1, <1>3, <3>1 DEF Serving, RecordedOf
    <3> QED BY <1>2, <1>3, <3>1, <3>2 DEF Serving, Real
  <2>4. Serving(d)' = Serving(d)
    BY <1>2, <2>1 DEF Serving
  <2> HIDE DEF Serving
  <2>5. CASE q # r
    BY <1>2, <2>1, <2>2, <2>4, <2>5 DEF StepOf, Real
  <2>6. CASE q = r
    BY <1>2, <2>1, <2>2, <2>3, <2>4, <2>6 DEF StepOf, Real
  <2> QED BY <2>5, <2>6
<1>8. ASSUME NEW q \in Ranks PROVE StepOf(q)'
  <2>1. CASE GroupOf(q) = d
    <3>1. q \in Targets(d)
      BY <2>1, RankFacts
    <3> QED BY <1>6, <1>7, <3>1
  <2>2. CASE GroupOf(q) # d
    <3>1. StepOf(q) /\ GroupOf(q) \in Groups /\ q # r
      BY <1>1, <2>2, RankFacts DEF StepInv
    <3>2. Serving(GroupOf(q))' = Serving(GroupOf(q)) /\ recorded'[GroupOf(q)] = recorded[GroupOf(q)]
      BY <1>4, <1>5, <2>2, <3>1
    <3> HIDE DEF Serving
    <3> QED BY <1>2, <3>1, <3>2 DEF StepOf, Real
  <2> QED BY <2>1, <2>2
<1>9. ASSUME NEW e \in Groups PROVE RecordedOf(e)'
  <2>1. CASE e # d
    <3>1. RecordedOf(e) /\ RankZero(e) \in Ranks /\ RankZero(e) # r
      BY <1>1, <2>1, RankFacts DEF RecordedInv
    <3> QED BY <1>2, <1>4, <2>1, <3>1 DEF RecordedOf, Real
  <2>2. CASE e = d /\ IsRankZero(r)
    <3>1. recorded'[d] = k /\ r = z
      BY <1>1, <2>2 DEF Begun, TypeStreams
    <3>2. \A j \in 1 .. Len(plan[d]) : j < k => j \in 1 .. k - 1
      BY <1>3
    <3> QED BY <1>2, <2>2, <3>1, <3>2 DEF RecordedOf, Real
  <2>3. CASE e = d /\ ~IsRankZero(r)
    <3>1. recorded' = recorded /\ r # z
      BY <1>1, <2>3 DEF Begun
    <3> QED BY <1>1, <1>2, <2>3, <3>1 DEF RecordedOf, Real
  <2> QED BY <2>1, <2>2, <2>3
<1>10. ASSUME NEW q \in Ranks PROVE DoneOf(q)'
  <2>1. DoneOf(q) /\ \A p \in Targets(GroupOf(q)) : p \in Ranks /\ GroupOf(p) = GroupOf(q)
    BY <1>1, RankFacts DEF DoneInv
  <2> SUFFICES ASSUME NEW j \in 1 .. Len(plan[GroupOf(q)]), plan[GroupOf(q)][j] = "real",
                      j <= done[q], NEW p \in Targets(GroupOf(q))
               PROVE  /\ step[p] > j
                      /\ \A y : Has(stream'[p], y) /\ y.step = j => y.op = "end"
    BY <1>2 DEF DoneOf
  <2>2. step[p] > j /\ \A y : Has(stream[p], y) /\ y.step = j => y.op = "end"
    BY <2>1 DEF DoneOf
  <2>3. CASE p # r
    BY <2>1, <2>2, <2>3 DEF Begun, Pushed
  <2>4. CASE p = r
    <3>1. k # j
      BY <1>3, <2>2, <2>4
    <3>2. \A y \in BegunOps(r) : y.step = k
      BY <1>3, IsOp DEF BegunOps, OpNames
    <3>3. \A y : Has(stream'[r], y) => Has(stream[r], y) \/ y \in BegunOps(r)
      BY DEF Begun, Pushed
    <3> QED BY <2>2, <2>4, <3>1, <3>2, <3>3
  <2> QED BY <2>3, <2>4
<1> QED BY <1>8, <1>9, <1>10 DEF StepInv, RecordedInv, DoneInv

(* A claim is seen only of the step that is served.                        *)
LEMMA ClaimIsServed ==
  ASSUME TypeThreads, TypeStreams, Orders, SlotInv, NEW r \in Ranks, pc[r] = "claim",
         layer[r] <= NumLayers, consumed[r][layer[r]] = 0
  PROVE  /\ Serving(GroupOf(r)) /\ step[r] = recorded[GroupOf(r)] /\ layer[r] \in Layers
<1> DEFINE d == GroupOf(r)
<1>1. d \in Groups /\ StepOf(r) /\ step[r] \in Nat /\ recorded[d] \in Nat
      /\ layer[r] \in 1 .. NumLayers + 1
  BY RankFacts DEF Orders, StepInv, TypeThreads, TypeStreams
<1>2. layer[r] \in Layers
  BY <1>1 DEF Layers
<1>3. Serving(d)
  BY <1>2 DEF SlotInv, SlotOf
<1>4. step[r] = recorded[d] \/ step[r] = recorded[d] + 1
  BY <1>1, <1>3 DEF StepOf
<1>5. ~(step[r] > recorded[d])
  BY <1>1, <1>3 DEF StepOf
<1> QED BY <1>1, <1>2, <1>3, <1>4, <1>5

LEMMA OrdersOverClaim ==
  ASSUME TypeThreads, TypeStreams, Orders, SlotInv, NEW r \in Ranks,
         ClaimSeen(r) \/ ClaimTimeout(r) \/ SignalDummy(r)
  PROVE  Orders'
<1>1. StreamInv /\ StepInv /\ RecordedInv /\ DoneInv
  BY DEF Orders
<1>2. /\ plan' = plan /\ done' = done /\ step' = step /\ recorded' = recorded /\ stream' = stream
      /\ \A q \in Ranks : q # r => pc'[q] = pc[q] /\ layer'[q] = layer[q]
      /\ pc'[r] = pc[r] \/ (pc[r] = "claim" /\ pc'[r] = "timeout")
      /\ layer'[r] = layer[r] \/ pc'[r] # "idle"
      /\ pc[r] # "idle" /\ pc'[r] # "idle" /\ pc'[r] # "full"
  BY DEF ClaimSeen, ClaimTimeout, SignalDummy, streams, TypeThreads
<1>3. /\ pc'[r] \in {"claim", "timeout"} <=> pc[r] \in {"claim", "timeout"}
      /\ pc'[r] = "signal" <=> pc[r] = "signal"
  BY <1>2
<1>4. layer'[r] = layer[r] \/ pc[r] = "signal" \/ ~(step[r] > recorded[GroupOf(r)])
  <2>1. CASE ClaimSeen(r)
    <3>1. pc[r] = "claim" /\ layer[r] <= NumLayers /\ consumed[r][layer[r]] = 0
      BY <2>1 DEF ClaimSeen, Claimed
    <3>2. step[r] = recorded[GroupOf(r)] /\ step[r] \in Nat
      BY <3>1, ClaimIsServed DEF TypeThreads
    <3> QED BY <3>2
  <2>2. CASE ClaimTimeout(r) \/ SignalDummy(r)
    BY <2>2 DEF ClaimTimeout, SignalDummy
  <2> QED BY <2>1, <2>2
<1>5. ASSUME NEW q \in Ranks PROVE StreamOf(q)'
  <2>1. StreamOf(q)
    BY <1>1 DEF StreamInv
  <2>2. CASE q # r
    BY <1>2, <2>1, <2>2, SameStream
  <2>3. CASE q = r
    <3>1. ASSUME NEW y, OpOf(r, y) PROVE OpOf(r, y)'
      BY <1>2, <1>3, <3>1 DEF OpOf
    <3>2. ASSUME NEW k, RestOf(r, k) PROVE RestOf(r, k)'
      BY <1>2, <3>2 DEF RestOf
    <3> QED BY <1>2, <2>1, <2>3, <3>1, <3>2 DEF StreamOf
  <2> QED BY <2>2, <2>3
<1>6. \A e \in Groups : Serving(e)' = Serving(e)
  BY <1>2 DEF Serving
<1>7. ASSUME NEW q \in Ranks PROVE StepOf(q)'
  <2>1. StepOf(q) /\ GroupOf(q) \in Groups
    BY <1>1, RankFacts DEF StepInv
  <2>2. Serving(GroupOf(q))' = Serving(GroupOf(q))
    BY <1>6, <2>1
  <2> HIDE DEF Serving
  <2>3. CASE q # r
    BY <1>2, <2>1, <2>2, <2>3 DEF StepOf, Real
  <2>4. CASE q = r
    <3>1. pc'[r] \in {"claim", "timeout"} /\ step[r] > recorded[GroupOf(r)] => layer'[r] = 1
      BY <1>3, <1>4, <2>1, <2>4 DEF StepOf
    <3> QED BY <1>2, <1>3, <2>1, <2>2, <2>4, <3>1 DEF StepOf, Real
  <2> QED BY <2>3, <2>4
<1>8. ASSUME NEW e \in Groups PROVE RecordedOf(e)'
  <2>1. RecordedOf(e) /\ RankZero(e) \in Ranks
    BY <1>1, RankFacts DEF RecordedInv
  <2>2. pc'[RankZero(e)] \in {"claim", "timeout"} <=> pc[RankZero(e)] \in {"claim", "timeout"}
    BY <1>2, <1>3, <2>1
  <2> QED BY <1>2, <2>1, <2>2 DEF RecordedOf, Real
<1>9. DoneInv'
  BY <1>1, <1>2 DEF DoneInv, DoneOf
<1> QED BY <1>5, <1>7, <1>8, <1>9 DEF Orders, StreamInv, StepInv, RecordedInv

(* While a group is served, its streams hold nothing but operations of the  *)
(* recorded step, and ends of earlier steps that rank 0 has left.           *)
LEMMA ServedStream ==
  ASSUME Setting, TypeThreads, TypeStreams, Orders, NEW r \in Ranks, Serving(GroupOf(r)),
         NEW x, Has(stream[r], x)
  PROVE  /\ x \in Ops /\ x.step \in Nat /\ OpOf(r, x) /\ Real(GroupOf(r), x.step)
         /\ \/ x.step = recorded[GroupOf(r)]
            \/ x.step < recorded[GroupOf(r)] /\ x.op = "end" /\ ~IsRankZero(r)
<1> DEFINE d == GroupOf(r)
           n == recorded[d]
           z == RankZero(d)
           k == x.step
<1>1. /\ StepOf(r) /\ d \in Groups /\ RecordedOf(d) /\ r \in Targets(d) /\ DoneOf(z)
      /\ z \in Ranks /\ GroupOf(z) = d /\ (IsRankZero(r) <=> r = z) /\ OpOf(r, x)
  BY RankFacts DEF Orders, StepInv, RecordedInv, DoneInv, StreamInv, StreamOf
<1>2. x \in Ops /\ k \in Nat
  BY <1>1, OpIs DEF OpOf
<1>3. /\ n \in Nat /\ step[r] \in Nat /\ done[z] \in Nat /\ plan[d] \in Plans
      /\ Len(plan[d]) \in Nat /\ k \in 1 .. Len(plan[d]) /\ plan[d][k] # "capture"
      /\ plan[d][k] \in {"capture", "dummy", "real"}
  BY <1>1, PlanFacts DEF TypeThreads, TypeStreams, OpOf
<1>4. n > 0 /\ Real(d, n)
  BY <1>1, <1>3 DEF Serving, RecordedOf
<1>5. (step[r] = n \/ step[r] = n + 1) /\ (step[r] > n => pc[r] = "idle")
  BY <1>1 DEF StepOf
<1>6. plan[d][k] # "dummy"
  <2> SUFFICES ASSUME plan[d][k] = "dummy" PROVE FALSE
    OBVIOUS
  <2>1. k # n
    BY <1>4 DEF Real
  <2>2. (step[r] = k /\ pc[r] = "signal") \/ (step[r] = k + 1 /\ pc[r] = "idle")
    BY <1>1 DEF OpOf
  <2>3. CASE step[r] = k /\ pc[r] = "signal"
    BY <1>2, <1>3, <1>5, <2>1, <2>3
  <2>4. CASE step[r] = k + 1 /\ pc[r] = "idle"
    <3>1. k + 1 = n
      BY <1>2, <1>3, <1>5, <2>1, <2>4
    <3>2. k < Len(plan[d])
      BY <1>2, <1>3, <1>4, <3>1 DEF Real
    <3>3. plan[d][k + 1] = "capture"
      BY <1>3, <3>2 DEF Setting, PlansPaired
    <3> QED BY <1>4, <3>1, <3>3 DEF Real
  <2> QED BY <2>2, <2>3, <2>4
<1>7. plan[d][k] = "real" /\ Real(d, k)
  BY <1>3, <1>6 DEF Real
<1>8. k <= n
  BY <1>1, <1>2, <1>3, <1>5 DEF OpOf
<1>9. ASSUME k < n PROVE x.op = "end" /\ r # z
  <2>1. done[z] >= k
    BY <1>1, <1>3, <1>7, <1>9 DEF RecordedOf
  <2>2. x.op = "end"
    BY <1>1, <1>3, <1>7, <2>1 DEF DoneOf
  <2>3. r # z
    BY <1>1, <1>2, <1>3, <2>1 DEF OpOf
  <2> QED BY <2>2, <2>3
<1> QED BY <1>1, <1>2, <1>3, <1>7, <1>8, <1>9

(* Of the orders, nothing else is disturbed.                               *)
LEMMA OrdersKept ==
  ASSUME Setting, Inv, Next
  PROVE  Orders'
<1>1. /\ TypeThreads /\ TypeStreams /\ Orders /\ StreamInv /\ StepInv /\ FrontInv /\ SlotInv
  BY TypeParts DEF Inv, Shape, Orders
<1>2. ASSUME NEW r \in Ranks, BeginReal(r) PROVE Orders'
  BY <1>1, <1>2, BeginRealFacts, StreamsOverBegin, StepsOverBegin DEF Orders
<1>3. ASSUME NEW r \in Ranks, BeginDummy(r) PROVE Orders'
  BY <1>1, <1>3, BeginDummyFacts, StreamsOverBegin, StepsOverWarmUp DEF Orders
<1>4. ASSUME NEW r \in Ranks, LaunchReal(r) \/ LaunchDummy(r) PROVE Orders'
  BY <1>1, <1>4, LaunchFacts, StreamsOverLaunch, StepsOverLaunch DEF Orders
<1>5. ASSUME NEW r \in Ranks, ClaimSeen(r) \/ ClaimTimeout(r) \/ SignalDummy(r) PROVE Orders'
  BY <1>1, <1>5, OrdersOverClaim
<1>6. ASSUME NEW r \in Ranks, StreamStep(r) PROVE Orders'
  BY <1>1, <1>6, StreamStepFacts, StreamsOverPop, StepsOverPop, DoneOverPop DEF Orders
<1>7. ASSUME UNCHANGED <<plan, threads, streams>> PROVE Orders'
  <2>1. /\ plan' = plan /\ step' = step /\ pc' = pc /\ layer' = layer
        /\ stream' = stream /\ recorded' = recorded /\ done' = done
    BY <1>7 DEF threads, streams
  <2>2. ASSUME NEW q \in Ranks PROVE StreamOf(q)' /\ StepOf(q)' /\ DoneOf(q)'
    <3>1. StreamOf(q) /\ StepOf(q) /\ DoneOf(q)
      BY <1>1 DEF Orders, StreamInv, StepInv, DoneInv
    <3>2. StreamOf(q)'
      BY <2>1, <3>1, SameStream
    <3>3. StepOf(q)'
      BY <2>1, <3>1 DEF StepOf, Serving, Real
    <3>4. DoneOf(q)'
      BY <2>1, <3>1 DEF DoneOf
    <3> QED BY <3>2, <3>3, <3>4
  <2>3. ASSUME NEW d \in Groups PROVE RecordedOf(d)'
    BY <1>1, <2>1 DEF Orders, RecordedInv, RecordedOf, Real
  <2> QED BY <2>2, <2>3 DEF Orders, StreamInv, StepInv, DoneInv, RecordedInv
<1>8. ASSUME NEW d \in Groups, RequestThread(d) PROVE UNCHANGED <<plan, threads, streams>>
  BY <1>8 DEF RequestThread, GetRequest, WaitEvent, StartCopy, EndCopy, Send
<1>9. ASSUME Worker PROVE UNCHANGED <<plan, threads, streams>>
  BY <1>9 DEF Worker, Drain, WaitConsumed, ClaimReady, ClaimConsumed, StartCompute,
              EndCompute, FanOut, Publish
<1> QED BY <1>2, <1>3, <1>4, <1>5, <1>6, <1>7, <1>8, <1>9 DEF Next, ModelThread

(* When the forward of rank 0 ends, every rank has its output of every      *)
(* layer and has given the buffer back; the worker has left the group.      *)
LEMMA EndOfService ==
  ASSUME Setting, Inv, NEW r \in Ranks, IsRankZero(r), NEW x \in Ops, Popped(r, x),
         x.op = "end", Serving(GroupOf(r))
  PROVE  /\ x.step = recorded[GroupOf(r)] /\ ~InFront(GroupOf(r))
         /\ \A q \in Targets(GroupOf(r)), l \in Layers : consumed[q][l] = 1
         /\ \A i \in 1 .. Len(batch) : Unserved(i) => batch[i].group # GroupOf(r)
<1> DEFINE d == GroupOf(r)
           n == recorded[d]
<1>1. /\ TypeThreads /\ TypeStreams /\ TypeWorker /\ WorkerShape /\ Orders /\ StreamInv
      /\ SlotInv /\ d \in Groups /\ r \in Targets(d)
  BY TypeParts, RankFacts DEF Inv, Shape, Orders
<1>2. x.step = n /\ n \in Nat /\ Real(d, n)
  BY <1>1, ServedStream DEF Popped, TypeStreams
<1>3. DoneOf(r)' /\ done'[r] = n /\ plan' = plan /\ step' = step
  <2>1. DoneInv'
    BY <1>1, DoneOverPop
  <2> QED BY <1>1, <1>2, <2>1, DoneGrows DEF DoneInv, Popped, threads
<1>4. ASSUME NEW q \in Targets(d)
      PROVE  /\ q \in Ranks /\ step[q] > n /\ step[q] \in Nat
             /\ \A y : Has(stream[q], y) /\ y.step = n => y.op = "end"
  <2>1. q \in Ranks /\ step[q] \in Nat
    BY <1>1, RankFacts DEF TypeThreads
  <2>2. step[q] > n /\ \A y : Has(stream'[q], y) /\ y.step = n => y.op = "end"
    BY <1>2, <1>3 DEF DoneOf, Real
  <2>3. \A y : Has(stream[q], y) => y = x \/ Has(stream'[q], y)
    BY <2>1 DEF Popped
  <2> QED BY <2>1, <2>2, <2>3
<1>5. ASSUME NEW q \in Targets(d), NEW l \in Layers
      PROVE  Served(q, l) /\ ~Unclaimed(q, l) /\ consumed[q][l] = 1
  <2>1. q \in Ranks /\ GroupOf(q) = d /\ SlotOf(q, l)
    BY <1>1, <1>4, RankFacts DEF SlotInv
  <2>2. l \in 0 .. NumLayers
    BY DEF Layers
  <2>3. ~Left(q, "wait", n, l) /\ ~Left(q, "consume", n, l)
    <3>1. \A name \in OpNames : Is(name, n, l).step = n /\ Is(name, n, l).op = name
      BY <1>2, <2>2, IsOp
    <3>2. ~(step[q] <= n)
      BY <1>2, <1>4
    <3>3. "wait" \in OpNames /\ "consume" \in OpNames
      BY DEF OpNames
    <3> QED BY <1>4, <3>1, <3>2, <3>3 DEF Left
  <2>4. ~Unclaimed(q, l)
    <3>1. Unclaimed(q, l) => step[q] <= n
      BY <2>1 DEF SlotOf, Free
    <3> QED BY <1>2, <1>4, <3>1
  <2>5. Served(q, l)
    BY <2>1, <2>3, <2>4 DEF SlotOf, Taken
  <2>6. consumed[q][l] = 1
    BY <2>1, <2>3, <2>5 DEF SlotOf, Given
  <2> QED BY <2>4, <2>5, <2>6
<1>6. NumLayers \in Layers /\ NumLayers \in Nat
  BY DEF Layers
<1>7. ~InFront(d)
  BY <1>1, <1>5, <1>6 DEF Unclaimed, Ahead
<1>8. ASSUME NEW i \in 1 .. Len(batch), Unserved(i), batch[i].group = d PROVE FALSE
  <2>1. ~Ahead(d, NumLayers)
    BY <1>1, <1>5, <1>6 DEF Served
  <2>2. wpc # "poll" /\ wlayer \in Nat /\ wlayer <= NumLayers /\ windex \in Nat /\ i \in Nat
    BY <1>1 DEF TypeWorker, WorkerShape, Layers
  <2>3. wlayer = NumLayers /\ i = windex /\ wpc # "wait"
    BY <1>6, <1>8, <2>1, <2>2 DEF Ahead, Unserved
  <2>4. At(d, NumLayers)
    BY <1>8, <2>2, <2>3 DEF At, WGroup
  <2>5. PICK q \in Targets(d) : q[2] = TpSize - 1 /\ GroupOf(q) = d
    <3>1. TpSize - 1 \in 0 .. TpSize - 1
      OBVIOUS
    <3>2. /\ <<d, TpSize - 1>> \in Targets(d) /\ <<d, TpSize - 1>>[2] = TpSize - 1
          /\ GroupOf(<<d, TpSize - 1>>) = d
      BY <1>1, <3>1, RankFacts
    <3> QED BY <3>2
  <2>6. wpc = "publish" /\ TpSize - 1 < wtarget
    BY <1>5, <1>6, <2>4, <2>5 DEF Served
  <2>7. wtarget < TpSize /\ wtarget \in Nat
    BY <1>1, <2>6 DEF WorkerShape, TypeWorker
  <2> QED BY <2>6, <2>7
<1> QED BY <1>2, <1>5, <1>7, <1>8

-----------------------------------------------------------------------------
(* The request on its way.                                                 *)

LEMMA SameFront ==
  ASSUME NEW d, FrontOf(d), queue'[d] = queue[d], staging'[d] = staging[d],
         request'[d] = request[d], awaited'[d] = awaited[d], channel'[d] = channel[d],
         inputs'[d] = inputs[d], recorded'[d] = recorded[d], passed'[d] = passed[d],
         source'[d] = source[d], Serving(d)' = Serving(d),
         \A name \in {"produce", "event"} :
           Has(stream'[RankZero(d)], Is(name, recorded[d], 0)) <=>
             Has(stream[RankZero(d)], Is(name, recorded[d], 0))
  PROVE  FrontOf(d)'
<1> DEFINE z == RankZero(d)
           n == recorded[d]
<1>1. /\ Has(stream'[z], Is("produce", n, 0)) <=> Has(stream[z], Is("produce", n, 0))
      /\ Has(stream'[z], Is("event", n, 0)) <=> Has(stream[z], Is("event", n, 0))
  OBVIOUS
<1> HIDE DEF Serving, Has, Is, RankZero, Data
<1>2. InFront(d)' = InFront(d)
  BY DEF InFront
<1> HIDE DEF InFront
<1> QED BY <1>1, <1>2 DEF FrontOf

LEMMA FrontOverPop ==
  ASSUME Setting, Inv, NEW r \in Ranks, NEW x \in Ops, Popped(r, x)
  PROVE  FrontInv'
<1> SUFFICES ASSUME NEW d \in Groups PROVE FrontOf(d)'
  BY DEF FrontInv
<1> DEFINE z == RankZero(d)
           n == recorded[d]
           P == Is("produce", n, 0)
           E == Is("event", n, 0)
<1>1. /\ TypeThreads /\ TypeStreams /\ Orders /\ StreamInv /\ FrontOf(d) /\ z \in Ranks
      /\ GroupOf(z) = d /\ IsRankZero(z) /\ n \in Nat /\ x.step \in Nat
  BY TypeParts, RankFacts, OpIs DEF Inv, Shape, Orders, FrontInv, TypeStreams
<1>2. /\ queue' = queue /\ staging' = staging /\ request' = request /\ awaited' = awaited
      /\ channel' = channel /\ inputs' = inputs /\ recorded' = recorded
  BY DEF Popped, requests
<1>3. /\ source' = IF x.op = "produce" THEN [source EXCEPT ![GroupOf(r)] = x.step] ELSE source
      /\ passed' = IF x.op = "event" THEN [passed EXCEPT ![GroupOf(r)] = x.step] ELSE passed
      /\ \A y : Has(stream'[r], y) <=> Has(stream[r], y) /\ y # x
      /\ \A y : Has(stream[r], y) => y = x \/ Earlier(x, y)
      /\ \A q \in Ranks : q # r => stream'[q] = stream[q]
      /\ Has(stream[r], x)
  BY DEF Popped
<1>4. OpOf(r, x)
  BY <1>1, <1>3 DEF StreamInv, StreamOf
<1>5. /\ P.op = "produce" /\ P.step = n /\ P.layer = 0 /\ P \in Ops
      /\ E.op = "event" /\ E.step = n /\ E.layer = 0 /\ E \in Ops
  BY <1>1, IsOp DEF OpNames
<1> HIDE DEF P, E
<1>6. CASE r # z
  <2>1. Serving(d)' = Serving(d)
    <3>1. done'[z] = done[z]
      BY <1>1, <1>6, DoneGrows
    <3> QED BY <1>2, <3>1 DEF Serving
  <2>2. x.op \in {"produce", "event"} => GroupOf(r) # d
    <3>1. x.op \in {"produce", "event"} => IsRankZero(r)
      BY <1>4 DEF OpOf, ForwardOps
    <3> QED BY <1>6, <3>1, RankFacts
  <2>3. source'[d] = source[d] /\ passed'[d] = passed[d]
    BY <1>3, <2>2 DEF TypeStreams
  <2>4. stream'[z] = stream[z]
    BY <1>1, <1>3, <1>6
  <2> HIDE DEF Serving
  <2> QED BY <1>1, <1>2, <2>1, <2>3, <2>4, SameFront
<1>7. CASE r = z /\ ~Serving(d)
  <2>1. ~Serving(d)'
    BY <1>1, <1>7, DoneGrows
  <2>2. passed'[d] <= n
    <3>1. CASE x.op # "event"
      BY <1>1, <1>3, <3>1 DEF FrontOf
    <3>2. CASE x.op = "event"
      <4>1. /\ plan[d][x.step] = "real" /\ x.step \in 1 .. Len(plan[d]) /\ x.step <= step[z]
            /\ (x.step = step[z] => pc[z] # "idle")
        BY <1>1, <1>4, <1>7, <3>2 DEF OpOf, ForwardOps
      <4>2. StepOf(z) /\ RecordedOf(d) /\ step[z] \in Nat
        BY <1>1 DEF Orders, StepInv, RecordedInv, TypeThreads
      <4>3. CASE x.step > n
        <5>1. step[z] <= x.step
          BY <1>1, <4>1, <4>2, <4>3 DEF StepOf
        <5>2. step[z] = x.step
          BY <1>1, <4>1, <4>2, <5>1
        <5>3. pc[z] # "idle" /\ pc[z] # "full" /\ pc[z] # "signal"
          BY <1>1, <4>1, <4>2, <5>2 DEF StepOf, Real
        <5>4. pc[z] \in {"claim", "timeout"}
          BY <1>1, <5>3 DEF TypeThreads
        <5>5. n = step[z]
          BY <4>2, <5>4 DEF RecordedOf
        <5> QED BY <1>1, <4>3, <5>2, <5>5
      <4>4. passed'[d] = x.step
        BY <1>1, <1>3, <1>7, <3>2 DEF TypeStreams
      <4> QED BY <1>1, <4>3, <4>4
    <3> QED BY <3>1, <3>2
  <2>3. queue[d] = <<>> /\ staging[d] = "idle" /\ channel[d] = <<>>
    BY <1>1, <1>7 DEF FrontOf, InFront
  <2> HIDE DEF Serving
  <2> QED BY <1>2, <2>1, <2>2, <2>3 DEF FrontOf, InFront
<1>8. CASE r = z /\ Serving(d)
  <2>1. x.step = n /\ Real(d, n)
    BY <1>1, <1>3, <1>8, ServedStream
  <2>2. x.layer = 0 /\ x.op \in {"produce", "event"} => x = P \/ x = E
    BY <2>1, OpIs DEF P, E
  <2>3. x.op \in {"produce", "event"} => x.layer = 0
    BY <1>4 DEF OpOf, ForwardOps
  <2>4. CASE x.op \notin {"produce", "event", "end"}
    <3>1. Serving(d)' = Serving(d)
      <4>1. done' = done
        BY <2>4 DEF Popped
      <4> QED BY <1>2, <4>1 DEF Serving
    <3>2. source' = source /\ passed' = passed /\ x # P /\ x # E
      BY <1>3, <1>5, <2>4
    <3>3. \A name \in {"produce", "event"} :
            Has(stream'[z], Is(name, n, 0)) <=> Has(stream[z], Is(name, n, 0))
      BY <1>3, <1>8, <3>2 DEF P, E
    <3> HIDE DEF Serving
    <3> QED BY <1>1, <1>2, <3>1, <3>2, <3>3, SameFront
  <2>5. CASE x.op = "end"
    <3>1. ~InFront(d)
      BY <1>1, <1>8, <2>5, EndOfService
    <3>2. ~Serving(d)'
      <4>1. done'[z] = n
        BY <1>1, <1>8, <2>1, <2>5, DoneGrows
      <4> QED BY <1>1, <1>2, <4>1 DEF Serving
    <3>3. passed' = passed
      BY <1>3, <2>5
    <3> HIDE DEF Serving
    <3> QED BY <1>1, <1>2, <3>1, <3>2, <3>3 DEF FrontOf, InFront
  <2>6. CASE x.op = "produce"
    <3>1. x = P
      BY <1>5, <2>2, <2>3, <2>6
    <3>2. source'[d] = n /\ passed' = passed /\ done' = done
      BY <1>1, <1>3, <1>8, <2>1, <2>6 DEF TypeStreams, Popped
    <3>3. Serving(d)' /\ (Has(stream'[z], E) <=> Has(stream[z], E)) /\ ~Has(stream'[z], P)
      <4>1. E # P
        BY <1>5
      <4> QED BY <1>2, <1>3, <1>8, <3>1, <3>2, <4>1 DEF Serving
    <3>4. InFront(d)' = InFront(d)
      BY <1>2 DEF InFront
    <3> HIDE DEF Serving, InFront, Has
    <3> QED BY <1>1, <1>2, <1>8, <3>2, <3>3, <3>4 DEF FrontOf, P, E
  <2>7. CASE x.op = "event"
    <3>1. x = E
      BY <1>5, <2>2, <2>3, <2>7
    <3>2. passed'[d] = n /\ source' = source /\ done' = done
      BY <1>1, <1>3, <1>8, <2>1, <2>7 DEF TypeStreams, Popped
    <3>3. Serving(d)' /\ ~Has(stream'[z], E)
      BY <1>2, <1>3, <1>8, <3>1, <3>2 DEF Serving
    <3>4. ~Has(stream[z], P)
      <4>1. Has(stream[z], P) => P = E \/ Earlier(E, P)
        BY <1>3, <1>8, <3>1
      <4>2. ~Earlier(E, P)
        BY <1>1, <1>5 DEF Earlier, Pos
      <4> QED BY <1>5, <4>1, <4>2
    <3>5. ~Has(stream'[z], P)
      BY <1>3, <1>8, <3>4
    <3>6. InFront(d)' = InFront(d)
      BY <1>2 DEF InFront
    <3> HIDE DEF Serving, InFront, Has
    <3>7. source[d] = n
      BY <1>1, <1>8, <3>4 DEF FrontOf, P
    <3>8. passed'[d] = n /\ source'[d] = n /\ passed'[d] <= n
      BY <1>1, <3>2, <3>7
    <3> QED BY <1>1, <1>2, <1>8, <3>3, <3>5, <3>6, <3>8 DEF FrontOf, P, E
  <2> QED BY <2>4, <2>5, <2>6, <2>7
<1> QED BY <1>6, <1>7, <1>8

LEMMA FrontOverThreads ==
  ASSUME Setting, Inv, NEW r \in Ranks, Launched(r) \/ Begun(r) \/ Warmed(r)
  PROVE  FrontInv'
<1> SUFFICES ASSUME NEW d \in Groups PROVE FrontOf(d)'
  BY DEF FrontInv
<1> DEFINE z == RankZero(d)
           n == recorded[d]
<1>1. /\ TypeThreads /\ TypeStreams /\ Orders /\ FrontInv /\ FrontOf(d) /\ z \in Ranks
      /\ GroupOf(z) = d /\ IsRankZero(z) /\ n \in Nat /\ step[r] \in Nat /\ RecordedOf(d)
  <2>1. TypeThreads /\ TypeStreams /\ Orders /\ FrontInv
    BY TypeParts DEF Inv, Shape
  <2>2. z \in Ranks /\ GroupOf(z) = d /\ IsRankZero(z)
    BY RankFacts
  <2>3. n \in Nat /\ step[r] \in Nat
    BY <2>1 DEF TypeStreams, TypeThreads
  <2>4. FrontOf(d) /\ RecordedOf(d)
    BY <2>1 DEF Orders, FrontInv, RecordedInv
  <2> QED BY <2>1, <2>2, <2>3, <2>4
<1>2. /\ UNCHANGED <<request, staging, awaited, channel, inputs, passed, source, done>>
      /\ plan' = plan
  BY DEF Launched, Begun, Warmed, requests
<1>3. \A q \in Ranks : q # r => stream'[q] = stream[q]
  BY DEF Launched, Begun, Warmed, Pushed
<1>4. n > 0 => Real(d, n)
  BY <1>1 DEF RecordedOf
<1>5. \A name \in {"produce", "event"} :
        Is(name, n, 0).op = name /\ Is(name, n, 0).step = n
  BY <1>1, IsOp DEF OpNames
<1>6. CASE Begun(r) /\ r = z
  <2> DEFINE k == step[z]
             P == Is("produce", k, 0)
             E == Is("event", k, 0)
  <2>1. /\ recorded'[d] = k /\ queue'[d] = <<k>> /\ queue'[d] # <<>> /\ ~Serving(d) /\ n < k
        /\ \A y : y \in {P, E} => Has(stream'[z], y)
    <3>1. n < k /\ ~Serving(d)
      BY <1>1, <1>6, AllAtTheStep DEF Begun
    <3>2. recorded'[d] = k /\ queue' = [queue EXCEPT ![d] = <<k>>]
      BY <1>1, <1>6 DEF Begun, TypeStreams
    <3>3. \A y : y \in {P, E} => Has(stream'[z], y)
      BY <1>1, <1>6 DEF Begun, Pushed, BegunOps
    <3>4. queue \in [Groups -> Seq(Nat)]
      BY TypeParts DEF Inv, Shape, TypeRequests
    <3> QED BY <3>1, <3>2, <3>3, <3>4
  <2>2. staging[d] = "idle" /\ channel[d] = <<>> /\ passed[d] <= n /\ passed[d] \in Nat
    BY <1>1, <2>1, NoRequest DEF FrontOf, TypeStreams
  <2>3. done'[z] < k
    <3>1. StepOf(z)
      BY <1>1 DEF Orders, StepInv
    <3> QED BY <1>2, <3>1 DEF StepOf
  <2>4. Serving(d)' /\ passed'[d] < k /\ passed'[d] # k /\ k \in Nat
    BY <1>1, <1>2, <1>6, <2>1, <2>2, <2>3 DEF Serving
  <2> HIDE DEF Serving
  <2> QED BY <1>2, <2>1, <2>2, <2>4 DEF FrontOf
<1>7. CASE ~(Begun(r) /\ r = z)
  <2>1. queue'[d] = queue[d] /\ recorded'[d] = n
    <3>1. CASE Begun(r)
      <4>1. IsRankZero(r) => GroupOf(r) # d
        BY <1>7, <3>1, RankFacts
      <4> QED BY <3>1, <4>1, TypeParts DEF Begun, Inv, Shape, TypeStreams, TypeRequests
    <3>2. CASE Launched(r) \/ Warmed(r)
      BY <3>2 DEF Launched, Warmed, requests
    <3> QED BY <3>1, <3>2
  <2>2. Serving(d)' = Serving(d)
    BY <1>2, <2>1 DEF Serving
  <2>3. ASSUME NEW name \in {"produce", "event"}
        PROVE  Has(stream'[z], Is(name, n, 0)) <=> Has(stream[z], Is(name, n, 0))
    <3>1. CASE r # z
      BY <1>1, <1>3, <3>1
    <3>2. CASE r = z /\ Launched(r)
      <4>1. Is(name, n, 0) \notin LaunchedOps(r)
        BY <1>5 DEF LaunchedOps, ForwardOps
      <4> QED BY <3>2, <4>1 DEF Launched, Pushed
    <3>3. CASE r = z /\ Warmed(r)
      <4>1. n < step[r]
        BY <1>1, <3>3 DEF Warmed
      <4>2. Is("produce", step[r], 0).step = step[r]
        BY <1>1, IsOp DEF OpNames
      <4>3. Is(name, n, 0) # Is("produce", step[r], 0)
        BY <1>1, <1>5, <4>1, <4>2
      <4> QED BY <3>3, <4>3 DEF Warmed, Pushed
    <3> QED BY <1>7, <3>1, <3>2, <3>3
  <2> HIDE DEF Serving
  <2> QED BY <1>1, <1>2, <2>1, <2>2, <2>3, SameFront
<1> QED BY <1>6, <1>7

(* The request thread hands the recorded step on, and nothing else.        *)
LEMMA RequestFacts ==
  ASSUME TypeStreams, TypeRequests, TypeMemory, FrontInv, NEW d \in Groups, RequestThread(d)
  PROVE  /\ InFront(d) /\ InFront(d)' /\ FrontOf(d)'
         /\ \A e \in Groups : e # d => /\ queue'[e] = queue[e] /\ staging'[e] = staging[e]
                                       /\ request'[e] = request[e] /\ awaited'[e] = awaited[e]
                                       /\ channel'[e] = channel[e] /\ inputs'[e] = inputs[e]
         /\ UNCHANGED <<plan, threads, streams, out, flags, worker>>
<1> DEFINE z == RankZero(d)
           n == recorded[d]
<1>1. FrontOf(d) /\ n \in Nat
  BY DEF FrontInv, TypeStreams
<1>2. UNCHANGED <<plan, threads, streams, out, flags, worker>>
  BY DEF RequestThread, GetRequest, WaitEvent, StartCopy, EndCopy, Send
<1>3. /\ UNCHANGED <<recorded, passed, source, done, stream>> /\ Serving(d)' = Serving(d)
  BY <1>2 DEF streams, Serving
<1>4. InFront(d)
  BY DEF RequestThread, GetRequest, WaitEvent, StartCopy, EndCopy, Send, InFront
<1>5. Serving(d)
  BY <1>1, <1>4 DEF FrontOf
<1>6. \A e \in Groups : e # d =>
        /\ queue'[e] = queue[e] /\ staging'[e] = staging[e] /\ request'[e] = request[e]
        /\ awaited'[e] = awaited[e] /\ channel'[e] = channel[e]
  BY DEF RequestThread, GetRequest, WaitEvent, StartCopy, EndCopy, Send, TypeRequests
<1>7. \A e \in Groups : e # d => inputs'[e] = inputs[e]
  <2>1. inputs' = inputs \/ \E v : inputs' = [inputs EXCEPT ![d] = v]
    BY DEF RequestThread, GetRequest, WaitEvent, StartCopy, EndCopy, Send
  <2> QED BY <2>1 DEF TypeMemory
<1>8. passed[d] = n => source[d] = n
  BY <1>1, <1>5 DEF FrontOf
<1> HIDE DEF Serving, Has, Is, RankZero
<1>9. CASE GetRequest(d)
  <2>1. /\ queue[d] = <<n>> /\ staging[d] = "idle" /\ channel[d] = <<>>
    BY <1>1, <1>9 DEF GetRequest, FrontOf
  <2>2. /\ request'[d] = n /\ queue'[d] = <<>> /\ staging'[d] = "get"
        /\ awaited' = awaited /\ channel' = channel /\ inputs' = inputs
    BY <1>9, <2>1 DEF GetRequest, TypeRequests
  <2> QED BY <1>1, <1>2, <1>3, <1>4, <1>5, <1>6, <1>7, <2>1, <2>2 DEF FrontOf, InFront
<1>10. CASE WaitEvent(d)
  <2>1. /\ staging[d] = "get" /\ staging'[d] = "d2h" /\ awaited'[d] = n
        /\ UNCHANGED <<queue, request, channel, inputs>>
    BY <1>10 DEF WaitEvent, AwaitRecord, TypeRequests
  <2> QED BY <1>1, <1>2, <1>3, <1>4, <1>5, <1>6, <1>7, <2>1 DEF FrontOf, InFront
<1>11. CASE StartCopy(d)
  <2>1. /\ staging[d] = "d2h" /\ staging'[d] = "copy" /\ awaited'[d] = source[d]
        /\ UNCHANGED <<queue, request, channel>> /\ passed[d] >= awaited[d]
    BY <1>11 DEF StartCopy, TypeRequests
  <2>2. passed[d] = n
    BY <1>1, <2>1 DEF FrontOf, TypeStreams
  <2>3. awaited'[d] = n /\ channel[d] = <<>>
    BY <1>1, <1>8, <2>1, <2>2 DEF FrontOf
  <2> QED BY <1>1, <1>2, <1>3, <1>4, <1>5, <1>6, <1>7, <2>1, <2>2, <2>3 DEF FrontOf, InFront
<1>12. CASE EndCopy(d)
  <2>1. /\ staging[d] = "copy" /\ staging'[d] = "send"
        /\ UNCHANGED <<queue, request, channel, awaited>>
        /\ inputs' = [inputs EXCEPT ![d] =
                        IF source[d] = awaited[d] THEN Data(source[d], FALSE) ELSE Torn]
    BY <1>12 DEF EndCopy, TypeRequests
  <2>2. source[d] = n /\ awaited[d] = n /\ channel[d] = <<>>
    BY <1>1, <1>8, <2>1 DEF FrontOf
  <2>3. inputs'[d] = Data(n, FALSE)
    BY <2>1, <2>2 DEF TypeMemory
  <2> QED BY <1>1, <1>2, <1>3, <1>4, <1>5, <1>6, <1>7, <2>1, <2>2, <2>3 DEF FrontOf, InFront
<1>13. CASE Send(d)
  <2>1. /\ staging[d] = "send" /\ staging'[d] = "idle"
        /\ UNCHANGED <<queue, awaited, inputs>>
        /\ channel'[d] = Append(channel[d], request[d])
    BY <1>13 DEF Send, TypeRequests
  <2>2. request[d] = n /\ channel[d] = <<>> /\ inputs[d] = Data(n, FALSE) /\ queue[d] = <<>>
    BY <1>1, <2>1 DEF FrontOf
  <2>3. channel'[d] = <<n>> /\ channel'[d] # <<>>
    BY <2>1, <2>2
  <2> QED BY <1>1, <1>2, <1>3, <1>4, <1>5, <1>6, <1>7, <2>1, <2>2, <2>3 DEF FrontOf, InFront
<1> QED BY <1>9, <1>10, <1>11, <1>12, <1>13 DEF RequestThread

(* The worker takes up the requests of some groups, all of a recorded step. *)
Drained(from) ==
  /\ \A d \in from :
       /\ Serving(d) /\ InFront(d) /\ ~InFront(d)'
       /\ queue'[d] = <<>> /\ staging'[d] = "idle" /\ channel'[d] = <<>>
       /\ inputs'[d] = Data(recorded[d], TRUE)
  /\ \A d \in Groups \ from : channel'[d] = channel[d] /\ inputs'[d] = inputs[d]
  /\ \A i \in 1 .. Len(batch') :
       batch'[i].group \in from /\ batch'[i].step = recorded[batch'[i].group]
  /\ \A d \in from : \E i \in 1 .. Len(batch') : batch'[i].group = d
  /\ skipped' = skipped /\ Len(batch') \in Nat /\ Len(batch') >= 1
  /\ wpc = "poll" /\ wpc' = "wait" /\ wlayer' = 1 /\ windex' = 1
  /\ UNCHANGED <<plan, threads, queue, request, staging, awaited, streams, out,
                 ready, consumed, wtarget, reading>>

LEMMA DrainTakes ==
  ASSUME TypeStreams, TypeRequests, TypeMemory, FrontInv, Drain
  PROVE  \E from \in SUBSET Groups : Drained(from)
<1>1. PICK taken \in [Groups -> 0 .. 2], from \in SUBSET Groups : DrainOf(taken, from)
  BY DrainFacts
<1>2. /\ from = {d \in Groups : taken[d] > 0} /\ from # {}
      /\ \A d \in Groups : taken[d] <= Len(channel[d])
      /\ batch' \in Seq(Requests) /\ Len(batch') >= 1
      /\ \A i \in 1 .. Len(batch') : batch'[i].group \in from
      /\ \A i \in 1 .. Len(batch') : batch'[i].step = Head(channel[batch'[i].group])
      /\ \A d \in from : \E i \in 1 .. Len(batch') : batch'[i].group = d
      /\ skipped' = skipped \cup {<<d, channel[d][2]>> : d \in {e \in from : taken[e] = 2}}
      /\ inputs' = [d \in Groups |-> IF d \in from THEN [inputs[d] EXCEPT !.clamped = TRUE]
                                                   ELSE inputs[d]]
      /\ channel' = [d \in Groups |-> SubSeq(channel[d], taken[d] + 1, Len(channel[d]))]
  BY <1>1 DEF DrainOf
<1>3. /\ wpc = "poll" /\ wpc' = "wait" /\ wlayer' = 1 /\ windex' = 1
      /\ UNCHANGED <<plan, threads, queue, request, staging, awaited, streams, out,
                     ready, consumed, wtarget, reading>>
  BY DEF Drain, flags
<1>4. ASSUME NEW d \in from
      PROVE  /\ channel[d] = <<recorded[d]>> /\ Head(channel[d]) = recorded[d]
             /\ taken[d] = 1 /\ channel'[d] = <<>> /\ Serving(d) /\ InFront(d)
             /\ queue[d] = <<>> /\ staging[d] = "idle" /\ inputs[d] = Data(recorded[d], FALSE)
  <2>1. d \in Groups /\ FrontOf(d) /\ recorded[d] \in Nat /\ taken[d] \in 0 .. 2
        /\ taken[d] > 0 /\ taken[d] <= Len(channel[d])
    BY <1>2 DEF FrontInv, TypeStreams
  <2>2. channel[d] # <<>>
    BY <2>1
  <2>3. channel[d] = <<recorded[d]>> /\ inputs[d] = Data(recorded[d], FALSE) /\ InFront(d)
        /\ Serving(d) /\ queue[d] = <<>> /\ staging[d] = "idle"
    BY <2>1, <2>2 DEF FrontOf, InFront
  <2>4. Len(channel[d]) = 1 /\ Head(channel[d]) = recorded[d]
    BY <2>3
  <2>5. taken[d] = 1
    BY <2>1, <2>4
  <2>6. channel'[d] = SubSeq(channel[d], 2, 1)
    <3>1. channel'[d] = SubSeq(channel[d], taken[d] + 1, Len(channel[d]))
      BY <1>2, <2>1, Zenon
    <3>2. taken[d] + 1 = 2
      BY <2>5
    <3> QED BY <2>4, <3>1, <3>2, Zenon
  <2>7. SubSeq(channel[d], 2, 1) = <<>>
    BY SubSeqEmpty
  <2> QED BY <2>3, <2>4, <2>5, <2>6, <2>7
<1>5. ASSUME NEW d \in Groups \ from PROVE channel'[d] = channel[d] /\ inputs'[d] = inputs[d]
  <2>1. taken[d] = 0
    BY <1>2
  <2>2. PICK c \in Seq(Nat) : c = channel[d]
    BY DEF TypeRequests
  <2>3. channel'[d] = SubSeq(c, 1, Len(c))
    BY <1>2, <2>1, <2>2
  <2>4. SubSeq(c, 1, Len(c)) = c
    OBVIOUS
  <2> QED BY <1>2, <2>2, <2>3, <2>4
<1>6. ASSUME NEW d \in from PROVE inputs'[d] = Data(recorded[d], TRUE)
  <2>1. inputs'[d] = [Data(recorded[d], FALSE) EXCEPT !.clamped = TRUE]
    BY <1>2, <1>4
  <2> QED BY <2>1 DEF Data
<1>7. \A d \in from : ~InFront(d)'
  BY <1>3, <1>4 DEF InFront
<1>8. skipped' = skipped
  <2>1. ASSUME NEW e \in from PROVE taken[e] # 2
    <3>1. taken[e] = 1
      BY <1>4
    <3> QED BY <3>1
  <2>2. {e \in from : taken[e] = 2} = {}
    BY <2>1
  <2>3. {<<d, channel[d][2]>> : d \in {e \in from : taken[e] = 2}} = {}
    BY <2>2
  <2> QED BY <1>2, <2>3
<1>9. Len(batch') \in Nat
  BY <1>2
<1>10. Drained(from)
  <2>1. \A d \in from :
          /\ Serving(d) /\ InFront(d) /\ ~InFront(d)'
          /\ queue'[d] = <<>> /\ staging'[d] = "idle" /\ channel'[d] = <<>>
          /\ inputs'[d] = Data(recorded[d], TRUE)
    BY <1>3, <1>4, <1>6, <1>7
  <2>2. \A i \in 1 .. Len(batch') :
          batch'[i].group \in from /\ batch'[i].step = recorded[batch'[i].group]
    BY <1>2, <1>4
  <2> QED BY <1>2, <1>3, <1>5, <1>8, <1>9, <2>1, <2>2 DEF Drained
<1> QED BY <1>10

LEMMA FrontOverDrain ==
  ASSUME FrontInv, NEW from \in SUBSET Groups, Drained(from)
  PROVE  FrontInv'
<1> SUFFICES ASSUME NEW d \in Groups PROVE FrontOf(d)'
  BY DEF FrontInv
<1>1. FrontOf(d) /\ UNCHANGED <<queue, request, staging, awaited, recorded, passed, source,
                                done, stream>>
  BY DEF FrontInv, Drained, streams
<1>2. Serving(d)' = Serving(d)
  BY <1>1 DEF Serving
<1> HIDE DEF Serving, Has, Is, RankZero
<1>3. CASE d \in from
  <2>1. queue'[d] = <<>> /\ staging'[d] = "idle" /\ channel'[d] = <<>> /\ ~InFront(d)'
    BY <1>3 DEF Drained
  <2> QED BY <1>1, <1>2, <2>1 DEF FrontOf
<1>4. CASE d \notin from
  <2>1. channel'[d] = channel[d] /\ inputs'[d] = inputs[d]
    BY <1>4 DEF Drained
  <2> QED BY <1>1, <1>2, <2>1, SameFront
<1> QED BY <1>3, <1>4

LEMMA FrontKept ==
  ASSUME Setting, Inv, Next
  PROVE  FrontInv'
<1>1. /\ TypeThreads /\ TypeStreams /\ TypeRequests /\ TypeMemory /\ Orders /\ StreamInv
      /\ StepInv /\ FrontInv
  BY TypeParts DEF Inv, Shape, Orders
<1>2. ASSUME NEW r \in Ranks, BeginReal(r) \/ BeginDummy(r) \/ LaunchReal(r) \/ LaunchDummy(r)
      PROVE  FrontInv'
  <2>1. Launched(r) \/ Begun(r) \/ Warmed(r)
    BY <1>1, <1>2, BeginRealFacts, BeginDummyFacts, LaunchFacts
  <2> QED BY <2>1, FrontOverThreads
<1>3. ASSUME NEW r \in Ranks, StreamStep(r) PROVE FrontInv'
  BY <1>1, <1>3, StreamStepFacts, FrontOverPop
<1>4. ASSUME NEW d \in Groups, RequestThread(d) PROVE FrontInv'
  <2> SUFFICES ASSUME NEW e \in Groups PROVE FrontOf(e)'
    BY DEF FrontInv
  <2>1. CASE e = d
    BY <1>1, <1>4, <2>1, RequestFacts
  <2>2. CASE e # d
    <3>1. /\ queue'[e] = queue[e] /\ staging'[e] = staging[e] /\ request'[e] = request[e]
          /\ awaited'[e] = awaited[e] /\ channel'[e] = channel[e] /\ inputs'[e] = inputs[e]
          /\ UNCHANGED <<recorded, passed, source, done, stream>>
      BY <1>1, <1>4, <2>2, RequestFacts DEF streams
    <3>2. Serving(e)' = Serving(e) /\ FrontOf(e)
      BY <1>1, <3>1 DEF Serving, FrontInv
    <3> HIDE DEF Serving
    <3> QED BY <3>1, <3>2, SameFront
  <2> QED BY <2>1, <2>2
<1>5. ASSUME Drain PROVE FrontInv'
  BY <1>1, <1>5, DrainTakes, FrontOverDrain
<1>6. ASSUME UNCHANGED <<requests, streams, inputs>> PROVE FrontInv'
  <2> SUFFICES ASSUME NEW e \in Groups PROVE FrontOf(e)'
    BY DEF FrontInv
  <2>1. UNCHANGED <<queue, request, staging, awaited, channel, inputs, recorded, passed,
                    source, done, stream>>
    BY <1>6 DEF requests, streams
  <2>2. Serving(e)' = Serving(e) /\ FrontOf(e)
    BY <1>1, <2>1 DEF Serving, FrontInv
  <2> HIDE DEF Serving
  <2> QED BY <2>1, <2>2, SameFront
<1>7. ASSUME NEW r \in Ranks, ClaimSeen(r) \/ ClaimTimeout(r) \/ SignalDummy(r)
      PROVE  UNCHANGED <<requests, streams, inputs>>
  BY <1>7 DEF ClaimSeen, ClaimTimeout, SignalDummy
<1>8. ASSUME Worker PROVE Drain \/ UNCHANGED <<requests, streams, inputs>>
  BY <1>8 DEF Worker, WaitConsumed, ClaimReady, ClaimConsumed, StartCompute,
              EndCompute, FanOut, Publish
<1> QED BY <1>2, <1>3, <1>4, <1>5, <1>6, <1>7, <1>8 DEF Next, ModelThread

-----------------------------------------------------------------------------
(* The worker's batch.                                                     *)

LEMMA BatchGroups ==
  ASSUME TypeWorker, NEW i \in 1 .. Len(batch)
  PROVE  batch[i].group \in Groups /\ batch[i].step \in Nat
<1>1. batch[i] \in Requests
  BY ElementOf DEF TypeWorker, Requests
<1> QED BY <1>1 DEF Requests

(* The step leaves alone what the batch's entry of group d depends on.      *)
Spared(d) ==
  /\ recorded'[d] = recorded[d] /\ inputs'[d] = inputs[d]
  /\ Serving(d)' = Serving(d) /\ InFront(d)' = InFront(d)

(* The batch of the worker has a layer of group d to serve.                *)
Concerns(d) == \E i \in 1 .. Len(batch) : Unserved(i) /\ batch[i].group = d

LEMMA SameBatch ==
  ASSUME NEW i, NEW d, batch[i].group = d, BatchOf(i), batch'[i] = batch[i],
         Unserved(i)' => Unserved(i) /\ Spared(d), StillReads(i)' => StillReads(i)
  PROVE  BatchOf(i)'
<1>1. batch'[i].group = d /\ batch'[i].step = batch[i].step
  OBVIOUS
<1>2. BatchOf(i) <=> (Unserved(i) => /\ batch[i].step = recorded[d] /\ Serving(d) /\ ~InFront(d)
                                     /\ StillReads(i) => inputs[d] = Data(batch[i].step, TRUE))
  BY DEF BatchOf
<1> HIDE DEF Unserved, StillReads
<1>3. BatchOf(i)' <=>
        (Unserved(i)' => /\ batch'[i].step = recorded'[d] /\ Serving(d)' /\ ~InFront(d)'
                         /\ StillReads(i)' => inputs'[d] = Data(batch'[i].step, TRUE))
  BY <1>1 DEF BatchOf, Serving, InFront
<1> QED BY <1>1, <1>2, <1>3 DEF Spared

(* Steps of the other actors: the groups they change are not the batch's.   *)
LEMMA SameWorker ==
  ASSUME TypeWorker, WorkerInv, worker' = worker, \A d \in Groups : Concerns(d) => Spared(d)
  PROVE  WorkerInv'
<1>1. UNCHANGED <<wpc, batch, wlayer, windex, wtarget, reading, skipped>>
  BY DEF worker
<1>2. ASSUME NEW i \in 1 .. Len(batch) PROVE BatchOf(i)'
  <2>1. Unserved(i)' = Unserved(i) /\ StillReads(i)' = StillReads(i)
    BY <1>1 DEF Unserved, StillReads
  <2>2. BatchOf(i)
    BY DEF WorkerInv
  <2>3. PICK d \in Groups : d = batch[i].group
    BY BatchGroups
  <2>4. Unserved(i) => Spared(d)
    BY <2>3 DEF Concerns
  <2> HIDE DEF Unserved, StillReads
  <2> QED BY <1>1, <2>1, <2>2, <2>3, <2>4, SameBatch
<1> QED BY <1>1, <1>2 DEF WorkerInv

(* The worker goes on within its batch.                                    *)
LEMMA WithinBatch ==
  ASSUME TypeWorker, WorkerInv, UNCHANGED <<requests, streams, inputs, skipped>>, batch' = batch,
         \A i \in 1 .. Len(batch) : (Unserved(i)' => Unserved(i)) /\ (StillReads(i)' => StillReads(i)),
         wpc' = "computing" => reading' = Data(batch'[windex'].step, TRUE)
  PROVE  WorkerInv'
<1>1. UNCHANGED <<queue, staging, channel, recorded, done, inputs>>
  BY DEF requests, streams
<1>2. \A d : Spared(d)
  BY <1>1 DEF Spared, Serving, InFront
<1>3. ASSUME NEW i \in 1 .. Len(batch) PROVE BatchOf(i)'
  <2>1. BatchOf(i)
    BY DEF WorkerInv
  <2>2. PICK d \in Groups : d = batch[i].group
    BY BatchGroups
  <2> HIDE DEF Unserved, StillReads, Spared
  <2> QED BY <1>2, <2>1, <2>2, SameBatch
<1> QED BY <1>3 DEF WorkerInv

LEMMA WorkerOverOthers ==
  ASSUME Setting, Inv, Next, ~Worker
  PROVE  WorkerInv'
<1>1. /\ TypeThreads /\ TypeStreams /\ TypeRequests /\ TypeMemory /\ TypeWorker /\ Orders
      /\ StreamInv /\ StepInv /\ FrontInv /\ WorkerInv
  BY TypeParts DEF Inv, Shape, Orders
<1>2. ASSUME NEW e \in Groups, Concerns(e) PROVE Serving(e) /\ ~InFront(e)
  BY <1>1, <1>2 DEF Concerns, WorkerInv, BatchOf
<1>3. ASSUME NEW r \in Ranks, BeginReal(r) PROVE WorkerInv'
  <2>1. Begun(r)
    BY <1>1, <1>3, BeginRealFacts
  <2>2. worker' = worker /\ UNCHANGED <<staging, channel, inputs, done>>
    BY <2>1 DEF Begun
  <2>3. ASSUME NEW e \in Groups, Serving(e)
        PROVE  recorded'[e] = recorded[e] /\ Serving(e)' = Serving(e) /\ InFront(e)' = InFront(e)
    <3>1. ~IsRankZero(r) \/ GroupOf(r) # e
      BY <2>1, <2>3 DEF Begun
    <3>2. recorded'[e] = recorded[e] /\ queue'[e] = queue[e]
      BY <1>1, <2>1, <3>1 DEF Begun, TypeStreams, TypeRequests
    <3> QED BY <2>2, <3>2 DEF Serving, InFront
  <2> QED BY <1>1, <1>2, <2>2, <2>3, SameWorker DEF Spared
<1>4. ASSUME NEW r \in Ranks, StreamStep(r) PROVE WorkerInv'
  <2>1. PICK x \in Ops : Popped(r, x)
    BY <1>1, <1>4, StreamStepFacts
  <2>2. worker' = worker /\ UNCHANGED <<queue, staging, channel, inputs, recorded>>
    BY <2>1 DEF Popped, requests
  <2>3. ASSUME NEW e \in Groups, Serving(e)' # Serving(e)
        PROVE  ~Concerns(e)
    <3>1. Serving(e) /\ ~Serving(e)'
      BY <1>1, <2>1, <2>3, DoneGrows DEF Serving
    <3>2. RankZero(e) = r /\ x.op = "end"
      <4>1. RankZero(e) \in Ranks
        BY RankFacts
      <4>2. RankZero(e) # r \/ x.op # "end" => done'[RankZero(e)] = done[RankZero(e)]
        BY <1>1, <2>1, <4>1, DoneGrows
      <4> QED BY <2>2, <3>1, <4>2 DEF Serving
    <3>3. GroupOf(r) = e /\ IsRankZero(r)
      BY <3>2, RankFacts
    <3> QED BY <2>1, <3>1, <3>2, <3>3, EndOfService DEF Concerns
  <2>4. \A e : InFront(e)' = InFront(e)
    BY <2>2 DEF InFront
  <2> HIDE DEF Serving, Concerns, InFront
  <2> QED BY <1>1, <2>2, <2>3, <2>4, SameWorker DEF Spared
<1>5. ASSUME NEW d \in Groups, RequestThread(d) PROVE WorkerInv'
  <2>1. /\ worker' = worker /\ recorded' = recorded /\ done' = done /\ InFront(d)
        /\ \A e \in Groups : e # d => /\ queue'[e] = queue[e] /\ staging'[e] = staging[e]
                                      /\ channel'[e] = channel[e] /\ inputs'[e] = inputs[e]
    BY <1>1, <1>5, RequestFacts DEF streams
  <2>2. \A e \in Groups : Serving(e)' = Serving(e) /\ (e # d => InFront(e)' = InFront(e))
    BY <2>1 DEF Serving, InFront
  <2>3. ~Concerns(d)
    BY <1>2, <1>5, <2>1
  <2> HIDE DEF Serving, Concerns, InFront
  <2> QED BY <1>1, <2>1, <2>2, <2>3, SameWorker DEF Spared
<1>6. ASSUME NEW r \in Ranks,
             \/ ClaimSeen(r) \/ ClaimTimeout(r) \/ LaunchReal(r) \/ BeginDummy(r)
             \/ SignalDummy(r) \/ LaunchDummy(r)
      PROVE  WorkerInv'
  <2>1. worker' = worker /\ UNCHANGED <<queue, staging, channel, inputs, recorded, done>>
    BY <1>6 DEF ClaimSeen, ClaimTimeout, LaunchReal, BeginDummy, SignalDummy, LaunchDummy,
                Finish, requests, streams
  <2>2. \A e : Serving(e)' = Serving(e) /\ InFront(e)' = InFront(e)
    BY <2>1 DEF Serving, InFront
  <2> HIDE DEF Serving, Concerns, InFront
  <2> QED BY <1>1, <2>1, <2>2, SameWorker DEF Spared
<1> QED BY <1>3, <1>4, <1>5, <1>6 DEF Next, ModelThread

LEMMA WorkerOverDrain ==
  ASSUME WorkerInv, NEW from \in SUBSET Groups, Drained(from)
  PROVE  WorkerInv'
<1>1. UNCHANGED <<recorded, done>> /\ wpc' = "wait" /\ skipped' = skipped
  BY DEF Drained, streams
<1>2. ASSUME NEW i \in 1 .. Len(batch') PROVE BatchOf(i)'
  <2>1. PICK d \in from : d = batch'[i].group
    BY DEF Drained
  <2>2. batch'[i].step = recorded[d] /\ Serving(d) /\ ~InFront(d)'
        /\ inputs'[d] = Data(recorded[d], TRUE)
    BY <2>1 DEF Drained
  <2>3. Serving(d)' = Serving(d)
    BY <1>1 DEF Serving
  <2>4. /\ batch'[i].step = recorded'[d] /\ Serving(d)' /\ ~InFront(d)'
        /\ inputs'[d] = Data(batch'[i].step, TRUE)
    BY <1>1, <2>2, <2>3
  <2> HIDE DEF Data
  <2>5. BatchOf(i)' <=>
          (Unserved(i)' => /\ batch'[i].step = recorded'[d] /\ Serving(d)' /\ ~InFront(d)'
                           /\ StillReads(i)' => inputs'[d] = Data(batch'[i].step, TRUE))
    BY <2>1 DEF BatchOf, Serving, InFront
  <2> QED BY <2>4, <2>5
<1> QED BY <1>1, <1>2 DEF WorkerInv

LEMMA WorkerKept ==
  ASSUME Setting, Inv, Next
  PROVE  WorkerInv'
<1>1. TypeStreams /\ TypeRequests /\ TypeMemory /\ TypeWorker /\ WorkerShape /\ FrontInv /\ WorkerInv
  BY TypeParts DEF Inv, Shape
<1>2. CASE ~Worker
  BY <1>2, WorkerOverOthers
<1>3. CASE Drain
  BY <1>1, <1>3, DrainTakes, WorkerOverDrain
<1>4. ASSUME WaitConsumed \/ ClaimReady \/ ClaimConsumed \/ EndCompute \/ FanOut
      PROVE  WorkerInv'
  <2>1. /\ UNCHANGED <<requests, streams, inputs, skipped, batch, wlayer, windex>>
        /\ wpc' # "computing" /\ (wpc \in {"fanout", "publish"} => wpc' \in {"fanout", "publish"})
    BY <1>4 DEF WaitConsumed, ClaimReady, ClaimConsumed, EndCompute, FanOut
  <2>2. \A i \in 1 .. Len(batch) : (Unserved(i)' => Unserved(i)) /\ (StillReads(i)' => StillReads(i))
    BY <2>1 DEF Unserved, StillReads
  <2> HIDE DEF Unserved, StillReads
  <2> QED BY <1>1, <2>1, <2>2, WithinBatch
<1>5. CASE StartCompute
  <2>1. /\ UNCHANGED <<requests, streams, inputs, skipped, batch, wlayer, windex>>
        /\ wpc = "compute" /\ wpc' = "computing" /\ reading' = inputs[WGroup]
    BY <1>5 DEF StartCompute
  <2>2. windex \in 1 .. Len(batch) /\ windex \in Nat
    BY <1>1, <2>1, WorkerAt DEF TypeWorker
  <2>3. BatchOf(windex) /\ Unserved(windex) /\ StillReads(windex)
    BY <1>1, <2>1, <2>2 DEF WorkerInv, Unserved, StillReads
  <2>4. reading' = Data(batch[windex].step, TRUE)
    BY <2>1, <2>3 DEF BatchOf, WGroup
  <2>5. \A i \in 1 .. Len(batch) : (Unserved(i)' => Unserved(i)) /\ (StillReads(i)' => StillReads(i))
    BY <2>1 DEF Unserved, StillReads
  <2> HIDE DEF Unserved, StillReads, Data
  <2> QED BY <1>1, <2>1, <2>4, <2>5, WithinBatch
<1>6. CASE Publish
  <2>1. UNCHANGED <<requests, streams, inputs, skipped>> /\ wpc' # "computing" /\ wpc = "publish"
    BY <1>6 DEF Publish
  <2>2. CASE batch' = <<>>
    <3>1. \A i : i \notin 1 .. Len(batch')
      BY <2>2
    <3>2. skipped' = {}
      BY <1>1, <2>1 DEF WorkerInv
    <3> QED BY <2>1, <3>1, <3>2 DEF WorkerInv
  <2>3. CASE batch' # <<>>
    <3>1. /\ batch' = batch
          /\ \/ wpc' = wpc /\ wlayer' = wlayer /\ windex' = windex
             \/ wlayer' = wlayer /\ windex' = windex + 1
             \/ wlayer < NumLayers
      BY <1>6, <2>3 DEF Publish
    <3>2. windex \in Nat
      BY <1>1 DEF TypeWorker
    <3>3. ASSUME NEW i \in 1 .. Len(batch)
          PROVE  (Unserved(i)' => Unserved(i)) /\ (StillReads(i)' => StillReads(i))
      BY <2>1, <3>1, <3>2 DEF Unserved, StillReads
    <3> HIDE DEF Unserved, StillReads
    <3> QED BY <1>1, <2>1, <3>1, <3>3, WithinBatch
  <2> QED BY <2>2, <2>3
<1> QED BY <1>2, <1>3, <1>4, <1>5, <1>6 DEF Worker

-----------------------------------------------------------------------------
(* Dummy runs.                                                             *)

(* The worker works on the recorded step of a group that is served.        *)
LEMMA WorkerServes ==
  ASSUME TypeWorker, WorkerShape, WorkerInv, wpc # "poll"
  PROVE  /\ WGroup \in Groups /\ Serving(WGroup) /\ ~InFront(WGroup)
         /\ batch[windex].step = recorded[WGroup]
<1>1. windex \in 1 .. Len(batch) /\ windex \in Nat /\ WGroup \in Groups
  BY WorkerAt DEF TypeWorker
<1>2. BatchOf(windex) /\ Unserved(windex)
  BY <1>1 DEF WorkerInv, Unserved
<1> QED BY <1>1, <1>2 DEF BatchOf, WGroup

(* While its group is served a rank runs the recorded step or waits for the next. *)
LEMMA ServedThread ==
  ASSUME TypeThreads, TypeStreams, Orders, NEW r \in Ranks, Serving(GroupOf(r))
  PROVE  /\ Real(GroupOf(r), recorded[GroupOf(r)]) /\ recorded[GroupOf(r)] \in Nat
         /\ recorded[GroupOf(r)] > 0 /\ step[r] \in Nat
         /\ step[r] = recorded[GroupOf(r)] \/ step[r] = recorded[GroupOf(r)] + 1
         /\ step[r] > recorded[GroupOf(r)] => pc[r] = "idle"
         /\ pc[r] # "signal"
<1> DEFINE d == GroupOf(r)
           n == recorded[d]
<1>1. /\ StepOf(r) /\ d \in Groups /\ RecordedOf(d) /\ RankZero(d) \in Ranks
  BY RankFacts DEF Orders, StepInv, RecordedInv
<1>2. n \in Nat /\ step[r] \in Nat /\ done[RankZero(d)] \in Nat
  BY <1>1 DEF TypeThreads, TypeStreams
<1>3. n > 0 /\ Real(d, n)
  BY <1>1, <1>2 DEF Serving, RecordedOf
<1>4. (step[r] = n \/ step[r] = n + 1) /\ (step[r] > n => pc[r] = "idle")
  BY <1>1 DEF StepOf
<1>5. pc[r] # "signal"
  BY <1>1, <1>2, <1>3, <1>4 DEF StepOf
<1> QED BY <1>2, <1>3, <1>4, <1>5

LEMMA SameDummy ==
  ASSUME NEW r, DummyOf(r), plan' = plan, out'[r] = out[r],
         pc'[r] = "signal" => pc[r] = "signal" /\ layer'[r] = layer[r],
         \A x : Has(stream'[r], x) /\ x.op = "copy" => Has(stream[r], x)
  PROVE  DummyOf(r)'
<1> HIDE DEF Has
<1> QED BY DEF DummyOf

LEMMA DummyOverThreads ==
  ASSUME TypeThreads, TypeStreams, TypeMemory, Orders, DummyInv, NEW r \in Ranks,
         Launched(r) \/ Begun(r) \/ Warmed(r)
  PROVE  DummyInv'
<1> SUFFICES ASSUME NEW q \in Ranks PROVE DummyOf(q)'
  BY DEF DummyInv
<1>1. /\ plan' = plan /\ out' = out /\ DummyOf(q)
      /\ q # r => stream'[q] = stream[q] /\ pc'[q] = pc[q] /\ layer'[q] = layer[q]
  BY DEF Launched, Begun, Warmed, Pushed, DummyInv, TypeThreads
<1>2. CASE q # r
  BY <1>1, <1>2, SameDummy
<1>3. CASE q = r /\ Begun(r)
  <2>1. pc'[r] = "claim" /\ \A y : Has(stream'[r], y) <=> Has(stream[r], y) \/ y \in BegunOps(r)
    BY <1>3 DEF Begun, Pushed, TypeThreads
  <2>2. \A y \in BegunOps(r) : y.op # "copy"
    BY DEF BegunOps, Is
  <2> QED BY <1>1, <1>3, <2>1, <2>2, SameDummy
<1>4. CASE q = r /\ Warmed(r)
  <2> DEFINE W == IF plan[GroupOf(r)][step[r]] = "dummy" /\ IsRankZero(r)
                    THEN {Is("produce", step[r], 0)} ELSE {}
  <2>1. /\ \A y : Has(stream'[r], y) <=> Has(stream[r], y) \/ y \in W
        /\ pc[r] = "idle" /\ layer' = layer
    BY <1>4 DEF Warmed, Pushed
  <2>2. \A y \in W : y.op # "copy"
    BY DEF Is
  <2>3. StepOf(r)
    BY DEF Orders, StepInv
  <2>4. layer'[r] = 1
    BY <2>1, <2>3 DEF StepOf
  <2>5. \A l \in Layers : ~(l < layer'[r])
    BY <2>4 DEF Layers
  <2> HIDE DEF W
  <2> QED BY <1>1, <1>4, <2>1, <2>2, <2>5 DEF DummyOf
<1>5. CASE q = r /\ Launched(r)
  <2>1. /\ pc'[r] = "idle"
        /\ \A y : Has(stream'[r], y) <=> Has(stream[r], y) \/ y \in LaunchedOps(r)
        /\ pc[r] \in {"claim", "signal"} /\ layer[r] = NumLayers + 1
        /\ pc[r] = "claim" => Real(GroupOf(r), step[r])
    BY <1>5 DEF Launched, Pushed, TypeThreads
  <2>2. ASSUME NEW y \in LaunchedOps(r), y.op = "copy", plan[GroupOf(r)][y.step] = "dummy"
        PROVE  out[r][y.layer] = Nothing
    <3>1. y.step = step[r] /\ y.layer \in Layers
      BY <2>2 DEF LaunchedOps, ForwardOps
    <3>2. pc[r] = "signal"
      BY <2>1, <2>2, <3>1 DEF Real
    <3>3. y.layer < layer[r]
      BY <2>1, <3>1 DEF Layers
    <3> QED BY <1>1, <1>5, <3>1, <3>2, <3>3 DEF DummyOf
  <2> QED BY <1>1, <1>5, <2>1, <2>2 DEF DummyOf
<1> QED BY <1>2, <1>3, <1>4, <1>5

(* The worker writes the outputs of served groups only.                    *)
LEMMA DummyOverWorker ==
  ASSUME Setting, Inv, Worker
  PROVE  DummyInv'
<1> SUFFICES ASSUME NEW q \in Ranks PROVE DummyOf(q)'
  BY DEF DummyInv
<1>1. /\ TypeThreads /\ TypeStreams /\ TypeMemory /\ TypeWorker /\ WorkerShape /\ WorkerInv
      /\ Orders /\ DummyOf(q)
  BY TypeParts DEF Inv, Shape, DummyInv
<1>2. UNCHANGED <<plan, step, pc, layer, stream>>
  BY DEF Worker, Drain, WaitConsumed, ClaimReady, ClaimConsumed, StartCompute, EndCompute, FanOut,
         Publish, threads, streams
<1>3. CASE out'[q] = out[q]
  BY <1>1, <1>2, <1>3, SameDummy
<1>4. CASE out'[q] # out[q]
  <2>1. StartCompute \/ EndCompute \/ (FanOut /\ wtarget < TpSize)
    BY <1>4 DEF Worker, Drain, WaitConsumed, ClaimReady, ClaimConsumed, FanOut, Publish
  <2>2. wpc # "poll" /\ \E p \in Targets(WGroup) : \A s \in Ranks : s # p => out'[s] = out[s]
    <3>1. wpc # "poll"
      BY <2>1 DEF StartCompute, EndCompute, FanOut
    <3>2. RankZero(WGroup) \in Targets(WGroup)
          /\ (wtarget < TpSize => WTarget \in Targets(WGroup))
      BY <1>1, <3>1, WorkerAt
    <3>3. CASE StartCompute \/ EndCompute
      <4>1. \A s \in Ranks : s # RankZero(WGroup) => out'[s] = out[s]
        BY <1>1, <3>3 DEF TypeMemory, StartCompute, EndCompute
      <4> QED BY <3>1, <3>2, <4>1
    <3>4. CASE FanOut /\ wtarget < TpSize
      <4>1. \A s \in Ranks : s # WTarget => out'[s] = out[s]
        BY <1>1, <3>4 DEF TypeMemory, FanOut
      <4> QED BY <3>1, <3>2, <3>4, <4>1
    <3> QED BY <2>1, <3>3, <3>4
  <2>3. GroupOf(q) = WGroup
    BY <1>4, <2>2 DEF Targets
  <2>4. Serving(GroupOf(q))
    BY <1>1, <2>2, <2>3, WorkerServes
  <2>5. pc[q] # "signal"
    BY <1>1, <2>4, ServedThread
  <2>6. ASSUME NEW x, Has(stream[q], x) PROVE plan[GroupOf(q)][x.step] # "dummy"
    <3>1. Real(GroupOf(q), x.step)
      BY <1>1, <2>4, <2>6, ServedStream
    <3> QED BY <3>1 DEF Real
  <2> HIDE DEF Has
  <2> QED BY <1>2, <2>5, <2>6 DEF DummyOf
<1> QED BY <1>3, <1>4

LEMMA DummyKept ==
  ASSUME Setting, Inv, Next
  PROVE  DummyInv'
<1>1. /\ TypeThreads /\ TypeStreams /\ TypeMemory /\ Orders /\ StreamInv /\ StepInv /\ FrontInv
      /\ DummyInv
  BY TypeParts DEF Inv, Shape, Orders
<1>2. ASSUME NEW r \in Ranks, BeginReal(r) \/ BeginDummy(r) \/ LaunchReal(r) \/ LaunchDummy(r)
      PROVE  DummyInv'
  <2>1. Launched(r) \/ Begun(r) \/ Warmed(r)
    BY <1>1, <1>2, BeginRealFacts, BeginDummyFacts, LaunchFacts
  <2> QED BY <1>1, <2>1, DummyOverThreads
<1>3. ASSUME NEW r \in Ranks, StreamStep(r) PROVE DummyInv'
  <2>1. PICK x \in Ops : Popped(r, x)
    BY <1>1, <1>3, StreamStepFacts
  <2>2. /\ UNCHANGED <<plan, pc, layer, out>>
        /\ \A y : Has(stream'[r], y) => Has(stream[r], y)
        /\ \A q \in Ranks : q # r => stream'[q] = stream[q]
    BY <2>1 DEF Popped, threads
  <2>3. ASSUME NEW q \in Ranks PROVE DummyOf(q)'
    <3>1. \A y : Has(stream'[q], y) => Has(stream[q], y)
      BY <2>2
    <3> QED BY <1>1, <2>2, <3>1, SameDummy DEF DummyInv
  <2> QED BY <2>3 DEF DummyInv
<1>4. ASSUME NEW d \in Groups, RequestThread(d) PROVE DummyInv'
  <2>1. UNCHANGED <<plan, threads, streams, out>>
    BY <1>4 DEF RequestThread, GetRequest, WaitEvent, StartCopy, EndCopy, Send
  <2>2. UNCHANGED <<plan, pc, layer, stream, out>>
    BY <2>1 DEF threads, streams
  <2>3. \A q \in Ranks : DummyOf(q)'
    BY <1>1, <2>2, SameDummy DEF DummyInv
  <2> QED BY <2>3 DEF DummyInv
<1>5. ASSUME NEW r \in Ranks, ClaimSeen(r) \/ ClaimTimeout(r) PROVE DummyInv'
  <2>1. /\ UNCHANGED <<plan, stream, out>> /\ pc[r] = "claim" /\ pc'[r] # "signal"
        /\ \A q \in Ranks : q # r => pc'[q] = pc[q] /\ layer'[q] = layer[q]
    BY <1>1, <1>5 DEF ClaimSeen, ClaimTimeout, TypeThreads, streams
  <2>2. \A q \in Ranks : pc'[q] = "signal" => pc[q] = "signal" /\ layer'[q] = layer[q]
    BY <2>1
  <2>3. \A q \in Ranks : DummyOf(q)'
    BY <1>1, <2>1, <2>2, SameDummy DEF DummyInv
  <2> QED BY <2>3 DEF DummyInv
<1>6. ASSUME NEW r \in Ranks, SignalDummy(r) PROVE DummyInv'
  <2>1. /\ UNCHANGED <<plan, stream, pc>> /\ layer' = [layer EXCEPT ![r] = layer[r] + 1]
        /\ out' = [out EXCEPT ![r][layer[r]] = Nothing]
    BY <1>6 DEF SignalDummy, streams
  <2>2. ASSUME NEW q \in Ranks PROVE DummyOf(q)'
    <3>1. DummyOf(q)
      BY <1>1 DEF DummyInv
    <3>2. CASE q # r
      BY <1>1, <2>1, <3>1, <3>2, SameDummy DEF TypeThreads, TypeMemory
    <3>3. CASE q = r
      <4>1. layer'[r] = layer[r] + 1 /\ layer[r] \in Nat
        BY <1>1, <2>1 DEF TypeThreads
      <4>2. ASSUME NEW l \in Layers PROVE out'[r][l] = Nothing \/ (out'[r][l] = out[r][l] /\ l # layer[r])
        <5>1. out'[r][l] = IF l = layer[r] THEN Nothing ELSE out[r][l]
          BY <1>1, <2>1 DEF TypeMemory
        <5> QED BY <5>1
      <4>3. ASSUME NEW l \in Layers, pc[r] = "signal", l < layer'[r] PROVE out'[r][l] = Nothing
        BY <3>1, <3>3, <4>1, <4>2, <4>3 DEF DummyOf, Layers
      <4>4. ASSUME NEW x, Has(stream[r], x), x.op = "copy", plan[GroupOf(r)][x.step] = "dummy"
            PROVE  out'[r][x.layer] = Nothing
        <5>1. OpOf(r, x)
          BY <1>1, <4>4 DEF StreamInv, StreamOf
        <5>2. x.layer \in Layers
          BY <4>4, <5>1 DEF OpOf, ForwardOps
        <5> QED BY <3>1, <3>3, <4>2, <4>4, <5>2 DEF DummyOf
      <4> HIDE DEF Has
      <4> QED BY <2>1, <3>3, <4>3, <4>4 DEF DummyOf
    <3> QED BY <3>2, <3>3
  <2> QED BY <2>2 DEF DummyInv
<1>7. CASE Worker
  BY <1>7, DummyOverWorker
<1> QED BY <1>2, <1>3, <1>4, <1>5, <1>6, <1>7 DEF Next, ModelThread

-----------------------------------------------------------------------------
(* The slots.                                                              *)

(* What has to be shown of a slot after a step, in a group d at step n.    *)
LEMMA SlotNow ==
  ASSUME NEW r, NEW l, NEW d, NEW n, GroupOf(r) = d, recorded[d] = n, SlotOf(r, l)
  PROVE  IF Serving(d)
           THEN /\ Unclaimed(r, l) => Free(r, l, n)
                /\ Served(r, l) => Given(r, l, n)
                /\ ~Unclaimed(r, l) /\ ~Served(r, l) => Taken(r, l, n)
           ELSE consumed[r][l] = 1
<1> HIDE DEF Serving, Unclaimed, Served, Free, Given, Taken
<1> QED BY DEF SlotOf

LEMMA SlotNext ==
  ASSUME NEW r, NEW l, NEW d, NEW n, GroupOf(r) = d, recorded'[d] = n,
         IF Serving(d)'
           THEN /\ Unclaimed(r, l)' => Free(r, l, n)'
                /\ Served(r, l)' => Given(r, l, n)'
                /\ ~Unclaimed(r, l)' /\ ~Served(r, l)' => Taken(r, l, n)'
           ELSE consumed'[r][l] = 1
  PROVE  SlotOf(r, l)'
BY DEF SlotOf, Serving, Free, Given, Taken, Left, GroupOf

(* The steps of the others leave the worker where it is.                   *)
LEMMA WorkerAway ==
  ASSUME NEW d, NEW l, worker' = worker, InFront(d)' = InFront(d)
  PROVE  /\ Ahead(d, l)' <=> Ahead(d, l)
         /\ At(d, l)' <=> At(d, l)
         /\ wpc' = wpc /\ wtarget' = wtarget
<1>1. UNCHANGED <<wpc, batch, wlayer, windex, wtarget>>
  BY DEF worker
<1> HIDE DEF InFront
<1>2. At(d, l)' <=> At(d, l)
  BY <1>1 DEF At, WGroup
<1>3. Ahead(d, l)' <=> Ahead(d, l)
  BY <1>1 DEF Ahead
<1> QED BY <1>1, <1>2, <1>3

LaunchNames == {"wait", "copy", "reset", "consume"}

LEMMA KeptSlot ==
  ASSUME NEW r, NEW l, NEW d, NEW n, GroupOf(r) = d, recorded[d] = n, recorded'[d] = n,
         SlotOf(r, l), Serving(d)' = Serving(d), worker' = worker, InFront(d)' = InFront(d),
         consumed'[r][l] = consumed[r][l],
         Serving(d) =>
           /\ ready'[r][l] = ready[r][l] /\ out'[r][l] = out[r][l]
           /\ \A name \in LaunchNames : Left(r, name, n, l)' <=> Left(r, name, n, l),
         Serving(d) /\ Free(r, l, n) =>
           step'[r] <= n /\ (step'[r] = n /\ pc'[r] \in {"claim", "timeout"} => layer'[r] <= l)
  PROVE  SlotOf(r, l)'
<1>1. /\ Ahead(d, l)' <=> Ahead(d, l)
      /\ At(d, l)' <=> At(d, l)
      /\ wpc' = wpc /\ wtarget' = wtarget
  BY WorkerAway
<1>2. (Unclaimed(r, l)' <=> Unclaimed(r, l)) /\ (Served(r, l)' <=> Served(r, l))
  <2> HIDE DEF Ahead, At
  <2> QED BY <1>1 DEF Unclaimed, Served, GroupOf
<1>3. IF Serving(d)
        THEN /\ Unclaimed(r, l) => Free(r, l, n)
             /\ Served(r, l) => Given(r, l, n)
             /\ ~Unclaimed(r, l) /\ ~Served(r, l) => Taken(r, l, n)
        ELSE consumed[r][l] = 1
  BY SlotNow
<1>4. ASSUME Serving(d), Free(r, l, n) PROVE Free(r, l, n)'
  <2> HIDE DEF At
  <2> QED BY <1>1, <1>4 DEF Free, GroupOf
<1>5. ASSUME Serving(d), Taken(r, l, n) PROVE Taken(r, l, n)'
  <2> HIDE DEF Left, Data
  <2>1. Left(r, "wait", n, l)' <=> Left(r, "wait", n, l)
    BY <1>5 DEF LaunchNames
  <2> QED BY <1>1, <1>5, <2>1 DEF Taken
<1>6. ASSUME Serving(d), Given(r, l, n) PROVE Given(r, l, n)'
  <2> HIDE DEF Left, Data
  <2>1. /\ Left(r, "copy", n, l)' <=> Left(r, "copy", n, l)
        /\ Left(r, "reset", n, l)' <=> Left(r, "reset", n, l)
        /\ Left(r, "consume", n, l)' <=> Left(r, "consume", n, l)
    BY <1>6 DEF LaunchNames
  <2> QED BY <1>6, <2>1 DEF Given
<1> HIDE DEF Serving, Unclaimed, Served, Free, Given, Taken
<1>7. IF Serving(d)'
        THEN /\ Unclaimed(r, l)' => Free(r, l, n)'
             /\ Served(r, l)' => Given(r, l, n)'
             /\ ~Unclaimed(r, l)' /\ ~Served(r, l)' => Taken(r, l, n)'
        ELSE consumed'[r][l] = 1
  BY <1>2, <1>3, <1>4, <1>5, <1>6
<1> QED BY <1>7, SlotNext

(* A step of another actor that leaves the slot's memory, stream and thread *)
(* alone.                                                                   *)
LEMMA QuietSlot ==
  ASSUME NEW r, NEW l, NEW d, NEW n, GroupOf(r) = d, recorded[d] = n, recorded'[d] = n,
         SlotOf(r, l), Serving(d)' = Serving(d), worker' = worker, InFront(d)' = InFront(d),
         consumed'[r][l] = consumed[r][l], ready'[r][l] = ready[r][l], out'[r][l] = out[r][l],
         step'[r] = step[r], pc'[r] = pc[r], layer'[r] = layer[r], stream'[r] = stream[r]
  PROVE  SlotOf(r, l)'
<1>1. \A name \in LaunchNames : Left(r, name, n, l)' <=> Left(r, name, n, l)
  BY DEF Left, Has
<1>2. Free(r, l, n) =>
        step'[r] <= n /\ (step'[r] = n /\ pc'[r] \in {"claim", "timeout"} => layer'[r] <= l)
  BY DEF Free
<1> HIDE DEF Serving, InFront, Left, Free
<1> QED BY <1>1, <1>2, KeptSlot

LEMMA SlotsOverRequests ==
  ASSUME TypeStreams, TypeRequests, TypeMemory, FrontInv, SlotInv,
         NEW e \in Groups, RequestThread(e)
  PROVE  SlotInv'
<1> SUFFICES ASSUME NEW r \in Ranks, NEW l \in Layers PROVE SlotOf(r, l)'
  BY DEF SlotInv
<1>1. PICK d \in Groups : d = GroupOf(r)
  BY RankFacts
<1>2. PICK n : n = recorded[d]
  OBVIOUS
<1>3. /\ UNCHANGED <<step, pc, layer, stream, recorded, done, out, ready, consumed>>
      /\ worker' = worker /\ InFront(e) /\ InFront(e)'
      /\ d # e => queue'[d] = queue[d] /\ staging'[d] = staging[d] /\ channel'[d] = channel[d]
  BY RequestFacts DEF threads, streams, flags
<1>4. Serving(d)' = Serving(d) /\ SlotOf(r, l)
  BY <1>3 DEF Serving, SlotInv
<1>5. InFront(d)' = InFront(d)
  BY <1>3 DEF InFront
<1> HIDE DEF Serving, InFront
<1> QED BY <1>1, <1>2, <1>3, <1>4, <1>5, QuietSlot

(* While the group is not served, the slots of a rank stay consumed.       *)
LEMMA UnservedSlot ==
  ASSUME NEW r, NEW l, NEW d, GroupOf(r) = d, ~Serving(d)', consumed'[r][l] = 1
  PROVE  SlotOf(r, l)'
<1>1. PICK n : n = recorded'[d]
  OBVIOUS
<1> HIDE DEF Serving
<1> QED BY <1>1, SlotNext

LEMMA SlotsOverLaunch ==
  ASSUME TypeThreads, TypeStreams, TypeMemory, Orders, SlotInv, NEW p \in Ranks, Launched(p)
  PROVE  SlotInv'
<1> SUFFICES ASSUME NEW r \in Ranks, NEW l \in Layers PROVE SlotOf(r, l)'
  BY DEF SlotInv
<1>1. PICK d \in Groups : d = GroupOf(r)
  BY RankFacts
<1>2. PICK n \in Nat : n = recorded[d]
  BY DEF TypeStreams
<1>3. /\ UNCHANGED <<plan, recorded, done, out, ready, consumed, queue, staging, channel>>
      /\ worker' = worker
      /\ pc[p] \in {"claim", "signal"} /\ layer[p] = NumLayers + 1
      /\ Pushed(p, LaunchedOps(p))
  BY DEF Launched, flags, requests
<1>4. /\ Serving(d)' = Serving(d) /\ SlotOf(r, l) /\ InFront(d)' = InFront(d)
  BY <1>3 DEF Serving, SlotInv, InFront
<1>5. CASE r # p
  <2>1. /\ step'[r] = step[r] /\ pc'[r] = pc[r] /\ layer'[r] = layer[r] /\ stream'[r] = stream[r]
    BY <1>5 DEF Launched, Pushed, TypeThreads
  <2> HIDE DEF Serving, InFront
  <2> QED BY <1>1, <1>2, <1>3, <1>4, <2>1, QuietSlot
<1>6. CASE r = p /\ ~Serving(d)
  <2>1. consumed[r][l] = 1
    BY <1>1, <1>4, <1>6 DEF SlotOf
  <2> HIDE DEF Serving
  <2> QED BY <1>1, <1>3, <1>4, <1>6, <2>1, UnservedSlot
<1>7. CASE r = p /\ Serving(d)
  <2>1. /\ step[p] = n /\ pc[p] = "claim" /\ plan[d][n] = "real"
    <3>1. /\ Real(d, n) /\ (step[p] = n \/ step[p] = n + 1) /\ (step[p] > n => pc[p] = "idle")
          /\ pc[p] # "signal"
      BY <1>1, <1>2, <1>7, ServedThread
    <3> QED BY <1>2, <1>3, <3>1 DEF Real
  <2>2. step'[p] = n + 1
    BY <2>1 DEF Launched, TypeThreads
  <2>3. \A y : Has(stream'[p], y) <=> Has(stream[p], y) \/ y \in ForwardOps(n)
    BY <1>1, <1>3, <1>7, <2>1 DEF Pushed, LaunchedOps
  <2>4. ASSUME NEW name \in LaunchNames PROVE Left(p, name, n, l) /\ Left(p, name, n, l)'
    <3>1. Left(p, name, n, l)
      BY <1>2, <2>1 DEF Left
    <3>2. l \in 0 .. NumLayers /\ name \in OpNames
      BY DEF Layers, LaunchNames, OpNames
    <3>3. Is(name, n, l) \in ForwardOps(n)
      BY <1>2, <3>2, IsOp DEF ForwardOps, LaunchNames
    <3> QED BY <2>3, <3>1, <3>3 DEF Left
  <2>5. ~Free(p, l, n)
    <3>1. ~(layer[p] <= l)
      BY <1>3 DEF Layers
    <3> QED BY <2>1, <3>1 DEF Free
  <2> HIDE DEF Serving, InFront, Left, Free
  <2> QED BY <1>1, <1>2, <1>3, <1>4, <1>7, <2>4, <2>5, KeptSlot
<1> QED BY <1>5, <1>6, <1>7

LEMMA SlotsOverClaim ==
  ASSUME TypeThreads, TypeStreams, TypeMemory, Orders, SlotInv, NEW p \in Ranks,
         ClaimSeen(p) \/ ClaimTimeout(p)
  PROVE  SlotInv'
<1> SUFFICES ASSUME NEW r \in Ranks, NEW l \in Layers PROVE SlotOf(r, l)'
  BY DEF SlotInv
<1>1. PICK d \in Groups : d = GroupOf(r)
  BY RankFacts
<1>2. PICK n \in Nat : n = recorded[d]
  BY DEF TypeStreams
<1>3. /\ UNCHANGED <<plan, step, stream, recorded, done, out, ready, consumed, queue, staging,
                     channel>>
      /\ worker' = worker
      /\ \A q \in Ranks : q # p => pc'[q] = pc[q] /\ layer'[q] = layer[q]
      /\ pc[p] = "claim"
      /\ \/ layer'[p] = layer[p]
         \/ layer'[p] = layer[p] + 1 /\ consumed[p][layer[p]] = 0
  BY DEF ClaimSeen, ClaimTimeout, Claimed, flags, requests, streams, TypeThreads
<1>4. /\ Serving(d)' = Serving(d) /\ SlotOf(r, l) /\ InFront(d)' = InFront(d)
  BY <1>3 DEF Serving, SlotInv, InFront
<1>5. \A name \in LaunchNames : Left(r, name, n, l)' <=> Left(r, name, n, l)
  BY <1>3 DEF Left, Has
<1>6. ASSUME Free(r, l, n)
      PROVE  step'[r] <= n /\ (step'[r] = n /\ pc'[r] \in {"claim", "timeout"} => layer'[r] <= l)
  <2>1. CASE r # p
    BY <1>3, <1>6, <2>1 DEF Free
  <2>2. CASE r = p
    <3>1. layer[p] \in Nat /\ l \in Nat
      BY DEF TypeThreads, Layers
    <3>2. step[p] <= n /\ (step[p] = n => layer[p] <= l) /\ consumed[p][l] = 1
      BY <1>3, <1>6, <2>2 DEF Free
    <3>3. step[p] = n => layer'[p] <= l
      BY <1>3, <3>1, <3>2
    <3> QED BY <1>3, <2>2, <3>2, <3>3
  <2> QED BY <2>1, <2>2
<1> HIDE DEF Serving, InFront, Left, Free
<1> QED BY <1>1, <1>2, <1>3, <1>4, <1>5, <1>6, KeptSlot

(* The threads of served groups do not run dummy inputs.                   *)
LEMMA SlotsOverSignal ==
  ASSUME TypeThreads, TypeStreams, TypeMemory, Orders, SlotInv, NEW p \in Ranks,
         Warmed(p) \/ SignalDummy(p)
  PROVE  SlotInv'
<1> SUFFICES ASSUME NEW r \in Ranks, NEW l \in Layers PROVE SlotOf(r, l)'
  BY DEF SlotInv
<1>1. PICK d \in Groups : d = GroupOf(r)
  BY RankFacts
<1>2. PICK n \in Nat : n = recorded[d]
  BY DEF TypeStreams
<1>3. /\ UNCHANGED <<plan, step, recorded, done, queue, staging, channel>>
      /\ worker' = worker
      /\ \A q \in Ranks : q # p => /\ pc'[q] = pc[q] /\ layer'[q] = layer[q] /\ stream'[q] = stream[q]
                                   /\ out'[q] = out[q] /\ ready'[q] = ready[q]
                                   /\ consumed'[q] = consumed[q]
      /\ consumed'[p][l] = consumed[p][l] \/ consumed'[p][l] = 1
      /\ pc[p] = "signal" \/ ~Serving(GroupOf(p))
  BY DEF Warmed, Pushed, SignalDummy, ConsumedAfterSignal, flags, requests, streams, TypeThreads,
         TypeMemory
<1>4. /\ Serving(d)' = Serving(d) /\ SlotOf(r, l) /\ InFront(d)' = InFront(d)
  BY <1>3 DEF Serving, SlotInv, InFront
<1>5. CASE r # p
  <2> HIDE DEF Serving, InFront
  <2> QED BY <1>1, <1>2, <1>3, <1>4, <1>5, QuietSlot
<1>6. CASE r = p
  <2>1. ~Serving(d)
    BY <1>1, <1>3, <1>6, ServedThread
  <2>2. consumed[r][l] = 1
    BY <1>1, <1>4, <2>1 DEF SlotOf
  <2> HIDE DEF Serving
  <2> QED BY <1>1, <1>3, <1>4, <1>6, <2>1, <2>2, UnservedSlot
<1> QED BY <1>5, <1>6

(* A step is recorded when every slot of the group is free.                *)
LEMMA SlotsOverBegin ==
  ASSUME TypeThreads, TypeStreams, TypeRequests, TypeWorker, WorkerShape, WorkerInv, Orders,
         SlotInv, NEW p \in Ranks, Begun(p)
  PROVE  SlotInv'
<1> SUFFICES ASSUME NEW r \in Ranks, NEW l \in Layers PROVE SlotOf(r, l)'
  BY DEF SlotInv
<1>1. PICK d \in Groups : d = GroupOf(r)
  BY RankFacts
<1>2. /\ UNCHANGED <<plan, step, layer, done, staging, channel, out, ready, consumed>>
      /\ worker' = worker /\ pc[p] = "idle" /\ pc'[p] = "claim"
      /\ \A q \in Ranks : q # p => pc'[q] = pc[q] /\ stream'[q] = stream[q]
      /\ Real(GroupOf(p), step[p]) /\ recorded[GroupOf(p)] <= step[p]
      /\ \A y : Has(stream'[p], y) <=> Has(stream[p], y) \/ y \in BegunOps(p)
  BY DEF Begun, Pushed, TypeThreads
<1>3. SlotOf(r, l) /\ StepOf(r) /\ StepOf(p) /\ layer[p] = 1
  BY <1>2 DEF SlotInv, Orders, StepInv, StepOf
<1>4. CASE IsRankZero(p) /\ GroupOf(p) = d
  <2>1. PICK k \in Nat : k = step[p]
    BY DEF TypeThreads
  <2>2. /\ ~Serving(d) /\ recorded'[d] = k /\ queue'[d] = <<k>>
    BY <1>4, <2>1 DEF Begun, TypeStreams, TypeRequests
  <2>3. p = RankZero(d) /\ RecordedOf(d) /\ done[p] \in Nat /\ recorded[d] \in Nat
    BY <1>1, <1>4, RankFacts DEF Orders, RecordedInv, TypeStreams
  <2>4. Serving(d)'
    BY <1>2, <1>3, <2>1, <2>2, <2>3 DEF Serving, StepOf
  <2>5. recorded[d] < k
    BY <1>2, <1>4, <2>1, <2>3 DEF RecordedOf
  <2>6. InFront(d)'
    BY <2>2 DEF InFront
  <2>7. Unclaimed(r, l)' /\ ~Served(r, l)'
    BY <1>1, <2>6 DEF Unclaimed, Served, Ahead, GroupOf
  <2>8. consumed[r][l] = 1
    BY <1>1, <1>3, <2>2 DEF SlotOf
  <2>9. step[r] <= k
    BY <1>1, <1>2, <1>3, <1>4, <2>1, <2>5 DEF StepOf, Real
  <2>10. step[r] = k /\ pc'[r] \in {"claim", "timeout"} => layer[r] <= l
    <3>1. l \in Nat /\ 1 <= l
      BY DEF Layers
    <3>2. CASE r = p
      BY <1>3, <3>1, <3>2
    <3>3. CASE r # p
      <4>1. step[r] = k /\ pc[r] \in {"claim", "timeout"} => layer[r] = 1
        BY <1>1, <1>3, <2>1, <2>3, <2>5 DEF StepOf
      <4> QED BY <1>2, <3>1, <3>3, <4>1
    <3> QED BY <3>2, <3>3
  <2>11. ~At(d, l)'
    <3>1. At(d, l)' <=> At(d, l)
      BY <1>2 DEF At, WGroup, worker
    <3>2. At(d, l) => Serving(d)
      BY WorkerServes DEF At
    <3> QED BY <2>2, <3>1, <3>2
  <2>12. Free(r, l, k)'
    <3> HIDE DEF At
    <3> QED BY <1>1, <1>2, <2>8, <2>9, <2>10, <2>11 DEF Free, GroupOf
  <2> HIDE DEF Serving, Unclaimed, Served, Free, Given, Taken
  <2> QED BY <1>1, <2>2, <2>4, <2>7, <2>12, SlotNext
<1>5. CASE ~(IsRankZero(p) /\ GroupOf(p) = d)
  <2>1. PICK n \in Nat : n = recorded[d]
    BY DEF TypeStreams
  <2>2. recorded'[d] = n /\ queue'[d] = queue[d]
    BY <1>1, <1>5, <2>1 DEF Begun, TypeStreams, TypeRequests
  <2>3. Serving(d)' = Serving(d) /\ InFront(d)' = InFront(d)
    BY <1>2, <2>1, <2>2 DEF Serving, InFront
  <2>4. \A name \in LaunchNames : Left(r, name, n, l)' <=> Left(r, name, n, l)
    <3>1. ASSUME NEW name \in LaunchNames
          PROVE  Has(stream'[r], Is(name, n, l)) <=> Has(stream[r], Is(name, n, l))
      <4>1. CASE r # p
        BY <1>2, <4>1
      <4>2. CASE r = p
        <5>1. BegunOps(p) = {}
          BY <1>1, <1>5, <4>2 DEF BegunOps
        <5> QED BY <1>2, <4>2, <5>1
      <4> QED BY <4>1, <4>2
    <3> HIDE DEF Has
    <3> QED BY <1>2, <3>1 DEF Left
  <2>5. Free(r, l, n) =>
          step'[r] <= n /\ (step'[r] = n /\ pc'[r] \in {"claim", "timeout"} => layer'[r] <= l)
    <3>1. 1 <= l
      BY DEF Layers
    <3>2. CASE r = p
      BY <1>2, <1>3, <3>1, <3>2 DEF Free
    <3>3. CASE r # p
      BY <1>2, <3>3 DEF Free
    <3> QED BY <3>2, <3>3
  <2> HIDE DEF Serving, InFront, Left, Free
  <2> QED BY <1>1, <1>2, <1>3, <2>1, <2>2, <2>3, <2>4, <2>5, KeptSlot
<1> QED BY <1>4, <1>5

(* What the stream of a served group executes finds its slot given.        *)
LEMMA GivenToStream ==
  ASSUME Setting, TypeThreads, TypeStreams, Orders, SlotInv, NEW r \in Ranks, NEW x \in Ops,
         Popped(r, x), Serving(GroupOf(r)), x.op \in LaunchNames
  PROVE  /\ x.layer \in Layers /\ x = Is(x.op, recorded[GroupOf(r)], x.layer)
         /\ ~Unclaimed(r, x.layer) /\ Served(r, x.layer)
         /\ ~(step[r] <= recorded[GroupOf(r)])
<1>1. PICK d \in Groups : d = GroupOf(r)
  BY RankFacts
<1>2. PICK n \in Nat : n = recorded[d]
  BY DEF TypeStreams
<1>3. x.step = n /\ OpOf(r, x) /\ Has(stream[r], x)
  <2>1. Has(stream[r], x)
    BY DEF Popped
  <2>2. OpOf(r, x) /\ (x.step = recorded[d] \/ x.op = "end")
    BY <1>1, <2>1, ServedStream
  <2> QED BY <1>2, <2>1, <2>2 DEF LaunchNames
<1>4. PICK l \in Layers : l = x.layer
  BY <1>3 DEF OpOf, ForwardOps, LaunchNames
<1>5. x = Is(x.op, n, l)
  BY <1>3, <1>4, OpIs
<1>6. ~(step[r] <= n)
  BY <1>2, <1>3 DEF OpOf, LaunchNames, TypeThreads
<1>7. /\ Unclaimed(r, l) => Free(r, l, n)
      /\ ~Unclaimed(r, l) /\ ~Served(r, l) => Taken(r, l, n)
  <2> HIDE DEF Serving, Unclaimed, Served, Free, Given, Taken
  <2>1. SlotOf(r, l)
    BY DEF SlotInv
  <2> QED BY <1>1, <1>2, <2>1, SlotNow
<1>8. ~Unclaimed(r, l)
  BY <1>6, <1>7 DEF Free
<1>9. ~Taken(r, l, n)
  <2> SUFFICES ASSUME Taken(r, l, n) PROVE FALSE
    OBVIOUS
  <2>1. ready[r][l] = 0 /\ Has(stream[r], Is("wait", n, l))
    BY <1>6 DEF Taken, Left
  <2>2. x.op # "wait"
    BY <1>4, <2>1 DEF Popped
  <2>3. PICK w : w = Is("wait", n, l)
    OBVIOUS
  <2>4. w.op = "wait" /\ w.step = n /\ w.layer = l
    BY <2>3 DEF Is
  <2>5. Earlier(x, w)
    BY <2>1, <2>2, <2>3, <2>4 DEF Popped
  <2>6. Pos(w) = 4 * l
    BY <2>4 DEF Pos
  <2>7. Pos(x) = 4 * l + 1 \/ Pos(x) = 4 * l + 2 \/ Pos(x) = 4 * l + 3
    BY <1>4, <2>2 DEF Pos, LaunchNames
  <2>8. l \in Nat
    BY DEF Layers
  <2> QED BY <1>2, <1>3, <2>4, <2>5, <2>6, <2>7, <2>8 DEF Earlier
<1> QED BY <1>1, <1>2, <1>4, <1>5, <1>6, <1>7, <1>8, <1>9

LEMMA SlotsOverPop ==
  ASSUME Setting, Inv, NEW p \in Ranks, NEW x \in Ops, Popped(p, x)
  PROVE  SlotInv'
<1> SUFFICES ASSUME NEW r \in Ranks, NEW l \in Layers PROVE SlotOf(r, l)'
  BY DEF SlotInv
<1>1. /\ TypeThreads /\ TypeStreams /\ TypeMemory /\ Orders /\ StreamInv /\ SlotInv
  BY TypeParts DEF Inv, Shape, Orders
<1>2. PICK d \in Groups : d = GroupOf(r)
  BY RankFacts
<1>3. PICK n \in Nat : n = recorded[d]
  BY <1>1 DEF TypeStreams
<1>4. /\ UNCHANGED <<plan, step, pc, layer, queue, staging, channel, recorded, out>>
      /\ worker' = worker /\ Has(stream[p], x)
      /\ \A y : Has(stream'[p], y) <=> Has(stream[p], y) /\ y # x
      /\ \A q \in Ranks : q # p => stream'[q] = stream[q]
      /\ ready' = IF x.op = "reset" THEN [ready EXCEPT ![p][x.layer] = 0] ELSE ready
      /\ consumed' = IF x.op = "consume" THEN [consumed EXCEPT ![p][x.layer] = 1] ELSE consumed
  BY DEF Popped, requests, threads
<1>5. SlotOf(r, l) /\ InFront(d)' = InFront(d)
  BY <1>1, <1>4 DEF SlotInv, InFront
<1>6. consumed'[r][l] = consumed[r][l] \/ (consumed'[r][l] = 1 /\ r = p /\ x.op = "consume" /\ x.layer = l)
  BY <1>1, <1>4 DEF TypeMemory
<1>7. CASE ~Serving(d)'
  <2>1. consumed[r][l] = 1
    <3>1. CASE ~Serving(d)
      BY <1>2, <1>5, <3>1 DEF SlotOf
    <3>2. CASE Serving(d)
      <4>1. RankZero(d) = p /\ x.op = "end"
        <5>1. RankZero(d) \in Ranks
          BY RankFacts
        <5>2. RankZero(d) # p \/ x.op # "end" => done'[RankZero(d)] = done[RankZero(d)]
          BY <1>1, <5>1, DoneGrows
        <5> QED BY <1>4, <1>7, <3>2, <5>2 DEF Serving
      <4>2. GroupOf(p) = d /\ IsRankZero(p) /\ r \in Targets(d)
        BY <1>2, <4>1, RankFacts
      <4> QED BY <3>2, <4>1, <4>2, EndOfService
    <3> QED BY <3>1, <3>2
  <2>2. consumed'[r][l] = 1
    BY <1>6, <2>1
  <2> HIDE DEF Serving
  <2> QED BY <1>2, <1>7, <2>2, UnservedSlot
<1>8. CASE Serving(d)' /\ (r # p \/ x.op \notin LaunchNames \/ x.layer # l)
  <2>1. Serving(d) /\ Serving(d)' = Serving(d)
    BY <1>1, <1>8, DoneGrows
  <2>2. consumed'[r][l] = consumed[r][l]
    BY <1>6, <1>8 DEF LaunchNames
  <2>3. ready'[r][l] = ready[r][l]
    BY <1>1, <1>4, <1>8 DEF TypeMemory, LaunchNames
  <2>4. ASSUME NEW name \in LaunchNames PROVE Left(r, name, n, l)' <=> Left(r, name, n, l)
    <3>1. r # p \/ Is(name, n, l) # x
      BY <1>8 DEF Is
    <3>2. Has(stream'[r], Is(name, n, l)) <=> Has(stream[r], Is(name, n, l))
      BY <1>4, <3>1
    <3> HIDE DEF Has
    <3> QED BY <1>4, <3>2 DEF Left
  <2>5. Free(r, l, n) =>
          step'[r] <= n /\ (step'[r] = n /\ pc'[r] \in {"claim", "timeout"} => layer'[r] <= l)
    BY <1>4 DEF Free
  <2> HIDE DEF Serving, InFront, Left, Free
  <2> QED BY <1>2, <1>3, <1>4, <1>5, <2>1, <2>2, <2>3, <2>4, <2>5, KeptSlot
<1>9. CASE Serving(d)' /\ r = p /\ x.op \in LaunchNames /\ x.layer = l
  <2>1. Serving(d)
    BY <1>1, <1>9, DoneGrows
  <2>2. x = Is(x.op, n, l) /\ ~Unclaimed(r, l) /\ Served(r, l) /\ ~(step[r] <= n)
    BY <1>1, <1>2, <1>3, <1>9, <2>1, GivenToStream
  <2>3. Given(r, l, n)
    <3> HIDE DEF Serving, Unclaimed, Served, Free, Given, Taken
    <3> QED BY <1>2, <1>3, <1>5, <2>1, <2>2, SlotNow
  <2>4. ~Unclaimed(r, l)' /\ Served(r, l)'
    <3>1. /\ Ahead(d, l)' <=> Ahead(d, l)
          /\ At(d, l)' <=> At(d, l)
          /\ wpc' = wpc /\ wtarget' = wtarget
      <4> HIDE DEF InFront
      <4> QED BY <1>4, <1>5, WorkerAway
    <3> HIDE DEF Ahead, At
    <3> QED BY <1>2, <2>2, <3>1 DEF Unclaimed, Served, GroupOf
  <2>5. ASSUME NEW name \in LaunchNames
        PROVE  /\ Left(r, name, n, l)' <=> Left(r, name, n, l) /\ name # x.op
               /\ name = x.op => Left(r, name, n, l)
    <3>1. Is(name, n, l) = x <=> name = x.op
      BY <2>2 DEF Is
    <3>2. Has(stream'[r], Is(name, n, l)) <=> Has(stream[r], Is(name, n, l)) /\ name # x.op
      BY <1>4, <1>9, <3>1
    <3> HIDE DEF Has
    <3> QED BY <1>4, <1>9, <2>2, <3>1, <3>2 DEF Left
  <2>6. /\ ready'[r][l] = IF x.op = "reset" THEN 0 ELSE ready[r][l]
        /\ consumed'[r][l] = IF x.op = "consume" THEN 1 ELSE consumed[r][l]
        /\ out'[r][l] = out[r][l]
    BY <1>1, <1>4, <1>9 DEF TypeMemory
  <2>7. Given(r, l, n)'
    <3>1. /\ Left(r, "copy", n, l)' => Left(r, "copy", n, l)
          /\ Left(r, "reset", n, l)' <=> Left(r, "reset", n, l) /\ x.op # "reset"
          /\ Left(r, "consume", n, l)' <=> Left(r, "consume", n, l) /\ x.op # "consume"
      BY <2>5 DEF LaunchNames
    <3> HIDE DEF Left, Data
    <3> QED BY <2>3, <2>6, <3>1 DEF Given
  <2> HIDE DEF Serving, Unclaimed, Served, Free, Given, Taken
  <2> QED BY <1>2, <1>3, <1>4, <1>9, <2>4, <2>7, SlotNext
<1> QED BY <1>7, <1>8, <1>9

(* Where the worker is in its batch: the groups behind, the group it is at, *)
(* and the groups that are still ahead of it.                               *)
Stays ==
  /\ wpc # "poll" /\ wpc' # "poll"
  /\ UNCHANGED <<batch, wlayer, windex, queue, staging, channel>>

LEMMA AheadOfWorker ==
  ASSUME TypeWorker, WorkerShape, WorkerInv, wpc # "poll"
  PROVE  /\ ~InFront(WGroup)
         /\ \A i \in 1 .. Len(batch) : batch[i].group = WGroup <=> i = windex
         /\ windex \in 1 .. Len(batch)
<1>1. windex \in 1 .. Len(batch) /\ ~InFront(WGroup)
  BY WorkerAt, WorkerServes
<1> QED BY <1>1 DEF WorkerShape, WGroup

LEMMA StaysThere ==
  ASSUME TypeWorker, WorkerShape, WorkerInv, Stays, NEW d, NEW l \in Layers
  PROVE  /\ WGroup' = WGroup
         /\ d = WGroup /\ l = wlayer =>
              /\ Ahead(d, l) <=> wpc = "wait"
              /\ Ahead(d, l)' <=> wpc' = "wait"
              /\ At(d, l) <=> wpc # "wait"
              /\ At(d, l)' <=> wpc' # "wait"
         /\ ~(d = WGroup /\ l = wlayer) =>
              /\ Ahead(d, l)' <=> Ahead(d, l)
              /\ ~At(d, l) /\ ~At(d, l)'
<1>1. /\ ~InFront(WGroup) /\ windex \in 1 .. Len(batch) /\ windex \in Nat /\ wlayer \in Nat
      /\ \A i \in 1 .. Len(batch) : batch[i].group = WGroup <=> i = windex
  BY AheadOfWorker DEF Stays, TypeWorker, Layers
<1>2. WGroup' = WGroup /\ \A e : InFront(e)' = InFront(e)
  BY DEF Stays, WGroup, InFront
<1>3. UNCHANGED <<batch, wlayer, windex>> /\ wpc # "poll" /\ wpc' # "poll"
  BY DEF Stays
<1>4. At(d, l) <=> wpc # "wait" /\ d = WGroup /\ l = wlayer
  BY <1>3 DEF At
<1>5. At(d, l)' <=> wpc' # "wait" /\ d = WGroup /\ l = wlayer
  BY <1>2, <1>3 DEF At
<1> HIDE DEF InFront, WGroup
<1>6. ASSUME d = WGroup, l = wlayer
      PROVE  (Ahead(d, l) <=> wpc = "wait") /\ (Ahead(d, l)' <=> wpc' = "wait")
  <2>1. ~InFront(d) /\ ~InFront(d)'
    BY <1>1, <1>2, <1>6
  <2>2. Ahead(d, l) <=> wpc = "wait"
    BY <1>1, <1>6, <2>1 DEF Ahead
  <2>3. Ahead(d, l)' <=> wpc' = "wait"
    BY <1>1, <1>3, <1>6, <2>1 DEF Ahead
  <2> QED BY <2>2, <2>3
<1>7. ASSUME ~(d = WGroup /\ l = wlayer) PROVE Ahead(d, l)' <=> Ahead(d, l)
  <2>1. ASSUME NEW i \in 1 .. Len(batch), batch[i].group = d
        PROVE  ~(wlayer = l /\ windex = i)
    BY <1>1, <1>7, <2>1
  <2> QED BY <1>2, <1>3, <2>1 DEF Ahead
<1> QED BY <1>2, <1>4, <1>5, <1>6, <1>7

(* The slots the worker is at: of the targets of its group, in its layer.  *)
Waits(q) == wpc = "wait" \/ (wpc \in {"ready", "consumed"} /\ q[2] >= wtarget)
HasIt(q) == wpc = "publish" /\ q[2] < wtarget

Here(q, l, n) ==
  /\ Waits(q) => Free(q, l, n)
  /\ HasIt(q) => Given(q, l, n)
  /\ ~Waits(q) /\ ~HasIt(q) => Taken(q, l, n)

LEMMA HereNow ==
  ASSUME TypeStreams, TypeWorker, WorkerShape, WorkerInv, SlotInv, wpc # "poll",
         NEW q \in Ranks, GroupOf(q) = WGroup, NEW l \in Layers, l = wlayer,
         NEW n, n = recorded[WGroup]
  PROVE  Here(q, l, n)
<1>1. PICK d \in Groups : d = WGroup /\ Serving(d) /\ ~InFront(d)
  BY WorkerServes
<1>2. (Ahead(d, l) <=> wpc = "wait") /\ (At(d, l) <=> wpc # "wait") /\ wpc # "poll"
  <2>1. At(d, l) <=> wpc # "wait"
    BY <1>1 DEF At
  <2>2. wlayer \in Nat /\ windex \in 1 .. Len(batch) /\ windex \in Nat
        /\ \A i \in 1 .. Len(batch) : batch[i].group = d <=> i = windex
    BY <1>1, AheadOfWorker DEF TypeWorker, Layers
  <2> HIDE DEF InFront
  <2>3. Ahead(d, l) <=> wpc = "wait"
    BY <1>1, <2>2 DEF Ahead
  <2> QED BY <2>1, <2>3
<1>3. (Unclaimed(q, l) <=> Waits(q)) /\ (Served(q, l) <=> HasIt(q))
  <2> HIDE DEF Ahead, At
  <2> QED BY <1>1, <1>2 DEF Unclaimed, Served, Waits, HasIt
<1>4. SlotOf(q, l)
  BY DEF SlotInv
<1> HIDE DEF Serving, Unclaimed, Served, Free, Given, Taken, Waits, HasIt
<1>5. IF Serving(d)
        THEN /\ Unclaimed(q, l) => Free(q, l, n)
             /\ Served(q, l) => Given(q, l, n)
             /\ ~Unclaimed(q, l) /\ ~Served(q, l) => Taken(q, l, n)
        ELSE consumed[q][l] = 1
  BY <1>1, <1>4, SlotNow
<1> QED BY <1>1, <1>3, <1>5 DEF Here

(* The worker changes no other slot, and these as it should.               *)
LEMMA SlotsOverStay ==
  ASSUME TypeStreams, TypeWorker, WorkerShape, WorkerInv, SlotInv, Stays,
         UNCHANGED <<threads, streams>>,
         \A q \in Ranks, m \in Layers : ~(GroupOf(q) = WGroup /\ m = wlayer) =>
            /\ ready'[q][m] = ready[q][m] /\ consumed'[q][m] = consumed[q][m]
            /\ out'[q][m] = out[q][m],
         NEW h \in Layers, h = wlayer, NEW k, k = recorded[WGroup],
         \A q \in Ranks : GroupOf(q) = WGroup => Here(q, h, k)'
  PROVE  SlotInv'
<1> SUFFICES ASSUME NEW r \in Ranks, NEW l \in Layers PROVE SlotOf(r, l)'
  BY DEF SlotInv
<1>1. PICK d \in Groups : d = GroupOf(r)
  BY RankFacts
<1>2. PICK n \in Nat : n = recorded[d]
  BY DEF TypeStreams
<1>3. UNCHANGED <<recorded, done, stream, step, pc, layer>>
  BY DEF threads, streams
<1>4. Serving(d)' = Serving(d) /\ SlotOf(r, l)
  BY <1>3 DEF Serving, SlotInv
<1>5. /\ d = WGroup /\ l = wlayer =>
              /\ Ahead(d, l)' <=> wpc' = "wait"
              /\ At(d, l)' <=> wpc' # "wait"
      /\ ~(d = WGroup /\ l = wlayer) =>
              /\ Ahead(d, l)' <=> Ahead(d, l)
              /\ ~At(d, l) /\ ~At(d, l)'
  BY StaysThere
<1>6. CASE d = WGroup /\ l = wlayer
  <2>1. Serving(d)'
    BY <1>4, <1>6, WorkerServes DEF Stays
  <2>2. (Unclaimed(r, l)' <=> Waits(r)') /\ (Served(r, l)' <=> HasIt(r)')
    <3>1. wpc' # "poll"
      BY DEF Stays
    <3> HIDE DEF Ahead, At
    <3> QED BY <1>1, <1>5, <1>6, <3>1 DEF Unclaimed, Served, Waits, HasIt, GroupOf
  <2>3. Here(r, l, n)'
    BY <1>1, <1>2, <1>6
  <2> HIDE DEF Serving, Unclaimed, Served, Free, Given, Taken, Waits, HasIt
  <2> QED BY <1>1, <1>2, <1>3, <2>1, <2>2, <2>3, SlotNext DEF Here
<1>7. CASE ~(d = WGroup /\ l = wlayer)
  <2>1. (Unclaimed(r, l)' <=> Ahead(d, l)) /\ (Served(r, l)' <=> ~Ahead(d, l))
    <3> HIDE DEF Ahead, At
    <3> QED BY <1>1, <1>5, <1>7 DEF Unclaimed, Served, GroupOf
  <2>2. (Unclaimed(r, l) <=> Ahead(d, l)) /\ (Served(r, l) <=> ~Ahead(d, l))
    <3> HIDE DEF Ahead, At
    <3> QED BY <1>1, <1>5, <1>7 DEF Unclaimed, Served
  <2>3. /\ ready'[r][l] = ready[r][l] /\ consumed'[r][l] = consumed[r][l] /\ out'[r][l] = out[r][l]
    BY <1>1, <1>7
  <2>4. Free(r, l, n) => Free(r, l, n)'
    <3> HIDE DEF At
    <3> QED BY <1>1, <1>3, <1>5, <1>7, <2>3 DEF Free, GroupOf
  <2>5. Given(r, l, n) => Given(r, l, n)'
    <3>1. \A name : Left(r, name, n, l)' <=> Left(r, name, n, l)
      BY <1>3 DEF Left, Has
    <3> HIDE DEF Left
    <3> QED BY <2>3, <3>1 DEF Given
  <2> HIDE DEF Serving, Unclaimed, Served, Free, Given, Taken, Ahead
  <2>6. IF Serving(d)
          THEN /\ Unclaimed(r, l) => Free(r, l, n)
               /\ Served(r, l) => Given(r, l, n)
               /\ ~Unclaimed(r, l) /\ ~Served(r, l) => Taken(r, l, n)
          ELSE consumed[r][l] = 1
    BY <1>1, <1>2, <1>4, SlotNow
  <2>7. IF Serving(d)'
          THEN /\ Unclaimed(r, l)' => Free(r, l, n)'
               /\ Served(r, l)' => Given(r, l, n)'
               /\ ~Unclaimed(r, l)' /\ ~Served(r, l)' => Taken(r, l, n)'
          ELSE consumed'[r][l] = 1
    BY <1>4, <2>1, <2>2, <2>3, <2>4, <2>5, <2>6
  <2> QED BY <1>1, <1>2, <1>3, <2>7, SlotNext
<1> QED BY <1>6, <1>7

AtWork ==
  /\ TypeThreads /\ TypeStreams /\ TypeMemory /\ TypeWorker /\ WorkerShape /\ WorkerInv /\ SlotInv
  /\ wpc # "poll"

(* Of a slot the worker is at, what is untouched.                          *)
LEMMA SameFree ==
  ASSUME NEW q, NEW l, NEW n, Free(q, l, n), UNCHANGED <<threads, streams>>,
         consumed'[q][l] = consumed[q][l], wpc' # "consumed" \/ ready'[q][l] = 0 \/ q[2] # wtarget'
  PROVE  Free(q, l, n)'
<1>1. UNCHANGED <<step, pc, layer>>
  BY DEF threads
<1> HIDE DEF At
<1> QED BY <1>1 DEF Free

LEMMA SameTaken ==
  ASSUME NEW q, NEW l, NEW n, Taken(q, l, n), UNCHANGED <<threads, streams>>,
         consumed'[q][l] = consumed[q][l], ready'[q][l] = ready[q][l],
         wpc' = "publish" \/ (wpc' = "fanout" /\ q[2] < wtarget') => out'[q][l] = Data(n, TRUE)
  PROVE  Taken(q, l, n)'
<1>1. Left(q, "wait", n, l)' <=> Left(q, "wait", n, l)
  BY DEF threads, streams, Left, Has
<1> HIDE DEF Left, Data
<1> QED BY <1>1 DEF Taken

LEMMA SlotsOverFlags ==
  ASSUME AtWork, WaitConsumed \/ ClaimReady \/ ClaimConsumed
  PROVE  SlotInv'
<1> PICK l \in Layers : l = wlayer
  BY DEF AtWork, TypeWorker
<1>1. PICK d \in Groups : d = WGroup
  BY WorkerAt DEF AtWork
<1>2. PICK n \in Nat : n = recorded[d]
  BY DEF AtWork, TypeStreams
<1>3. /\ UNCHANGED <<threads, streams>> /\ UNCHANGED <<requests, batch, wlayer, windex, out>>
      /\ wpc' # "poll"
  BY DEF WaitConsumed, ClaimReady, ClaimConsumed
<1>4. Stays
  BY <1>3 DEF Stays, AtWork, requests
<1>5. \A q \in Ranks : GroupOf(q) = d => Here(q, l, n) /\ q[2] \in Nat /\ q[2] < TpSize
  BY <1>1, <1>2, <1>4, HereNow, RankFacts DEF AtWork
<1>6. wtarget \in Nat /\ (wpc # "wait" => wtarget < TpSize /\ WTarget \in Ranks)
      /\ (\A q \in Ranks : GroupOf(q) = d => (q = WTarget <=> q[2] = wtarget))
  <2>1. wtarget \in Nat
    BY DEF AtWork, TypeWorker
  <2>2. wpc # "wait" => wtarget < TpSize /\ WTarget \in Ranks
    <3>1. wpc # "wait" => wpc \in {"ready", "consumed"}
      BY DEF WaitConsumed, ClaimReady, ClaimConsumed
    <3> QED BY <3>1, WorkerAt DEF AtWork, WorkerShape
  <2>3. ASSUME NEW q \in Ranks, GroupOf(q) = d PROVE q = WTarget <=> q[2] = wtarget
    BY <1>1, <2>3, RankFacts DEF WTarget
  <2> QED BY <2>1, <2>2, <2>3
<1> HIDE DEF Free, Given, Taken
<1>7. CASE WaitConsumed
  <2>1. /\ wpc = "wait" /\ wpc' = "ready" /\ wtarget' = 0 /\ UNCHANGED <<ready, consumed>>
    BY <1>7 DEF WaitConsumed, flags
  <2>2. ASSUME NEW q \in Ranks, GroupOf(q) = d PROVE Here(q, l, n)'
    <3>1. Free(q, l, n)
      BY <1>5, <2>1, <2>2 DEF Here, Waits
    <3>2. Free(q, l, n)'
      BY <1>3, <2>1, <3>1, SameFree
    <3> QED BY <1>5, <2>1, <2>2, <3>2 DEF Here, Waits, HasIt
  <2> HIDE DEF Here
  <2> QED BY <1>1, <1>2, <1>3, <1>4, <2>1, <2>2, SlotsOverStay DEF AtWork
<1>8. CASE ClaimReady
  <2>1. /\ wpc = "ready" /\ wpc' = "consumed" /\ wtarget' = wtarget /\ consumed' = consumed
        /\ ready' = [ready EXCEPT ![WTarget][l] = 0]
    BY <1>8 DEF ClaimReady, Lower, FirstFlag
  <2>2. \A q \in Ranks, m \in Layers :
          ready'[q][m] = IF q = WTarget /\ m = l THEN 0 ELSE ready[q][m]
    BY <1>6, <2>1 DEF AtWork, TypeMemory
  <2>3. GroupOf(WTarget) = d
    BY <1>1, <1>6, <2>1, WorkerAt DEF AtWork
  <2>4. ASSUME NEW q \in Ranks, GroupOf(q) = d PROVE Here(q, l, n)'
    <3>1. CASE q[2] >= wtarget
      <4>1. Free(q, l, n)
        BY <1>5, <2>1, <2>4, <3>1 DEF Here, Waits
      <4>2. ready'[q][l] = 0 \/ q[2] # wtarget
        BY <1>6, <2>2, <2>4
      <4>3. Free(q, l, n)'
        BY <1>3, <2>1, <4>1, <4>2, SameFree
      <4> QED BY <2>1, <3>1, <4>3 DEF Here, Waits, HasIt
    <3>2. CASE ~(q[2] >= wtarget)
      <4>1. Taken(q, l, n)
        BY <1>5, <2>1, <2>4, <3>2 DEF Here, Waits, HasIt
      <4>2. ready'[q][l] = ready[q][l]
        BY <1>5, <1>6, <2>2, <2>4, <3>2
      <4>3. Taken(q, l, n)'
        BY <1>3, <2>1, <4>1, <4>2, SameTaken
      <4> QED BY <2>1, <3>2, <4>3 DEF Here, Waits, HasIt
    <3> QED BY <3>1, <3>2
  <2> HIDE DEF Here
  <2> QED BY <1>1, <1>2, <1>3, <1>4, <2>1, <2>2, <2>3, <2>4, SlotsOverStay DEF AtWork
<1>9. CASE ClaimConsumed
  <2>1. /\ wpc = "consumed" /\ ready' = ready
        /\ consumed' = [consumed EXCEPT ![WTarget][l] = 0]
        /\ \/ wtarget < TpSize - 1 /\ wpc' = "ready" /\ wtarget' = wtarget + 1
           \/ ~(wtarget < TpSize - 1) /\ wpc' = "compute"
    BY <1>9 DEF ClaimConsumed, Lower, FirstFlag, MoreTargets
  <2>2. \A q \in Ranks, m \in Layers :
          consumed'[q][m] = IF q = WTarget /\ m = l THEN 0 ELSE consumed[q][m]
    BY <1>6, <2>1 DEF AtWork, TypeMemory
  <2>3. GroupOf(WTarget) = d
    BY <1>1, <1>6, <2>1, WorkerAt DEF AtWork
  <2>4. ASSUME NEW q \in Ranks, GroupOf(q) = d PROVE Here(q, l, n)'
    <3>1. q[2] \in Nat /\ q[2] < TpSize /\ Here(q, l, n)
      BY <1>5, <2>4
    <3>2. CASE q[2] > wtarget
      <4>1. Free(q, l, n)
        BY <1>6, <2>1, <3>1, <3>2 DEF Here, Waits
      <4>2. consumed'[q][l] = consumed[q][l]
        BY <1>6, <2>2, <2>4, <3>1, <3>2
      <4>3. wpc' = "ready" /\ wtarget' = wtarget + 1
        BY <1>6, <2>1, <3>1, <3>2
      <4>4. Free(q, l, n)'
        BY <1>3, <4>1, <4>2, <4>3, SameFree
      <4>5. q[2] >= wtarget'
        BY <1>6, <3>1, <3>2, <4>3
      <4> QED BY <4>3, <4>4, <4>5 DEF Here, Waits, HasIt
    <3>3. CASE q[2] <= wtarget
      <4>1. Taken(q, l, n)'
        <5>1. CASE q[2] = wtarget
          <6>1. Free(q, l, n)
            BY <1>6, <2>1, <3>1, <5>1 DEF Here, Waits
          <6>2. At(GroupOf(q), l)
            BY <1>1, <2>1, <2>4 DEF At
          <6>3. ready[q][l] = 0 /\ step[q] <= n
            BY <2>1, <5>1, <6>1, <6>2 DEF Free
          <6>4. consumed'[q][l] = 0 /\ ready'[q][l] = 0
            BY <1>6, <2>1, <2>2, <2>4, <5>1, <6>3
          <6>5. Left(q, "wait", n, l)'
            BY <1>3, <6>3 DEF Left, threads
          <6> HIDE DEF Left
          <6> QED BY <2>1, <6>4, <6>5 DEF Taken
        <5>2. CASE q[2] < wtarget
          <6>1. Taken(q, l, n)
            BY <1>6, <2>1, <3>1, <5>2 DEF Here, Waits, HasIt
          <6>2. consumed'[q][l] = consumed[q][l]
            BY <1>6, <2>2, <2>4, <3>1, <5>2
          <6> QED BY <1>3, <2>1, <6>1, <6>2, SameTaken
        <5> QED BY <1>6, <3>1, <3>3, <5>1, <5>2
      <4>2. ~(wpc' = "ready" /\ q[2] >= wtarget') /\ wpc' # "wait" /\ wpc' # "consumed"
            /\ wpc' # "publish"
        BY <1>6, <2>1, <3>1, <3>3
      <4> QED BY <4>1, <4>2 DEF Here, Waits, HasIt
    <3> QED BY <1>6, <3>1, <3>2, <3>3
  <2> HIDE DEF Here
  <2> QED BY <1>1, <1>2, <1>3, <1>4, <2>1, <2>2, <2>3, <2>4, SlotsOverStay DEF AtWork
<1> QED BY <1>7, <1>8, <1>9

LEMMA SetASlot ==
  ASSUME NEW S, NEW f \in [Ranks -> [Layers -> S]], NEW r \in Ranks, NEW l \in Layers, NEW v
  PROVE  /\ [f EXCEPT ![r][l] = v][r][l] = v
         /\ \A q \in Ranks, m \in Layers :
              q # r \/ m # l => [f EXCEPT ![r][l] = v][q][m] = f[q][m]
OBVIOUS

LEMMA SlotsOverOutputs ==
  ASSUME AtWork, StartCompute \/ EndCompute \/ FanOut
  PROVE  SlotInv'
<1> PICK l \in Layers : l = wlayer
  BY DEF AtWork, TypeWorker
<1>1. PICK d \in Groups : d = WGroup
  BY WorkerAt DEF AtWork
<1>2. PICK n \in Nat : n = recorded[d]
  BY DEF AtWork, TypeStreams
<1>3. /\ UNCHANGED <<threads, streams>> /\ UNCHANGED <<requests, batch, wlayer, windex>>
      /\ UNCHANGED <<ready, consumed>> /\ wpc' # "poll"
  BY DEF StartCompute, EndCompute, FanOut, flags
<1>4. Stays
  BY <1>3 DEF Stays, AtWork, requests
<1>5. /\ \A q \in Ranks : GroupOf(q) = d => Here(q, l, n) /\ q[2] \in Nat /\ q[2] < TpSize
      /\ RankZero(d) \in Ranks /\ GroupOf(RankZero(d)) = d /\ RankZero(d)[2] = 0
  BY <1>1, <1>2, <1>4, HereNow, RankFacts DEF AtWork
<1>6. wtarget \in Nat /\ (wtarget = TpSize \/ wtarget < TpSize)
      /\ (\A q \in Ranks : GroupOf(q) = d => (q = WTarget <=> q[2] = wtarget))
      /\ (wtarget < TpSize => WTarget \in Ranks /\ GroupOf(WTarget) = d)
  <2>1. wtarget \in 0 .. TpSize
    BY DEF AtWork, TypeWorker
  <2>2. ASSUME NEW q \in Ranks, GroupOf(q) = d PROVE q = WTarget <=> q[2] = wtarget
    BY <1>1, <2>2, RankFacts DEF WTarget
  <2>3. wtarget < TpSize => WTarget \in Ranks /\ GroupOf(WTarget) = d
    BY <1>1, WorkerAt DEF AtWork
  <2> QED BY <2>1, <2>2, <2>3
<1>7. wpc \in {"compute", "computing", "fanout"}
  BY DEF StartCompute, EndCompute, FanOut
<1>8. \A q \in Ranks : GroupOf(q) = d => Taken(q, l, n)
  BY <1>5, <1>7 DEF Here, Waits, HasIt
<1>9. PICK t \in Ranks : GroupOf(t) = d /\ \A q \in Ranks : q # t => out'[q] = out[q]
  <2>1. CASE StartCompute \/ EndCompute
    BY <1>1, <1>5, <2>1 DEF StartCompute, EndCompute, AtWork, TypeMemory
  <2>2. CASE FanOut
    BY <1>5, <1>6, <2>2 DEF FanOut, AtWork, TypeMemory
  <2> QED BY <2>1, <2>2
<1>10. \A q \in Ranks, m \in Layers : ~(GroupOf(q) = d /\ m = l) => out'[q][m] = out[q][m]
  <2>1. \A q \in Ranks, m \in Layers : m # l => out'[q][m] = out[q][m]
    <3>1. \A r, v : r \in Ranks /\ out' = [out EXCEPT ![r][l] = v] =>
            \A q \in Ranks, m \in Layers : m # l => out'[q][m] = out[q][m]
      BY SetASlot DEF AtWork, TypeMemory
    <3>2. \/ \E r, v : r \in Ranks /\ out' = [out EXCEPT ![r][l] = v]
          \/ out' = out
      BY <1>1, <1>5, <1>6 DEF StartCompute, EndCompute, FanOut
    <3> QED BY <3>1, <3>2
  <2> QED BY <1>9, <2>1
<1>11. ASSUME NEW q \in Ranks, GroupOf(q) = d,
              wpc' = "publish" \/ (wpc' = "fanout" /\ q[2] < wtarget')
       PROVE  out'[q][l] = Data(n, TRUE)
  <2>1. q[2] \in Nat /\ q[2] < TpSize /\ Taken(q, l, n)
    BY <1>5, <1>8, <1>11
  <2>2. CASE StartCompute
    BY <1>11, <2>2 DEF StartCompute
  <2>3. CASE EndCompute
    <3>1. wpc = "computing" /\ wpc' = "fanout" /\ wtarget' = 1
          /\ out' = [out EXCEPT ![RankZero(d)][l] = IF inputs[d] = reading THEN reading ELSE Torn]
      BY <1>1, <2>3 DEF EndCompute
    <3>2. q = RankZero(d)
      <4>1. q[2] = 0
        BY <1>11, <2>1, <3>1
      <4> QED BY <1>11, <4>1, RankFacts DEF IsRankZero
    <3>3. reading = Data(n, TRUE) /\ inputs[d] = Data(n, TRUE)
      <4>1. batch[windex].step = n /\ windex \in 1 .. Len(batch)
        BY <1>1, <1>2, WorkerServes, WorkerAt DEF AtWork
      <4>2. StillReads(windex) /\ Unserved(windex)
        BY <3>1, <4>1 DEF StillReads, Unserved
      <4>3. BatchOf(windex) /\ reading = Data(batch[windex].step, TRUE)
        BY <3>1, <4>1 DEF AtWork, WorkerInv
      <4> HIDE DEF Data
      <4> QED BY <1>1, <4>1, <4>2, <4>3 DEF BatchOf, WGroup
    <3> HIDE DEF Data
    <3>4. out' = [out EXCEPT ![q][l] = Data(n, TRUE)]
      BY <3>1, <3>2, <3>3
    <3>5. PICK v : v = Data(n, TRUE)
      OBVIOUS
    <3>6. [out EXCEPT ![q][l] = v][q][l] = v
      BY SetASlot DEF AtWork, TypeMemory
    <3> QED BY <3>4, <3>5, <3>6
  <2>4. CASE FanOut /\ wtarget < TpSize
    <3>1. /\ out' = [out EXCEPT ![WTarget][l] = out[RankZero(d)][l]]
          /\ wtarget' = wtarget + 1 /\ wpc = "fanout" /\ wpc' = "fanout"
      BY <1>1, <2>4 DEF FanOut
    <3>2. wtarget >= 1
      BY <3>1 DEF AtWork, WorkerShape
    <3>3. CASE q[2] < wtarget
      <4>1. out[q][l] = Data(n, TRUE)
        BY <2>1, <3>1, <3>3 DEF Taken
      <4>2. q # WTarget
        BY <1>6, <1>11, <2>1, <3>3
      <4>3. out'[q][l] = out[q][l]
        BY <3>1, <4>2 DEF AtWork, TypeMemory
      <4> QED BY <4>1, <4>3
    <3>4. CASE q[2] = wtarget
      <4>1. q = WTarget
        BY <1>6, <1>11, <3>4
      <4>2. Taken(RankZero(d), l, n) /\ RankZero(d)[2] < wtarget
        BY <1>5, <1>6, <1>8, <3>2
      <4>3. out[RankZero(d)][l] = Data(n, TRUE)
        BY <3>1, <4>2 DEF Taken
      <4>4. out'[q][l] = out[RankZero(d)][l]
        BY <3>1, <4>1 DEF AtWork, TypeMemory
      <4> QED BY <4>3, <4>4
    <3>5. q[2] < wtarget + 1
      BY <1>11, <3>1
    <3>6. q[2] < wtarget \/ q[2] = wtarget
      BY <1>6, <2>1, <3>5
    <3> QED BY <3>3, <3>4, <3>6
  <2>5. CASE FanOut /\ ~(wtarget < TpSize)
    <3>1. wpc = "fanout" /\ out' = out
      BY <2>5 DEF FanOut
    <3>2. q[2] < wtarget
      BY <1>6, <2>1, <2>5
    <3> QED BY <2>1, <3>1, <3>2 DEF Taken
  <2> QED BY <2>2, <2>3, <2>4, <2>5
<1>12. ASSUME NEW q \in Ranks, GroupOf(q) = d PROVE Here(q, l, n)'
  <2>1. Taken(q, l, n)'
    <3> HIDE DEF Taken, Data
    <3> QED BY <1>3, <1>8, <1>11, <1>12, SameTaken
  <2>2. ~Waits(q)' /\ ~HasIt(q)'
    <3>1. wpc' \in {"computing", "fanout"} \/ (wpc' = "publish" /\ wtarget' = 0)
      BY DEF StartCompute, EndCompute, FanOut
    <3>2. q[2] \in Nat
      BY <1>5, <1>12
    <3> QED BY <3>1, <3>2 DEF Waits, HasIt
  <2> QED BY <2>1, <2>2 DEF Here
<1> HIDE DEF Here
<1> QED BY <1>1, <1>2, <1>3, <1>4, <1>10, <1>12, SlotsOverStay DEF AtWork

LEMMA SameGiven ==
  ASSUME NEW q, NEW l, NEW n, Given(q, l, n), UNCHANGED <<threads, streams>>,
         consumed'[q][l] = consumed[q][l], ready'[q][l] = ready[q][l], out'[q][l] = out[q][l]
  PROVE  Given(q, l, n)'
<1>1. \A name : Left(q, name, n, l)' <=> Left(q, name, n, l)
  BY DEF threads, streams, Left, Has
<1> HIDE DEF Left, Data
<1> QED BY <1>1 DEF Given

(* When the wait of a layer is left, so are the operations behind it.      *)
LEMMA LeftBehindWait ==
  ASSUME TypeThreads, TypeStreams, Orders, NEW q \in Ranks, NEW l \in Layers,
         NEW n \in Nat, Real(GroupOf(q), n), Left(q, "wait", n, l)
  PROVE  Left(q, "copy", n, l) /\ Left(q, "reset", n, l) /\ Left(q, "consume", n, l)
<1>1. CASE step[q] <= n
  BY <1>1 DEF Left
<1>2. CASE ~(step[q] <= n)
  <2>1. Has(stream[q], Is("wait", n, l))
    BY <1>2 DEF Left
  <2>2. RestOf(q, n) /\ n < step[q] /\ plan[GroupOf(q)][n] # "capture"
    BY <1>2 DEF Orders, StreamInv, StreamOf, Real, TypeThreads
  <2>3. \A x, y \in ForwardOps(n) : Has(stream[q], x) /\ Pos(x) < Pos(y) => Has(stream[q], y)
    BY <2>2 DEF RestOf
  <2>4. l \in 0 .. NumLayers /\ l \in Nat
    BY DEF Layers
  <2>5. ASSUME NEW name \in LaunchNames
        PROVE  /\ Is(name, n, l) \in ForwardOps(n) /\ Is(name, n, l).op = name
               /\ Is(name, n, l).layer = l
    <3>1. name \in OpNames
      BY DEF LaunchNames, OpNames
    <3> QED BY <2>4, <3>1, IsOp DEF ForwardOps, LaunchNames
  <2>6. ASSUME NEW name \in LaunchNames, name # "wait" PROVE Has(stream[q], Is(name, n, l))
    <3>1. PICK w : w = Is("wait", n, l)
      OBVIOUS
    <3>2. PICK y : y = Is(name, n, l)
      OBVIOUS
    <3>3. w.op = "wait" /\ w.layer = l /\ y.op = name /\ y.layer = l
      BY <3>1, <3>2 DEF Is
    <3>4. Pos(w) = 4 * l
      BY <3>3 DEF Pos
    <3>5. Pos(y) = 4 * l + 1 \/ Pos(y) = 4 * l + 2 \/ Pos(y) = 4 * l + 3
      BY <2>6, <3>3 DEF Pos, LaunchNames
    <3>6. w \in ForwardOps(n) /\ y \in ForwardOps(n)
      BY <2>5, <3>1, <3>2 DEF LaunchNames
    <3>7. Pos(w) < Pos(y)
      BY <2>4, <3>4, <3>5
    <3> HIDE DEF Has, Is
    <3> QED BY <2>1, <2>3, <3>1, <3>2, <3>6, <3>7
  <2> QED BY <2>6 DEF Left, LaunchNames
<1> QED BY <1>1, <1>2

(* The worker publishes a target's output.                                 *)
LEMMA Published ==
  ASSUME AtWork, Orders, Publish, NEW d \in Groups, d = WGroup, NEW n \in Nat, n = recorded[d],
         NEW l \in Layers, l = wlayer, NEW q \in Ranks, GroupOf(q) = d, Here(q, l, n)
  PROVE  /\ q[2] \in Nat /\ q[2] < TpSize /\ wtarget \in Nat /\ wtarget < TpSize
         /\ q[2] <= wtarget => Given(q, l, n)'
         /\ q[2] > wtarget /\ wpc' = "publish" => Taken(q, l, n)'
<1>1. q[2] \in Nat /\ q[2] < TpSize /\ wtarget \in Nat /\ wtarget < TpSize /\ WTarget \in Ranks
      /\ (q = WTarget <=> q[2] = wtarget)
  <2>1. wpc = "publish"
    BY DEF Publish
  <2>2. wtarget \in Nat /\ wtarget < TpSize /\ WTarget \in Ranks
    BY <2>1, WorkerAt DEF AtWork, WorkerShape, TypeWorker
  <2>3. q = WTarget <=> q[2] = wtarget
    BY RankFacts DEF WTarget
  <2> QED BY <2>2, <2>3, RankFacts
<1>2. /\ wpc = "publish" /\ ready' = [ready EXCEPT ![WTarget][l] = 1]
      /\ UNCHANGED <<threads, streams>> /\ UNCHANGED <<out, consumed>>
  BY DEF Publish
<1>3. ready'[q][l] = IF q = WTarget THEN 1 ELSE ready[q][l]
  BY <1>1, <1>2 DEF AtWork, TypeMemory
<1>4. (q[2] < wtarget => Given(q, l, n)) /\ (q[2] >= wtarget => Taken(q, l, n))
  BY <1>1, <1>2 DEF Here, Waits, HasIt
<1>5. CASE q[2] < wtarget
  <2>1. ready'[q][l] = ready[q][l]
    BY <1>1, <1>3, <1>5
  <2> HIDE DEF Given, Taken
  <2>2. Given(q, l, n)'
    BY <1>2, <1>4, <1>5, <2>1, SameGiven
  <2> QED BY <1>1, <1>5, <2>2
<1>6. CASE q[2] = wtarget
  <2>1. Taken(q, l, n) /\ ready'[q][l] = 1
    BY <1>1, <1>3, <1>4, <1>6
  <2>2. consumed[q][l] = 0 /\ Left(q, "wait", n, l) /\ out[q][l] = Data(n, TRUE)
    BY <1>2, <2>1 DEF Taken
  <2>3. Real(GroupOf(q), n)
    <3>1. Serving(GroupOf(q))
      BY WorkerServes DEF AtWork
    <3> QED BY <3>1, ServedThread DEF AtWork
  <2>4. Left(q, "copy", n, l) /\ Left(q, "reset", n, l) /\ Left(q, "consume", n, l)
    BY <2>2, <2>3, LeftBehindWait DEF AtWork
  <2>5. \A name : Left(q, name, n, l)' <=> Left(q, name, n, l)
    BY <1>2 DEF threads, streams, Left, Has
  <2>6. Given(q, l, n)'
    <3> HIDE DEF Left, Data
    <3> QED BY <1>2, <2>1, <2>2, <2>4, <2>5 DEF Given
  <2> HIDE DEF Given, Taken
  <2> QED BY <1>1, <1>6, <2>6
<1>7. CASE q[2] > wtarget
  <2>1. ready'[q][l] = ready[q][l] /\ Taken(q, l, n)
    BY <1>1, <1>3, <1>4, <1>7
  <2>2. out[q][l] = Data(n, TRUE)
    BY <1>2, <2>1 DEF Taken
  <2> HIDE DEF Given, Taken, Data
  <2>3. wpc' = "publish" => Taken(q, l, n)'
    BY <1>2, <2>1, <2>2, SameTaken
  <2> QED BY <1>1, <1>7, <2>3
<1> QED BY <1>1, <1>5, <1>6, <1>7

(* The worker leaves a layer of a group: the next is where it was before.  *)
Moves ==
  /\ wpc = "publish" /\ wpc' \in {"wait", "poll"}
  /\ \/ windex < Len(batch) /\ wpc' = "wait" /\ windex' = windex + 1 /\ wlayer' = wlayer
        /\ batch' = batch
     \/ windex = Len(batch) /\ wpc' = "wait" /\ windex' = 1 /\ wlayer' = wlayer + 1
        /\ batch' = batch
     \/ windex = Len(batch) /\ wlayer = NumLayers /\ wpc' = "poll" /\ batch' = <<>>
  /\ UNCHANGED <<queue, staging, channel>>

LEMMA MovesOn ==
  ASSUME TypeWorker, WorkerShape, Moves, NEW d, NEW l \in Layers
  PROVE  (Ahead(d, l)' <=> Ahead(d, l)) /\ ~At(d, l)'
<1>1. InFront(d)' = InFront(d) /\ ~At(d, l)'
  BY DEF Moves, InFront, At
<1>2. /\ wlayer \in Nat /\ wlayer <= NumLayers /\ windex \in Nat /\ Len(batch) \in Nat
      /\ l \in Nat /\ l <= NumLayers /\ wpc = "publish"
  BY DEF Moves, TypeWorker, Layers
<1> HIDE DEF InFront
<1>3. CASE windex < Len(batch) /\ wpc' = "wait" /\ windex' = windex + 1 /\ wlayer' = wlayer
           /\ batch' = batch
  <2>1. ASSUME NEW i \in 1 .. Len(batch)
        PROVE  (windex + 1 < i \/ windex + 1 = i) <=> windex < i
    BY <1>2
  <2> QED BY <1>1, <1>2, <1>3, <2>1 DEF Ahead
<1>4. CASE windex = Len(batch) /\ wpc' = "wait" /\ windex' = 1 /\ wlayer' = wlayer + 1
           /\ batch' = batch
  <2>1. ASSUME NEW i \in 1 .. Len(batch)
        PROVE  /\ ~(windex < i) /\ (1 < i \/ 1 = i)
    BY <1>2, <1>4
  <2>2. wlayer < l <=> wlayer + 1 < l \/ wlayer + 1 = l
    BY <1>2
  <2> QED BY <1>1, <1>2, <1>4, <2>1, <2>2 DEF Ahead
<1>5. CASE windex = Len(batch) /\ wlayer = NumLayers /\ wpc' = "poll" /\ batch' = <<>>
  <2>1. \A i \in 1 .. Len(batch) : ~(windex < i)
    BY <1>2, <1>5
  <2>2. ~(wlayer < l) /\ \A i : i \notin 1 .. Len(batch')
    BY <1>2, <1>5
  <2> QED BY <1>1, <1>2, <2>1, <2>2 DEF Ahead
<1> QED BY <1>1, <1>3, <1>4, <1>5 DEF Moves

LEMMA SlotsOverPublish ==
  ASSUME AtWork, Orders, Publish
  PROVE  SlotInv'
<1> PICK l \in Layers : l = wlayer
  BY DEF AtWork, TypeWorker
<1>1. PICK d \in Groups : d = WGroup
  BY WorkerAt DEF AtWork
<1>2. PICK n \in Nat : n = recorded[d]
  BY DEF AtWork, TypeStreams
<1>3. /\ UNCHANGED <<threads, streams>> /\ UNCHANGED <<requests, out, consumed>>
      /\ UNCHANGED <<stream, recorded, done, step, pc, layer, queue, staging, channel>>
      /\ ready' = [ready EXCEPT ![WTarget][l] = 1] /\ wpc = "publish"
  BY DEF Publish, threads, streams, requests
<1>4. \A q \in Ranks : GroupOf(q) = d => Here(q, l, n)
  BY <1>1, <1>2, HereNow DEF AtWork
<1>5. ASSUME NEW q \in Ranks, GroupOf(q) = d
      PROVE  /\ q[2] \in Nat /\ q[2] < TpSize /\ wtarget \in Nat /\ wtarget < TpSize
             /\ q[2] <= wtarget => Given(q, l, n)'
             /\ q[2] > wtarget /\ wpc' = "publish" => Taken(q, l, n)'
  <2> HIDE DEF Here, Given, Taken
  <2>1. Here(q, l, n)
    BY <1>4, <1>5
  <2> QED BY <1>1, <1>2, <1>5, <2>1, Published
<1>6. WTarget \in Ranks /\ GroupOf(WTarget) = d /\ wtarget \in Nat
  <2>1. wtarget < TpSize /\ wtarget \in Nat
    BY <1>3 DEF AtWork, WorkerShape, TypeWorker
  <2> QED BY <1>1, <2>1, WorkerAt DEF AtWork
<1>7. \A q \in Ranks, m \in Layers : ~(GroupOf(q) = d /\ m = l) => ready'[q][m] = ready[q][m]
  BY <1>3, <1>6 DEF AtWork, TypeMemory
<1>8. CASE wtarget < TpSize - 1
  <2>1. wpc' = "publish" /\ wtarget' = wtarget + 1 /\ UNCHANGED <<batch, wlayer, windex>>
    BY <1>3, <1>8 DEF Publish, MoreTargets
  <2>2. Stays
    BY <1>3, <2>1 DEF Stays
  <2>3. ASSUME NEW q \in Ranks, GroupOf(q) = d PROVE Here(q, l, n)'
    <3>1. q[2] <= wtarget <=> q[2] < wtarget'
      BY <1>5, <2>1, <2>3
    <3>2. ~Waits(q)' /\ (HasIt(q)' <=> q[2] <= wtarget)
      BY <2>1, <3>1 DEF Waits, HasIt
    <3>3. q[2] > wtarget <=> ~(q[2] <= wtarget)
      BY <1>5, <2>3
    <3> HIDE DEF Given, Taken, Waits, HasIt
    <3> QED BY <1>5, <2>1, <2>3, <3>2, <3>3 DEF Here
  <2> HIDE DEF Here
  <2> QED BY <1>1, <1>2, <1>3, <1>7, <2>2, <2>3, SlotsOverStay DEF AtWork
<1>9. CASE ~(wtarget < TpSize - 1)
  <2>1. Moves
    <3>1. windex \in 1 .. Len(batch) /\ Len(batch) \in Nat /\ wlayer \in Nat /\ wlayer <= NumLayers
      BY WorkerAt DEF AtWork, TypeWorker, Layers
    <3> QED BY <1>3, <1>9, <3>1 DEF Publish, MoreTargets, Moves
  <2> SUFFICES ASSUME NEW r \in Ranks, NEW m \in Layers PROVE SlotOf(r, m)'
    BY DEF SlotInv
  <2>2. PICK e \in Groups : e = GroupOf(r)
    BY RankFacts
  <2>3. PICK k \in Nat : k = recorded[e]
    BY DEF AtWork, TypeStreams
  <2>4. Serving(e)' = Serving(e) /\ SlotOf(r, m)
    BY <1>3 DEF Serving, AtWork, SlotInv
  <2>5. (Ahead(e, m)' <=> Ahead(e, m)) /\ ~At(e, m)'
    BY <2>1, MovesOn DEF AtWork
  <2>6. (Unclaimed(r, m)' <=> Ahead(e, m)) /\ (Served(r, m)' <=> ~Ahead(e, m))
    <3> HIDE DEF Ahead, At
    <3> QED BY <2>2, <2>5 DEF Unclaimed, Served, GroupOf
  <2>7. CASE e = d /\ m = l
    <3>1. ~Ahead(e, m) /\ Serving(e)
      <4>1. Serving(e) /\ ~InFront(e)
        BY <1>1, <2>7, WorkerServes DEF AtWork
      <4>2. wlayer \in Nat /\ windex \in Nat
            /\ \A i \in 1 .. Len(batch) : batch[i].group = e <=> i = windex
        BY <1>1, <2>7, AheadOfWorker DEF AtWork, TypeWorker, Layers
      <4> HIDE DEF InFront
      <4> QED BY <1>3, <2>7, <4>1, <4>2 DEF Ahead
    <3>2. Given(r, m, k)'
      <4>1. r[2] \in Nat /\ r[2] < TpSize
        BY <2>2, RankFacts
      <4>2. r[2] <= wtarget
        BY <1>6, <1>9, <4>1
      <4> QED BY <1>2, <1>5, <2>2, <2>3, <2>7, <4>2
    <3> HIDE DEF Serving, Unclaimed, Served, Free, Given, Taken, Ahead
    <3> QED BY <1>3, <2>2, <2>3, <2>4, <2>6, <3>1, <3>2, SlotNext
  <2>8. CASE ~(e = d /\ m = l)
    <3>1. ~At(e, m)
      BY <1>1, <2>8 DEF At
    <3>2. (Unclaimed(r, m) <=> Ahead(e, m)) /\ (Served(r, m) <=> ~Ahead(e, m))
      <4> HIDE DEF Ahead, At
      <4> QED BY <2>2, <3>1 DEF Unclaimed, Served
    <3>3. ready'[r][m] = ready[r][m]
      BY <1>7, <2>2, <2>8
    <3>4. Free(r, m, k) => Free(r, m, k)'
      <4> HIDE DEF At
      <4> QED BY <1>3, <2>2, <2>5 DEF Free, GroupOf
    <3>5. Given(r, m, k) => Given(r, m, k)'
      <4> HIDE DEF Given
      <4> QED BY <1>3, <3>3, SameGiven
    <3> HIDE DEF Serving, Unclaimed, Served, Free, Given, Taken, Ahead
    <3>6. IF Serving(e)
            THEN /\ Unclaimed(r, m) => Free(r, m, k)
                 /\ Served(r, m) => Given(r, m, k)
                 /\ ~Unclaimed(r, m) /\ ~Served(r, m) => Taken(r, m, k)
            ELSE consumed[r][m] = 1
      BY <2>2, <2>3, <2>4, SlotNow
    <3>7. IF Serving(e)'
            THEN /\ Unclaimed(r, m)' => Free(r, m, k)'
                 /\ Served(r, m)' => Given(r, m, k)'
                 /\ ~Unclaimed(r, m)' /\ ~Served(r, m)' => Taken(r, m, k)'
            ELSE consumed'[r][m] = 1
      BY <1>3, <2>4, <2>6, <3>2, <3>4, <3>5, <3>6
    <3> QED BY <1>3, <2>2, <2>3, <3>7, SlotNext
  <2> QED BY <2>7, <2>8
<1> QED BY <1>8, <1>9

(* A drain moves the requests of some groups from the channel to the batch. *)
LEMMA SlotsOverDrain ==
  ASSUME TypeStreams, TypeMemory, TypeWorker, WorkerShape, SlotInv,
         NEW from \in SUBSET Groups, Drained(from)
  PROVE  SlotInv'
<1> SUFFICES ASSUME NEW r \in Ranks, NEW l \in Layers PROVE SlotOf(r, l)'
  BY DEF SlotInv
<1>1. PICK d \in Groups : d = GroupOf(r)
  BY RankFacts
<1>2. PICK n \in Nat : n = recorded[d]
  BY DEF TypeStreams
<1>3. /\ UNCHANGED <<threads, streams, out, ready, consumed, queue, staging>>
      /\ UNCHANGED <<stream, recorded, done, step, pc, layer>>
      /\ wpc = "poll" /\ wpc' = "wait" /\ wlayer' = 1 /\ windex' = 1 /\ batch = <<>>
  BY DEF Drained, threads, streams, WorkerShape
<1>4. Serving(d)' = Serving(d) /\ SlotOf(r, l)
  BY <1>3 DEF Serving, SlotInv
<1>5. ~At(d, l) /\ ~At(d, l)'
  BY <1>3 DEF At
<1>6. Ahead(d, l) <=> InFront(d)
  <2>1. \A i : i \notin 1 .. Len(batch)
    BY <1>3
  <2> QED BY <2>1 DEF Ahead
<1>7. Ahead(d, l)' <=> Ahead(d, l)
  <2>1. CASE d \in from
    <3>1. InFront(d)
      BY <2>1 DEF Drained
    <3>2. PICK i \in 1 .. Len(batch') : batch'[i].group = d
      BY <2>1 DEF Drained
    <3>3. l = 1 \/ 1 < l
      BY DEF Layers
    <3>4. i = 1 \/ 1 < i
      BY <3>2 DEF Drained
    <3>5. Ahead(d, l)'
      BY <1>3, <3>2, <3>3, <3>4 DEF Ahead
    <3> QED BY <1>6, <3>1, <3>5
  <2>2. CASE d \notin from
    <3>1. InFront(d)' = InFront(d)
      BY <1>3, <2>2 DEF Drained, InFront
    <3>2. \A i \in 1 .. Len(batch') : batch'[i].group # d
      BY <2>2 DEF Drained
    <3> QED BY <1>6, <3>1, <3>2 DEF Ahead
  <2> QED BY <2>1, <2>2
<1>8. (Unclaimed(r, l)' <=> Unclaimed(r, l)) /\ (Served(r, l)' <=> Served(r, l))
  <2> HIDE DEF Ahead, At
  <2> QED BY <1>1, <1>5, <1>7 DEF Unclaimed, Served, GroupOf
<1>9. Unclaimed(r, l) \/ Served(r, l)
  <2> HIDE DEF Ahead, At
  <2> QED BY <1>1, <1>5 DEF Unclaimed, Served
<1>10. Free(r, l, n) => Free(r, l, n)'
  <2> HIDE DEF At
  <2> QED BY <1>1, <1>3, <1>5 DEF Free, GroupOf
<1>11. Given(r, l, n) => Given(r, l, n)'
  <2> HIDE DEF Given
  <2> QED BY <1>3, SameGiven
<1> HIDE DEF Serving, Unclaimed, Served, Free, Given, Taken, Ahead
<1>12. IF Serving(d)
        THEN /\ Unclaimed(r, l) => Free(r, l, n)
             /\ Served(r, l) => Given(r, l, n)
             /\ ~Unclaimed(r, l) /\ ~Served(r, l) => Taken(r, l, n)
        ELSE consumed[r][l] = 1
  BY <1>1, <1>2, <1>4, SlotNow
<1>13. IF Serving(d)'
        THEN /\ Unclaimed(r, l)' => Free(r, l, n)'
             /\ Served(r, l)' => Given(r, l, n)'
             /\ ~Unclaimed(r, l)' /\ ~Served(r, l)' => Taken(r, l, n)'
        ELSE consumed'[r][l] = 1
  BY <1>3, <1>4, <1>8, <1>9, <1>10, <1>11, <1>12
<1> QED BY <1>1, <1>2, <1>3, <1>13, SlotNext

LEMMA SlotsKept ==
  ASSUME Setting, Inv, Next
  PROVE  SlotInv'
<1>1. /\ TypeThreads /\ TypeStreams /\ TypeRequests /\ TypeMemory /\ TypeWorker /\ WorkerShape
      /\ Orders /\ StreamInv /\ StepInv /\ FrontInv /\ WorkerInv /\ SlotInv
  BY TypeParts DEF Inv, Shape, Orders
<1>2. ASSUME NEW r \in Ranks, BeginReal(r) PROVE SlotInv'
  BY <1>1, <1>2, BeginRealFacts, SlotsOverBegin
<1>3. ASSUME NEW r \in Ranks, BeginDummy(r) \/ SignalDummy(r) PROVE SlotInv'
  BY <1>1, <1>3, BeginDummyFacts, SlotsOverSignal
<1>4. ASSUME NEW r \in Ranks, LaunchReal(r) \/ LaunchDummy(r) PROVE SlotInv'
  BY <1>1, <1>4, LaunchFacts, SlotsOverLaunch
<1>5. ASSUME NEW r \in Ranks, ClaimSeen(r) \/ ClaimTimeout(r) PROVE SlotInv'
  BY <1>1, <1>5, SlotsOverClaim
<1>6. ASSUME NEW r \in Ranks, StreamStep(r) PROVE SlotInv'
  BY <1>1, <1>6, StreamStepFacts, SlotsOverPop
<1>7. ASSUME NEW d \in Groups, RequestThread(d) PROVE SlotInv'
  BY <1>1, <1>7, SlotsOverRequests
<1>8. CASE Drain
  BY <1>1, <1>8, DrainTakes, SlotsOverDrain
<1>9. CASE Worker /\ ~Drain
  <2>1. AtWork
    <3>1. wpc # "poll"
      BY <1>9 DEF Worker, WaitConsumed, ClaimReady, ClaimConsumed, StartCompute, EndCompute,
                  FanOut, Publish
    <3> QED BY <1>1, <3>1 DEF AtWork
  <2> QED BY <1>1, <1>9, <2>1, SlotsOverFlags, SlotsOverOutputs, SlotsOverPublish DEF Worker
<1> QED BY <1>2, <1>3, <1>4, <1>5, <1>6, <1>7, <1>8, <1>9 DEF Next, ModelThread

-----------------------------------------------------------------------------
(* The invariant and what follows from it.                                 *)

LEMMA InvInit == Init => Inv
<1> SUFFICES ASSUME Init PROVE Inv
  OBVIOUS
<1>1. Shape /\ TypeThreads /\ TypeStreams
  BY InitShape, TypeParts DEF Shape
<1>2. ASSUME NEW d \in Groups
      PROVE  /\ recorded[d] = 0 /\ done[RankZero(d)] = 0 /\ ~Serving(d) /\ ~InFront(d)
             /\ RankZero(d) \in Ranks /\ passed[d] = 0 /\ staging[d] = "idle" /\ queue[d] = <<>>
             /\ channel[d] = <<>> /\ Len(plan[d]) \in Nat
  <2>1. Len(plan[d]) \in Nat /\ RankZero(d) \in Ranks
    BY <1>1, PlanFacts, RankFacts DEF TypeThreads
  <2> QED BY <2>1 DEF Init, Serving, InFront
<1>3. ASSUME NEW r \in Ranks
      PROVE  /\ GroupOf(r) \in Groups /\ step[r] = 1 /\ pc[r] = "idle" /\ layer[r] = 1
             /\ done[r] = 0 /\ \A x : ~Has(stream[r], x)
  <2>1. \A i : i \notin 1 .. Len(stream[r])
    BY DEF Init
  <2> QED BY <2>1, RankFacts DEF Init, Has
<1>4. ASSUME NEW r \in Ranks PROVE StreamOf(r) /\ StepOf(r) /\ DoneOf(r) /\ DummyOf(r)
  <2>1. StreamOf(r)
    <3>1. Sorted(stream[r])
      <4>1. \A i : i \notin 1 .. Len(stream[r])
        BY DEF Init
      <4> QED BY <4>1 DEF Sorted
    <3>2. \A k \in 1 .. Len(plan[GroupOf(r)]) : RestOf(r, k)
      BY <1>2, <1>3 DEF RestOf
    <3> QED BY <1>3, <3>1, <3>2 DEF StreamOf
  <2>2. StepOf(r)
    <3> HIDE DEF Serving
    <3> QED BY <1>2, <1>3 DEF StepOf
  <2>3. DoneOf(r)
    BY <1>2, <1>3 DEF DoneOf
  <2>4. DummyOf(r)
    <3> HIDE DEF Has
    <3> QED BY <1>3 DEF DummyOf
  <2> QED BY <2>1, <2>2, <2>3, <2>4
<1>5. ASSUME NEW d \in Groups PROVE RecordedOf(d) /\ FrontOf(d)
  <2>1. RecordedOf(d)
    BY <1>2, <1>3 DEF RecordedOf
  <2>2. FrontOf(d)
    <3>1. passed[d] <= recorded[d] /\ staging[d] \notin {"d2h", "copy", "send"}
      BY <1>2
    <3> HIDE DEF Serving, InFront, Has, Is, Data
    <3> QED BY <1>2, <3>1, Zenon DEF FrontOf
  <2> QED BY <2>1, <2>2
<1>6. WorkerInv
  <2>1. \A i : i \notin 1 .. Len(batch)
    BY DEF Init
  <2> QED BY <2>1 DEF WorkerInv, Init
<1>7. ASSUME NEW r \in Ranks, NEW l \in Layers PROVE SlotOf(r, l)
  <2>1. consumed[r][l] = 1 /\ ~Serving(GroupOf(r))
    BY <1>2, <1>3 DEF Init
  <2> HIDE DEF Serving
  <2> QED BY <2>1 DEF SlotOf
<1> QED BY <1>1, <1>4, <1>5, <1>6, <1>7
        DEF Inv, Orders, StreamInv, StepInv, DoneInv, RecordedInv, FrontInv, SlotInv, DummyInv

(* A step that changes nothing.                                            *)
LEMMA InvStutters ==
  ASSUME Inv, UNCHANGED vars
  PROVE  Inv'
<1>1. /\ UNCHANGED <<plan, step, pc, layer, queue, request, staging, awaited, channel>>
      /\ UNCHANGED <<stream, recorded, passed, source, gpu, done, inputs, out, ready, consumed>>
      /\ UNCHANGED <<wpc, batch, wlayer, windex, wtarget, reading, skipped>>
  BY DEF vars, threads, requests, streams, flags, worker
<1>2. \A d : Serving(d)' = Serving(d) /\ InFront(d)' = InFront(d)
  BY <1>1 DEF Serving, InFront
<1>3. Shape'
  BY <1>1 DEF Inv, Shape, TypeOK, WorkerShape
<1>4. StreamInv'
  BY <1>1 DEF Inv, Orders, StreamInv, StreamOf, OpOf, RestOf, Has, Sorted
<1>5. StepInv' /\ DoneInv' /\ RecordedInv'
  BY <1>1, <1>2 DEF Inv, Orders, StepInv, StepOf, DoneInv, DoneOf, RecordedInv, RecordedOf,
                    Real, Has, Serving
<1>6. FrontInv'
  BY <1>1 DEF Inv, FrontInv, FrontOf, Has, Serving, InFront
<1>7. WorkerInv'
  BY <1>1 DEF Inv, WorkerInv, BatchOf, Unserved, StillReads, Serving, InFront
<1>8. SlotInv'
  <2> SUFFICES ASSUME NEW r \in Ranks, NEW l \in Layers PROVE SlotOf(r, l)'
    BY DEF SlotInv
  <2>1. PICK d : d = GroupOf(r)
    OBVIOUS
  <2>2. PICK n : n = recorded[d]
    OBVIOUS
  <2>3. SlotOf(r, l) /\ worker' = worker
    BY <1>1 DEF Inv, SlotInv, worker
  <2> HIDE DEF Serving, InFront
  <2>4. Serving(d)' = Serving(d) /\ InFront(d)' = InFront(d)
    BY <1>2
  <2> QED BY <1>1, <2>1, <2>2, <2>3, <2>4, QuietSlot
<1>9. DummyInv'
  BY <1>1 DEF Inv, DummyInv, DummyOf, Has
<1> QED BY <1>3, <1>4, <1>5, <1>6, <1>7, <1>8, <1>9 DEF Inv, Orders

LEMMA InvKept ==
  ASSUME Setting, Inv, [Next]_vars
  PROVE  Inv'
<1>1. CASE UNCHANGED vars
  BY <1>1, InvStutters
<1>2. CASE Next
  <2>1. Shape'
    BY <1>2, ShapeKept DEF Inv
  <2> QED BY <1>2, <2>1, OrdersKept, FrontKept, WorkerKept, SlotsKept, DummyKept DEF Inv
<1> QED BY <1>1, <1>2

(* In every reachable state: the streams hold what is left of the forwards  *)
(* in their order, the request of the step being served is in one place,    *)
(* the worker's batch is of the steps being served, and every slot is free, *)
(* claimed or given, as far as the worker and the stream have come.         *)
THEOREM InvariantHolds ==
  ASSUME Setting
  PROVE  Spec => []Inv
<1>1. Init => Inv
  BY InvInit
<1>2. Inv /\ [Next]_vars => Inv'
  BY InvKept
<1> QED BY <1>1, <1>2, PTL DEF Spec

(* The group of a forward that copies is served.                           *)
LEMMA CopyIsServed ==
  ASSUME Setting, Inv, NEW r \in Ranks, NEW x \in Ops, Popped(r, x), x.op = "copy",
         plan[GroupOf(r)][x.step] = "real"
  PROVE  Serving(GroupOf(r))
<1>1. TypeThreads /\ TypeStreams /\ Orders /\ StepOf(r) /\ Has(stream[r], x)
  BY TypeParts DEF Inv, Shape, Orders, StepInv, Popped
<1>2. PICK d \in Groups : d = GroupOf(r)
  BY RankFacts
<1>3. PICK n \in Nat : n = recorded[d]
  BY <1>1 DEF TypeStreams
<1>4. OpOf(r, x) /\ x.step \in Nat
  BY <1>1, OpIs DEF Orders, StreamInv, StreamOf
<1>5. x.step < step[r] /\ x.step \in 1 .. Len(plan[d])
  BY <1>2, <1>4 DEF OpOf, ForwardOps
<1>6. CASE ~Serving(d)
  <2>1. x.step <= n
    <3>1. step[r] \in Nat
      BY <1>1 DEF TypeThreads
    <3>2. x.step > n => step[r] <= x.step
      BY <1>1, <1>2, <1>3, <1>5 DEF StepOf
    <3> QED BY <1>3, <1>4, <1>5, <3>1, <3>2
  <2>2. RankZero(d) \in Ranks /\ GroupOf(RankZero(d)) = d /\ r \in Targets(d)
    BY <1>2, RankFacts
  <2>3. done[RankZero(d)] \in Nat /\ done[RankZero(d)] >= x.step
    BY <1>1, <1>3, <1>4, <1>6, <2>1, <2>2 DEF Serving, TypeStreams
  <2>4. DoneOf(RankZero(d))
    BY <1>1, <2>2 DEF Orders, DoneInv
  <2>5. \A y : Has(stream[r], y) /\ y.step = x.step => y.op = "end"
    BY <1>2, <1>5, <2>2, <2>3, <2>4 DEF DoneOf
  <2> QED BY <1>1, <2>5
<1> QED BY <1>2, <1>6

(* A copy finds in the host buffer what was computed from the inputs of the *)
(* copying forward.                                                         *)
LEMMA CopyTakesOwn ==
  ASSUME Setting, Inv, NEW r \in Ranks, NEW x \in Ops, Popped(r, x), x.op = "copy"
  PROVE  /\ x.layer \in Layers
         /\ out[r][x.layer] = IF plan[GroupOf(r)][x.step] = "real" THEN Data(x.step, TRUE)
                                                                   ELSE Nothing
<1>1. /\ TypeThreads /\ TypeStreams /\ Orders /\ SlotInv /\ StepOf(r) /\ DummyOf(r)
      /\ Has(stream[r], x)
  BY TypeParts DEF Inv, Shape, Orders, StepInv, DummyInv, Popped
<1>2. PICK d \in Groups : d = GroupOf(r)
  BY RankFacts
<1>3. PICK n \in Nat : n = recorded[d]
  BY <1>1 DEF TypeStreams
<1>4. OpOf(r, x) /\ x.step \in Nat
  BY <1>1, OpIs DEF Orders, StreamInv, StreamOf
<1>5. x.layer \in Layers /\ x.step < step[r] /\ x.step \in 1 .. Len(plan[d])
      /\ plan[d][x.step] # "capture"
  BY <1>2, <1>4 DEF OpOf, ForwardOps
<1>6. CASE plan[d][x.step] # "real"
  <2>1. plan[d][x.step] = "dummy"
    BY <1>1, <1>5, <1>6, PlanFacts DEF TypeThreads
  <2> HIDE DEF Has, Nothing
  <2> QED BY <1>1, <1>2, <1>5, <1>6, <2>1 DEF DummyOf
<1>7. CASE plan[d][x.step] = "real" /\ Serving(d)
  <2>1. PICK l \in Layers : l = x.layer
    BY <1>5
  <2>2. /\ x = Is("copy", n, l) /\ ~Unclaimed(r, l) /\ Served(r, l)
    BY <1>1, <1>2, <1>3, <1>7, <2>1, GivenToStream DEF LaunchNames
  <2>3. SlotOf(r, l)
    BY <1>1 DEF SlotInv
  <2>4. Given(r, l, n)
    <3> HIDE DEF Serving, Unclaimed, Served, Free, Given, Taken
    <3> QED BY <1>2, <1>3, <1>7, <2>2, <2>3, SlotNow
  <2>5. Left(r, "copy", n, l) /\ x.step = n
    <3>1. x.step = n
      BY <2>2 DEF Is
    <3> QED BY <1>1, <2>2, <3>1 DEF Left
  <2> HIDE DEF Left, Data
  <2> QED BY <1>2, <1>5, <1>7, <2>1, <2>4, <2>5 DEF Given
<1>8. plan[d][x.step] = "real" => Serving(d)
  BY <1>2, CopyIsServed
<1> QED BY <1>6, <1>7, <1>8

LEMMA OwnResultKept ==
  ASSUME Setting, Inv, OwnResult, [Next]_vars
  PROVE  OwnResult'
<1>1. TypeStreams /\ StreamInv
  BY TypeParts DEF Inv, Shape, Orders
<1> USE DEF OwnResult
<1> HIDE DEF Data, Nothing
<1>2. CASE UNCHANGED <<plan, gpu>>
  BY <1>2
<1>3. ASSUME NEW p \in Ranks, StreamStep(p) PROVE OwnResult'
  <2>1. PICK x \in Ops : Popped(p, x)
    BY <1>1, <1>3, StreamStepFacts
  <2>2. CASE x.op # "copy"
    BY <1>2, <2>1, <2>2 DEF Popped
  <2>3. CASE x.op = "copy"
    <3>1. /\ x.layer \in Layers
          /\ out[p][x.layer] = IF plan[GroupOf(p)][x.step] = "real" THEN Data(x.step, TRUE)
                                                                    ELSE Nothing
      BY <2>1, <2>3, CopyTakesOwn
    <3>2. PICK v : v = [forward |-> x.step, got |-> out[p][x.layer]]
      OBVIOUS
    <3>3. plan' = plan /\ gpu' = [gpu EXCEPT ![p][x.layer] = v]
      BY <2>1, <2>3, <3>2 DEF Popped
    <3>4. /\ gpu'[p][x.layer] = v
          /\ \A r \in Ranks, l \in Layers : r # p \/ l # x.layer => gpu'[r][l] = gpu[r][l]
      BY <1>1, <3>1, <3>3, SetASlot DEF TypeStreams
    <3>5. v.forward = x.step /\ v.got = out[p][x.layer]
      BY <3>2
    <3>6. ASSUME NEW r \in Ranks, NEW l \in Layers PROVE CopyOf(r, l)'
      <4>1. CASE r = p /\ l = x.layer
        BY <3>1, <3>3, <3>4, <3>5, <4>1 DEF CopyOf, GroupOf
      <4>2. CASE ~(r = p /\ l = x.layer)
        <5>1. gpu'[r][l] = gpu[r][l]
          BY <3>4, <4>2
        <5>2. CopyOf(r, l)
          BY DEF CopyOf
        <5> QED BY <3>3, <5>1, <5>2 DEF CopyOf, GroupOf
      <4> QED BY <4>1, <4>2
    <3> QED BY <3>6 DEF CopyOf
  <2> QED BY <2>2, <2>3
<1>4. ASSUME NEW p \in Ranks, ModelThread(p) \/ ClaimTimeout(p) PROVE UNCHANGED <<plan, gpu>>
  BY <1>4 DEF ModelThread, ClaimTimeout, BeginReal, ClaimSeen, LaunchReal, BeginDummy, SignalDummy,
              LaunchDummy, streams
<1>5. ASSUME NEW d \in Groups, RequestThread(d) PROVE UNCHANGED <<plan, gpu>>
  BY <1>5 DEF RequestThread, GetRequest, WaitEvent, StartCopy, EndCopy, Send, streams
<1>6. ASSUME Worker PROVE UNCHANGED <<plan, gpu>>
  BY <1>6 DEF Worker, Drain, WaitConsumed, ClaimReady, ClaimConsumed, StartCompute,
              EndCompute, FanOut, Publish, streams
<1>7. ASSUME UNCHANGED vars PROVE UNCHANGED <<plan, gpu>>
  BY <1>7 DEF vars, streams
<1> QED BY <1>2, <1>3, <1>4, <1>5, <1>6, <1>7 DEF Next

(* Whatever the interleaving, what a forward copies to the device was       *)
(* computed from its own inputs, whole and clamped; a dummy forward copies  *)
(* zeros.                                                                   *)
THEOREM OwnResultCorrect ==
  ASSUME Setting
  PROVE  Spec => []OwnResult
<1>1. Init => OwnResult
  <2> SUFFICES ASSUME Init, NEW r \in Ranks, NEW l \in Layers PROVE gpu[r][l].forward = 0
    BY DEF OwnResult
  <2> QED BY DEF Init
<1>2. Inv /\ OwnResult /\ [Next]_vars => OwnResult'
  BY OwnResultKept
<1>3. Spec => []Inv
  BY InvariantHolds
<1> QED BY <1>1, <1>2, <1>3, PTL DEF Spec

(* The shared input buffers hold what the worker has still to read.        *)
THEOREM InputsStableCorrect ==
  ASSUME Setting
  PROVE  Spec => []InputsStable
<1>1. Inv => InputsStable
  <2> SUFFICES ASSUME Inv, NEW i \in DOMAIN batch, StillReads(i)
               PROVE  inputs[batch[i].group] = Data(batch[i].step, TRUE)
    BY DEF InputsStable
  <2>1. TypeWorker
    BY TypeParts DEF Inv, Shape
  <2>2. i \in 1 .. Len(batch) /\ i \in Nat /\ windex \in Nat
    BY <2>1 DEF TypeWorker
  <2>3. Unserved(i)
    BY <2>2 DEF StillReads, Unserved
  <2>4. BatchOf(i)
    BY <2>2 DEF Inv, WorkerInv
  <2> QED BY <2>3, <2>4 DEF BatchOf
<1> QED BY <1>1, InvariantHolds, PTL

(* The worker never finds two requests of a group in its socket.           *)
THEOREM NothingSkippedCorrect ==
  ASSUME Setting
  PROVE  Spec => []NothingSkipped
<1>1. Inv => NothingSkipped
  BY DEF Inv, WorkerInv, NothingSkipped
<1> QED BY <1>1, InvariantHolds, PTL

(* The queue of one entry is empty whenever rank 0 puts a request.         *)
THEOREM QueueNeverFullCorrect ==
  ASSUME Setting
  PROVE  Spec => []QueueNeverFull
<1>1. Inv => QueueNeverFull
  BY DEF Inv, Orders, StepInv, StepOf, QueueNeverFull
<1> QED BY <1>1, InvariantHolds, PTL

(* Rank 0 begins a real step only when every output of the steps before has *)
(* been consumed, on every rank of its group.                               *)
THEOREM ConsumedBeforeLaunchCorrect ==
  ASSUME Setting
  PROVE  Spec => ConsumedBeforeLaunch
<1> DEFINE A == \A d \in Groups : BeginReal(RankZero(d)) =>
                  \A r \in Targets(d), l \in Layers : consumed[r][l] = 1
<1>1. ASSUME Inv PROVE A
  <2> SUFFICES ASSUME NEW d \in Groups, BeginReal(RankZero(d)),
                      NEW r \in Targets(d), NEW l \in Layers
               PROVE  consumed[r][l] = 1
    OBVIOUS
  <2>1. /\ RankZero(d) \in Ranks /\ GroupOf(RankZero(d)) = d /\ IsRankZero(RankZero(d))
        /\ r \in Ranks /\ GroupOf(r) = d
    BY RankFacts
  <2>2. Begun(RankZero(d))
    BY <1>1, <2>1, TypeParts, BeginRealFacts DEF Inv, Shape
  <2>3. ~Serving(d)
    BY <2>1, <2>2 DEF Begun
  <2>4. SlotOf(r, l)
    BY <1>1, <2>1 DEF Inv, SlotInv
  <2> HIDE DEF Serving
  <2> QED BY <2>1, <2>3, <2>4 DEF SlotOf
<1>2. Inv /\ [Next]_vars => [A]_vars
  BY <1>1
<1>3. Spec => []Inv
  BY InvariantHolds
<1> QED BY <1>2, <1>3, PTL DEF Spec, ConsumedBeforeLaunch

-----------------------------------------------------------------------------
(* The abstract service.  What a rank was given last says which copies are  *)
(* still on its stream, and a forward is whole as long as anything is in    *)
(* front of it.                                                             *)
CopiedOf(r, l) ==
  LET f == gpu[r][l].forward  p == plan[GroupOf(r)] IN
  /\ f < step[r] /\ (f > 0 => p[f] # "capture")
  /\ \A k \in 1 .. step[r] - 1 :
       p[k] # "capture" => (k <= f <=> ~Has(stream[r], Is("copy", k, l)))

WholeOf(r) ==
  \A x : Has(stream[r], x) =>
    \A k \in x.step + 1 .. step[r] - 1 : plan[GroupOf(r)][k] # "capture" =>
      \A y \in ForwardOps(k) : Has(stream[r], y)

CopyInv == \A r \in Ranks : WholeOf(r) /\ \A l \in Layers : CopiedOf(r, l)

LEMMA CopyOp ==
  ASSUME NEW k \in Nat, NEW l \in Layers
  PROVE  /\ Is("copy", k, l) \in Ops /\ Is("copy", k, l) \in ForwardOps(k)
         /\ Is("copy", k, l).op = "copy" /\ Is("copy", k, l).step = k
         /\ Is("copy", k, l).layer = l /\ Pos(Is("copy", k, l)) = 4 * l + 1
<1>1. l \in 0 .. NumLayers
  BY DEF Layers
<1>2. /\ Is("copy", k, l) \in Ops /\ Is("copy", k, l).op = "copy"
      /\ Is("copy", k, l).step = k /\ Is("copy", k, l).layer = l
  BY <1>1, IsOp DEF OpNames
<1> QED BY <1>2 DEF ForwardOps, Pos

LEMMA SameCopies ==
  ASSUME NEW r, WholeOf(r), \A l \in Layers : CopiedOf(r, l),
         plan' = plan, step'[r] = step[r], stream'[r] = stream[r], gpu'[r] = gpu[r]
  PROVE  WholeOf(r)' /\ \A l \in Layers : CopiedOf(r, l)'
BY DEF WholeOf, CopiedOf, GroupOf

LEMMA CopiesOverPop ==
  ASSUME Setting, Inv, CopyInv, NEW p \in Ranks, NEW x \in Ops, Popped(p, x)
  PROVE  CopyInv'
<1> SUFFICES ASSUME NEW r \in Ranks PROVE WholeOf(r)' /\ \A l \in Layers : CopiedOf(r, l)'
  BY DEF CopyInv
<1>1. TypeThreads /\ TypeStreams /\ Orders /\ WholeOf(r)
  BY TypeParts DEF Inv, Shape, CopyInv
<1>2. /\ UNCHANGED <<plan, step>> /\ step[r] \in Nat /\ x.step \in Nat
      /\ \A y : Has(stream'[p], y) <=> Has(stream[p], y) /\ y # x
      /\ \A y : Has(stream[p], y) => y = x \/ Earlier(x, y)
      /\ Has(stream[p], x) /\ \A q \in Ranks : q # p => stream'[q] = stream[q]
  BY <1>1, OpIs DEF Popped, threads, TypeThreads
<1>3. /\ x.op = "copy" =>
           /\ x.layer \in Layers /\ gpu'[p][x.layer].forward = x.step
           /\ \A q \in Ranks, l \in Layers : q # p \/ l # x.layer => gpu'[q][l] = gpu[q][l]
      /\ x.op # "copy" => gpu' = gpu
  <2>1. x.op = "copy" => x.layer \in Layers
    BY CopyTakesOwn
  <2>2. CASE x.op = "copy"
    <3>1. PICK v : v = [forward |-> x.step, got |-> out[p][x.layer]]
      OBVIOUS
    <3>2. gpu' = [gpu EXCEPT ![p][x.layer] = v]
      BY <2>2, <3>1 DEF Popped
    <3>3. gpu'[p][x.layer] = v
          /\ \A q \in Ranks, l \in Layers : q # p \/ l # x.layer => gpu'[q][l] = gpu[q][l]
      BY <1>1, <2>1, <2>2, <3>2, SetASlot DEF TypeStreams
    <3> QED BY <2>1, <2>2, <3>1, <3>3
  <2> QED BY <2>1, <2>2 DEF Popped
<1>4. CASE r # p
  <2>1. \A l \in Layers : gpu'[r][l] = gpu[r][l]
    BY <1>3, <1>4
  <2>2. \A l \in Layers : CopiedOf(r, l)
    BY DEF CopyInv
  <2> QED BY <1>1, <1>2, <1>4, <2>1, <2>2 DEF WholeOf, CopiedOf, GroupOf
<1>5. CASE r = p
  <2>1. WholeOf(r)'
    <3> SUFFICES ASSUME NEW v, Has(stream'[r], v), NEW k \in v.step + 1 .. step[r] - 1,
                        plan[GroupOf(r)][k] # "capture", NEW y \in ForwardOps(k)
                 PROVE  Has(stream'[r], y)
      BY <1>2 DEF WholeOf, GroupOf
    <3>1. Has(stream[r], v) /\ Has(stream[r], y)
      BY <1>1, <1>2, <1>5 DEF WholeOf
    <3>2. v \in Ops /\ v.step \in Nat
      BY <1>1, <3>1, OpIs DEF Orders, StreamInv, StreamOf, OpOf
    <3>3. v = x \/ Earlier(x, v)
      BY <1>2, <1>5, <3>1
    <3>4. y.step = k /\ x.step <= v.step
      BY <1>2, <3>2, <3>3 DEF ForwardOps, Earlier
    <3>5. y # x
      BY <1>2, <3>2, <3>4
    <3> QED BY <1>2, <1>5, <3>1, <3>5
  <2>2. ASSUME NEW l \in Layers PROVE CopiedOf(r, l)'
    <3> DEFINE g == plan[GroupOf(r)]
               f == gpu[r][l].forward
    <3>1. f \in Nat /\ CopiedOf(r, l)
      BY <1>1 DEF TypeStreams, CopyInv
    <3>2. CASE x.op = "copy" /\ x.layer = l
      <4>1. x = Is("copy", x.step, l)
        BY <3>2, OpIs
      <4>2. x.step \in 1 .. step[r] - 1 /\ g[x.step] # "capture"
        <5>1. OpOf(r, x)
          BY <1>1, <1>2, <1>5 DEF Orders, StreamInv, StreamOf
        <5> QED BY <1>2, <3>2, <5>1 DEF OpOf
      <4>3. f < x.step
        BY <1>2, <1>5, <3>1, <4>1, <4>2 DEF CopiedOf
      <4>4. gpu'[r][l].forward = x.step
        BY <1>3, <1>5, <3>2
      <4>5. ASSUME NEW k \in 1 .. step[r] - 1, g[k] # "capture"
            PROVE  k <= x.step <=> ~Has(stream'[r], Is("copy", k, l))
        <5>1. PICK c \in Ops : c = Is("copy", k, l) /\ c.step = k /\ Pos(c) = 4 * l + 1
          BY CopyOp
        <5>2. Pos(x) = 4 * l + 1 /\ l \in Nat
          BY <3>2 DEF Pos, Layers
        <5>3. CASE k < x.step
          <6>1. ~Has(stream[r], c)
            BY <1>2, <1>5, <5>1, <5>3 DEF Earlier
          <6> QED BY <1>2, <1>5, <5>1, <5>3, <6>1
        <5>4. CASE k = x.step
          BY <1>2, <1>5, <4>1, <5>1, <5>4
        <5>5. CASE k > x.step
          <6>1. ~(k <= f)
            BY <1>2, <3>1, <4>3, <5>5
          <6>2. Has(stream[r], c)
            BY <3>1, <4>5, <5>1, <6>1 DEF CopiedOf
          <6>3. c # x
            BY <5>1, <5>5
          <6> QED BY <1>2, <1>5, <5>1, <5>5, <6>2, <6>3
        <5> QED BY <1>2, <5>3, <5>4, <5>5
      <4> HIDE DEF f
      <4> QED BY <1>2, <4>2, <4>4, <4>5 DEF CopiedOf, GroupOf
    <3>3. CASE ~(x.op = "copy" /\ x.layer = l)
      <4>1. gpu'[r][l] = gpu[r][l]
        BY <1>3, <3>3
      <4>2. ASSUME NEW k \in 1 .. step[r] - 1 PROVE Is("copy", k, l) # x
        BY <3>3, CopyOp
      <4> QED BY <1>2, <1>5, <3>1, <4>1, <4>2 DEF CopiedOf, GroupOf
    <3> QED BY <3>2, <3>3
  <2> QED BY <2>1, <2>2
<1> QED BY <1>4, <1>5

LEMMA CopiesOverThreads ==
  ASSUME Setting, Inv, CopyInv, NEW p \in Ranks, Launched(p) \/ Begun(p) \/ Warmed(p)
  PROVE  CopyInv'
<1> SUFFICES ASSUME NEW r \in Ranks PROVE WholeOf(r)' /\ \A l \in Layers : CopiedOf(r, l)'
  BY DEF CopyInv
<1> DEFINE n == step[r]
           g == plan[GroupOf(r)]
<1>1. /\ TypeThreads /\ TypeStreams /\ Orders /\ WholeOf(r) /\ n \in Nat
      /\ \A l \in Layers : CopiedOf(r, l) /\ gpu[r][l].forward \in Nat
  BY TypeParts DEF Inv, Shape, CopyInv, TypeThreads, TypeStreams
<1>2. /\ UNCHANGED <<plan, gpu>> /\ \A q \in Ranks : q # p => stream'[q] = stream[q]
      /\ \A q \in Ranks : q # p => step'[q] = step[q]
  BY <1>1 DEF Launched, Begun, Warmed, Pushed, TypeThreads
<1>3. CASE r # p
  BY <1>1, <1>2, <1>3, SameCopies
<1>4. CASE r = p /\ Launched(p)
  <2>1. /\ step'[r] = n + 1
        /\ \A y : Has(stream'[r], y) <=> Has(stream[r], y) \/ y \in LaunchedOps(r)
    BY <1>1, <1>4 DEF Launched, Pushed, TypeThreads
  <2>2. /\ \A y \in LaunchedOps(r) : y.step = n
        /\ g[n] # "capture" => LaunchedOps(r) = ForwardOps(n)
    BY DEF LaunchedOps, ForwardOps
  <2> HIDE DEF n
  <2>3. WholeOf(r)'
    <3> SUFFICES ASSUME NEW v, Has(stream'[r], v), NEW k \in v.step + 1 .. n,
                        g[k] # "capture", NEW y \in ForwardOps(k)
                 PROVE  Has(stream'[r], y)
      BY <1>1, <1>2, <2>1 DEF WholeOf, GroupOf
    <3>1. CASE k = n
      BY <2>1, <2>2, <3>1
    <3>2. CASE k # n /\ Has(stream[r], v)
      <4>1. v.step \in Nat
        BY <1>1, <3>2, OpIs DEF Orders, StreamInv, StreamOf, OpOf
      <4>2. k \in v.step + 1 .. n - 1
        BY <1>1, <3>2, <4>1
      <4>3. Has(stream[r], y)
        BY <1>1, <3>2, <4>2 DEF WholeOf, n
      <4> QED BY <2>1, <4>3
    <3>3. CASE k # n /\ v \in LaunchedOps(r)
      BY <1>1, <2>2, <3>3
    <3> QED BY <2>1, <3>1, <3>2, <3>3
  <2>4. ASSUME NEW l \in Layers PROVE CopiedOf(r, l)'
    <3>1. PICK f \in Nat : f = gpu[r][l].forward
      BY <1>1
    <3>2. f < n /\ (f > 0 => g[f] # "capture")
      BY <1>1, <3>1 DEF CopiedOf, n
    <3>3. ASSUME NEW k \in 1 .. n, g[k] # "capture"
          PROVE  k <= f <=> ~Has(stream'[r], Is("copy", k, l))
      <4>1. PICK c : c = Is("copy", k, l)
        OBVIOUS
      <4>2. c.step = k /\ c \in ForwardOps(k)
        BY <4>1, CopyOp
      <4>3. CASE k = n
        BY <1>1, <2>1, <2>2, <3>1, <3>2, <3>3, <4>1, <4>2, <4>3
      <4>4. CASE k # n
        <5>1. k \in 1 .. n - 1
          BY <1>1, <4>4
        <5>2. k <= f <=> ~Has(stream[r], c)
          BY <1>1, <3>1, <3>3, <4>1, <5>1 DEF CopiedOf, n
        <5>3. c \notin LaunchedOps(r)
          BY <2>2, <4>2, <4>4
        <5> QED BY <2>1, <4>1, <5>2, <5>3
      <4> QED BY <4>3, <4>4
    <3>4. f < n + 1 /\ (n + 1) - 1 = n
      BY <1>1, <3>1, <3>2
    <3> QED BY <1>2, <2>1, <3>1, <3>2, <3>3, <3>4 DEF CopiedOf, GroupOf
  <2> QED BY <2>3, <2>4
<1>5. CASE r = p /\ (Begun(p) \/ Warmed(p))
  <2>1. step' = step
    BY <1>5 DEF Begun, Warmed
  <2>2. PICK E : /\ Pushed(r, E)
                 /\ \A y \in E : y.step = n /\ y.op # "copy"
    <3>1. /\ \A y \in BegunOps(r) : y.step = n /\ y.op # "copy"
          /\ Is("produce", n, 0).step = n /\ Is("produce", n, 0).op # "copy"
      BY DEF BegunOps, Is
    <3> QED BY <1>5, <3>1 DEF Begun, Warmed
  <2>3. \A y : Has(stream'[r], y) <=> Has(stream[r], y) \/ y \in E
    BY <2>2 DEF Pushed
  <2>4. WholeOf(r)'
    <3> SUFFICES ASSUME NEW v, Has(stream'[r], v), NEW k \in v.step + 1 .. n - 1,
                        g[k] # "capture", NEW y \in ForwardOps(k)
                 PROVE  Has(stream'[r], y)
      BY <1>2, <2>1 DEF WholeOf, GroupOf
    <3>1. v \notin E
      BY <1>1, <2>2
    <3> QED BY <1>1, <2>3, <3>1 DEF WholeOf
  <2>5. ASSUME NEW l \in Layers PROVE CopiedOf(r, l)'
    <3>1. ASSUME NEW k \in 1 .. n - 1
          PROVE  Has(stream'[r], Is("copy", k, l)) <=> Has(stream[r], Is("copy", k, l))
      <4>1. Is("copy", k, l).op = "copy"
        BY DEF Is
      <4> QED BY <2>2, <2>3, <4>1
    <3> QED BY <1>1, <1>2, <2>1, <3>1 DEF CopiedOf, GroupOf
  <2> QED BY <2>4, <2>5
<1> QED BY <1>3, <1>4, <1>5

LEMMA CopiesKept ==
  ASSUME Setting, Inv, CopyInv, [Next]_vars
  PROVE  CopyInv'
<1>1. /\ TypeThreads /\ TypeStreams /\ TypeRequests /\ TypeMemory /\ Orders /\ StreamInv
      /\ StepInv /\ FrontInv
  BY TypeParts DEF Inv, Shape, Orders
<1>2. ASSUME NEW r \in Ranks, BeginReal(r) \/ BeginDummy(r) \/ LaunchReal(r) \/ LaunchDummy(r)
      PROVE  CopyInv'
  <2>1. Launched(r) \/ Begun(r) \/ Warmed(r)
    BY <1>1, <1>2, BeginRealFacts, BeginDummyFacts, LaunchFacts
  <2> QED BY <2>1, CopiesOverThreads
<1>3. ASSUME NEW r \in Ranks, StreamStep(r) PROVE CopyInv'
  <2>1. PICK x \in Ops : Popped(r, x)
    BY <1>1, <1>3, StreamStepFacts
  <2> QED BY <2>1, CopiesOverPop
<1>4. CASE UNCHANGED <<plan, step, stream, gpu>>
  <2> SUFFICES ASSUME NEW r \in Ranks PROVE WholeOf(r)' /\ \A l \in Layers : CopiedOf(r, l)'
    BY DEF CopyInv
  <2> QED BY <1>4, SameCopies DEF CopyInv
<1>5. ASSUME NEW r \in Ranks, ClaimSeen(r) \/ ClaimTimeout(r) \/ SignalDummy(r)
      PROVE  UNCHANGED <<plan, step, stream, gpu>>
  BY <1>5 DEF ClaimSeen, ClaimTimeout, SignalDummy, streams
<1>6. ASSUME NEW d \in Groups, RequestThread(d) PROVE UNCHANGED <<plan, step, stream, gpu>>
  BY <1>6 DEF RequestThread, GetRequest, WaitEvent, StartCopy, EndCopy, Send, threads, streams
<1>7. ASSUME Worker PROVE UNCHANGED <<plan, step, stream, gpu>>
  BY <1>7 DEF Worker, Drain, WaitConsumed, ClaimReady, ClaimConsumed, StartCompute,
              EndCompute, FanOut, Publish, threads, streams
<1>8. ASSUME UNCHANGED vars PROVE UNCHANGED <<plan, step, stream, gpu>>
  BY <1>8 DEF vars, threads, streams
<1> QED BY <1>2, <1>3, <1>4, <1>5, <1>6, <1>7, <1>8 DEF Next, ModelThread

LEMMA CopiesAtFirst == Init => CopyInv
<1> SUFFICES ASSUME Init, NEW r \in Ranks PROVE WholeOf(r) /\ \A l \in Layers : CopiedOf(r, l)
  BY DEF CopyInv
<1>1. step[r] = 1 /\ stream[r] = <<>> /\ \A l \in Layers : gpu[r][l].forward = 0
  BY DEF Init
<1> QED BY <1>1, SmallStreams DEF WholeOf, CopiedOf

(* Steps the service does not see: no rank is given anything, and every     *)
(* layer is owed as before.                                                 *)
SameService ==
  /\ UNCHANGED <<plan, recorded, gpu>>
  /\ \A d \in Groups, l \in Layers : Owed(d, l)' <=> Owed(d, l)

LEMMA ServiceStutters ==
  ASSUME SameService
  PROVE  UNCHANGED Service!service
<1> DEFINE answered == [d \in Groups |-> {l \in Layers : ~Owed(d, l)}]
<1>1. answered' = answered
  <2> HIDE DEF Owed
  <2>1. \A d \in Groups : {l \in Layers : ~Owed(d, l)}' = {l \in Layers : ~Owed(d, l)}
    BY DEF SameService
  <2> QED BY <2>1
<1>2. UNCHANGED <<plan, recorded, gpu>>
  BY DEF SameService
<1> QED BY <1>1, <1>2 DEF Service!service

LEMMA OwedAway ==
  ASSUME NEW d, NEW l, worker' = worker, InFront(d)' = InFront(d)
  PROVE  Owed(d, l)' <=> Owed(d, l)
<1>1. /\ Ahead(d, l)' <=> Ahead(d, l)
      /\ At(d, l)' <=> At(d, l)
      /\ wpc' = wpc
  BY WorkerAway
<1> HIDE DEF Ahead, At
<1> QED BY <1>1 DEF Owed

LEMMA OwedOverDrain ==
  ASSUME WorkerShape, NEW from \in SUBSET Groups, Drained(from), NEW d \in Groups, NEW l \in Layers
  PROVE  Owed(d, l)' <=> Owed(d, l)
<1>1. /\ UNCHANGED <<queue, staging>> /\ batch = <<>>
      /\ wpc = "poll" /\ wpc' = "wait" /\ wlayer' = 1 /\ windex' = 1
  BY DEF Drained, WorkerShape
<1>2. ~At(d, l) /\ ~At(d, l)'
  BY <1>1 DEF At
<1>3. Ahead(d, l) <=> InFront(d)
  <2>1. \A i : i \notin 1 .. Len(batch)
    BY <1>1
  <2> QED BY <2>1 DEF Ahead
<1>4. CASE d \in from
  <2>1. InFront(d)
    BY <1>4 DEF Drained
  <2>2. PICK i \in 1 .. Len(batch') : batch'[i].group = d
    BY <1>4 DEF Drained
  <2>3. l = 1 \/ 1 < l
    BY DEF Layers
  <2>4. i = 1 \/ 1 < i
    BY <2>2 DEF Drained
  <2>5. Ahead(d, l)'
    BY <1>1, <2>2, <2>3, <2>4 DEF Ahead
  <2> HIDE DEF Ahead, At, InFront
  <2> QED BY <1>2, <1>3, <2>1, <2>5 DEF Owed
<1>5. CASE d \notin from
  <2>1. InFront(d)' = InFront(d)
    BY <1>1, <1>5 DEF Drained, InFront
  <2>2. \A i \in 1 .. Len(batch') : batch'[i].group # d
    BY <1>5 DEF Drained
  <2>3. Ahead(d, l)' <=> Ahead(d, l)
    BY <1>3, <2>1, <2>2 DEF Ahead
  <2> HIDE DEF Ahead, At, InFront
  <2> QED BY <1>2, <2>3 DEF Owed
<1> QED BY <1>4, <1>5

(* The steps of the worker but the end of a computation.                    *)
LEMMA OwedOverWorker ==
  ASSUME TypeWorker, WorkerShape, WorkerInv, wpc # "poll", Worker, ~Drain, ~EndCompute,
         NEW d \in Groups, NEW l \in Layers
  PROVE  Owed(d, l)' <=> Owed(d, l)
<1>1. UNCHANGED <<queue, staging, channel>>
  BY DEF Worker, WaitConsumed, ClaimReady, ClaimConsumed, StartCompute, FanOut, Publish, requests
<1>2. ASSUME Stays, wpc \in {"fanout", "publish"} <=> wpc' \in {"fanout", "publish"}
      PROVE  Owed(d, l)' <=> Owed(d, l)
  <2>1. /\ d = WGroup /\ l = wlayer =>
             /\ Ahead(d, l) <=> wpc = "wait"
             /\ Ahead(d, l)' <=> wpc' = "wait"
             /\ At(d, l) <=> wpc # "wait"
             /\ At(d, l)' <=> wpc' # "wait"
        /\ ~(d = WGroup /\ l = wlayer) =>
             (Ahead(d, l)' <=> Ahead(d, l)) /\ ~At(d, l) /\ ~At(d, l)'
    BY <1>2, StaysThere
  <2> HIDE DEF Ahead, At, WGroup
  <2> QED BY <1>2, <2>1 DEF Owed
<1>3. CASE WaitConsumed \/ ClaimReady \/ ClaimConsumed \/ StartCompute \/ FanOut
  <2>1. Stays /\ (wpc \in {"fanout", "publish"} <=> wpc' \in {"fanout", "publish"})
    BY <1>1, <1>3 DEF Stays, WaitConsumed, ClaimReady, ClaimConsumed, StartCompute, FanOut
  <2> QED BY <1>2, <2>1
<1>4. CASE Publish /\ MoreTargets
  <2>1. Stays /\ wpc = "publish" /\ wpc' = "publish"
    BY <1>1, <1>4 DEF Stays, Publish
  <2> QED BY <1>2, <2>1
<1>5. CASE Publish /\ ~MoreTargets
  <2>1. windex \in 1 .. Len(batch) /\ Len(batch) \in Nat /\ wlayer \in Nat /\ wlayer <= NumLayers
    BY WorkerAt DEF TypeWorker, Layers
  <2>2. Moves
    BY <1>1, <1>5, <2>1 DEF Publish, Moves
  <2>3. (Ahead(d, l)' <=> Ahead(d, l)) /\ ~At(d, l)' /\ wpc = "publish"
    BY <2>2, MovesOn DEF Moves
  <2> HIDE DEF Ahead, At
  <2> QED BY <2>3 DEF Owed
<1> QED BY <1>3, <1>4, <1>5 DEF Worker

(* The copies of a rank come in the order of its forwards and of the layers. *)
LEMMA CopyIsNext ==
  ASSUME Setting, Inv, CopyInv, NEW r \in Ranks, NEW x \in Ops, Popped(r, x), x.op = "copy"
  PROVE  /\ x.step \in 1 .. Len(plan[GroupOf(r)]) /\ plan[GroupOf(r)][x.step] # "capture"
         /\ x.layer \in Layers /\ gpu[r][x.layer].forward < x.step
         /\ \A j \in 1 .. x.step - 1 :
              plan[GroupOf(r)][j] # "capture" => j <= gpu[r][x.layer].forward
         /\ x.layer > 1 => gpu[r][x.layer - 1].forward = x.step
<1> DEFINE g == plan[GroupOf(r)]
           k == x.step
           l == x.layer
<1>1. /\ TypeThreads /\ TypeStreams /\ Orders /\ Has(stream[r], x) /\ WholeOf(r)
      /\ \A m \in Layers : CopiedOf(r, m) /\ gpu[r][m].forward \in Nat
  BY TypeParts DEF Inv, Shape, Popped, CopyInv, TypeStreams
<1>2. /\ k \in 1 .. Len(g) /\ g[k] # "capture" /\ l \in Layers /\ k < step[r]
      /\ step[r] \in Nat /\ k \in Nat /\ l \in Nat /\ x = Is("copy", k, l)
      /\ Pos(x) = 4 * l + 1
  <2>1. OpOf(r, x)
    BY <1>1 DEF Orders, StreamInv, StreamOf
  <2>2. l \in Layers /\ k < step[r]
    BY <2>1 DEF OpOf, ForwardOps
  <2> QED BY <1>1, <2>1, <2>2, OpIs DEF OpOf, TypeThreads, Pos
<1>3. \A y : Has(stream[r], y) => y = x \/ Earlier(x, y)
  BY DEF Popped
<1>4. k \in 1 .. step[r] - 1
  BY <1>2
<1> HIDE DEF g, k, l
<1>5. gpu[r][l].forward < k
  BY <1>1, <1>2, <1>4 DEF CopiedOf, g
<1>6. ASSUME NEW j \in 1 .. k - 1, g[j] # "capture" PROVE j <= gpu[r][l].forward
  <2>1. PICK c \in Ops : c = Is("copy", j, l) /\ c.step = j
    BY <1>2, CopyOp
  <2>2. ~Has(stream[r], c)
    BY <1>2, <1>3, <2>1 DEF Earlier, k
  <2> QED BY <1>1, <1>2, <1>4, <1>6, <2>1, <2>2 DEF CopiedOf, g
<1>7. ASSUME l > 1 PROVE gpu[r][l - 1].forward = k
  <2>1. PICK m \in Layers : m = l - 1 /\ m \in Nat
    BY <1>2, <1>7 DEF Layers
  <2>2. PICK f \in Nat : f = gpu[r][m].forward
    BY <1>1
  <2>3. PICK c \in Ops : c = Is("copy", k, m) /\ c.step = k /\ Pos(c) = 4 * m + 1
    BY <1>2, <2>1, CopyOp
  <2>4. ~Has(stream[r], c)
    <3>1. ~Earlier(x, c) /\ c # x
      BY <1>2, <2>1, <2>3 DEF Earlier, k
    <3> QED BY <1>3, <3>1
  <2>5. k <= f
    BY <1>1, <1>2, <1>4, <2>2, <2>3, <2>4 DEF CopiedOf, g
  <2>6. f < step[r] /\ (f > 0 => g[f] # "capture")
    BY <1>1, <2>2 DEF CopiedOf, g
  <2>7. ~(f > k)
    <3> SUFFICES ASSUME f > k PROVE FALSE
      OBVIOUS
    <3>1. f \in x.step + 1 .. step[r] - 1 /\ f \in 1 .. step[r] - 1 /\ g[f] # "capture"
      BY <1>2, <2>6 DEF k
    <3>2. Has(stream[r], Is("copy", f, m))
      BY <1>1, <3>1, CopyOp DEF WholeOf, g
    <3>3. ~Has(stream[r], Is("copy", f, m))
      BY <1>1, <2>2, <3>1 DEF CopiedOf, g
    <3> QED BY <3>2, <3>3
  <2> QED BY <1>2, <2>1, <2>2, <2>5, <2>7
<1> QED BY <1>2, <1>5, <1>6, <1>7 DEF g, k, l

(* When rank 0 begins a real step, nothing of the forwards before it is left *)
(* to copy on any rank: a real one is over, a warm-up was synchronised.     *)
LEMMA BeginIsNext ==
  ASSUME Setting, Inv, CopyInv, NEW r \in Ranks, Begun(r), IsRankZero(r),
         NEW q \in Targets(GroupOf(r)), NEW l \in Layers
  PROVE  /\ gpu[q][l].forward < step[r]
         /\ \A j \in 1 .. step[r] - 1 :
              plan[GroupOf(r)][j] # "capture" => j <= gpu[q][l].forward
<1>1. TypeThreads /\ TypeStreams /\ Orders
  BY TypeParts DEF Inv, Shape
<1>2. PICK d \in Groups : d = GroupOf(r) /\ GroupOf(q) = d /\ q \in Ranks
  BY RankFacts
<1>3. PICK k \in Nat : k = step[r] /\ step[q] = k
  BY <1>1, <1>2, AllAtTheStep
<1>4. /\ Real(d, k) /\ \A j \in 1 .. k - 1 : plan[d][j] = "real" => done[RankZero(d)] >= j
  BY <1>2, <1>3 DEF Begun
<1>5. RankZero(d) \in Ranks /\ GroupOf(RankZero(d)) = d /\ q \in Targets(d)
  BY <1>2, RankFacts
<1>6. DoneOf(RankZero(d)) /\ CopiedOf(q, l) /\ done[RankZero(d)] \in Nat
  BY <1>1, <1>2, <1>5 DEF Orders, DoneInv, CopyInv, TypeStreams
<1>7. ASSUME NEW j \in 1 .. k - 1, plan[d][j] # "capture", Has(stream[q], Is("copy", j, l))
      PROVE  FALSE
  <2>1. PICK x \in Ops : x = Is("copy", j, l) /\ x.op = "copy" /\ x.step = j
    BY <1>3, CopyOp
  <2>2. j \in 1 .. Len(plan[d]) /\ Len(plan[d]) \in Nat /\ plan[d] \in Plans
        /\ plan[d][j] \in {"capture", "dummy", "real"}
    BY <1>1, <1>3, <1>4, PlanFacts DEF Real, TypeThreads
  <2>3. CASE plan[d][j] = "real"
    <3>1. done[RankZero(d)] >= j
      BY <1>4, <1>7, <2>3
    <3>2. x.op = "end"
      BY <1>5, <1>6, <1>7, <2>1, <2>2, <2>3, <3>1 DEF DoneOf
    <3> QED BY <2>1, <3>2
  <2>4. CASE plan[d][j] = "dummy"
    <3>1. OpOf(q, x)
      BY <1>1, <1>2, <1>7, <2>1 DEF Orders, StreamInv, StreamOf
    <3>2. step[q] = j \/ step[q] = j + 1
      BY <1>2, <2>1, <2>4, <3>1 DEF OpOf
    <3>3. k = j + 1
      BY <1>3, <1>7, <3>2
    <3>4. plan[d][k] = "capture"
      BY <1>4, <2>2, <2>4, <3>3 DEF Setting, PlansPaired, Real
    <3> QED BY <1>4, <3>4 DEF Real
  <2> QED BY <1>7, <2>2, <2>3, <2>4
<1>8. gpu[q][l].forward < k
  BY <1>3, <1>6 DEF CopiedOf
<1>9. ASSUME NEW j \in 1 .. k - 1, plan[d][j] # "capture" PROVE j <= gpu[q][l].forward
  BY <1>2, <1>3, <1>6, <1>7, <1>9 DEF CopiedOf
<1> QED BY <1>2, <1>3, <1>8, <1>9

LEMMA ServiceSets ==
  /\ Service!Groups = Groups /\ Service!Layers = Layers /\ Service!Ranks = Ranks
BY DEF Service!Groups, Service!Layers, Service!Ranks, Groups, Layers, Ranks

(* Rank 0 begins a real step: its group asks for the outputs.              *)
LEMMA BeginAsks ==
  ASSUME Setting, Inv, CopyInv, NEW r \in Ranks, Begun(r), IsRankZero(r)
  PROVE  Service!Ask(GroupOf(r))
<1> DEFINE answered == [d \in Groups |-> {l \in Layers : ~Owed(d, l)}]
<1>1. TypeThreads /\ TypeStreams /\ TypeRequests
  BY TypeParts DEF Inv, Shape
<1>2. PICK d \in Groups : d = GroupOf(r) /\ d = r[1]
  BY RankFacts DEF GroupOf
<1>3. PICK k : k = step[r]
  OBVIOUS
<1>4. /\ Real(d, k) /\ recorded' = [recorded EXCEPT ![d] = k] /\ UNCHANGED <<plan, gpu>>
      /\ queue' = [queue EXCEPT ![d] = <<k>>]
      /\ UNCHANGED <<staging, channel, worker>>
  BY <1>2, <1>3 DEF Begun
<1>5. ASSUME NEW q \in Ranks, NEW l \in Layers, q[1] = d PROVE Service!IsNext(q, l, k)
  <2>1. q \in Targets(d)
    BY <1>5 DEF Targets, GroupOf
  <2>2. /\ gpu[q][l].forward < k
        /\ \A j \in 1 .. k - 1 : plan[d][j] # "capture" => j <= gpu[q][l].forward
    BY <1>2, <1>3, <2>1, BeginIsNext
  <2> QED BY <1>4, <1>5, <2>2 DEF Service!IsNext, Real
<1>6. answered' = [answered EXCEPT ![d] = {}]
  <2>1. ASSUME NEW l \in Layers PROVE Owed(d, l)'
    <3>1. queue'[d] = <<k>>
      BY <1>1, <1>4 DEF TypeRequests
    <3>2. InFront(d)'
      BY <3>1 DEF InFront
    <3> HIDE DEF InFront
    <3> QED BY <3>2 DEF Owed, Ahead
  <2>2. ASSUME NEW e \in Groups, e # d, NEW l \in Layers PROVE Owed(e, l)' <=> Owed(e, l)
    <3>1. queue'[e] = queue[e]
      BY <1>1, <1>4, <2>2 DEF TypeRequests
    <3>2. InFront(e)' = InFront(e)
      BY <1>4, <3>1 DEF InFront
    <3> QED BY <1>4, <3>2, OwedAway
  <2> HIDE DEF Owed
  <2>3. {l \in Layers : ~Owed(d, l)}' = {}
    BY <2>1
  <2>4. \A e \in Groups : e # d => {l \in Layers : ~Owed(e, l)}' = {l \in Layers : ~Owed(e, l)}
    BY <2>2
  <2> QED BY <2>3, <2>4
<1> HIDE DEF answered
<1>7. \E j \in 1 .. Len(plan[d]) :
        /\ plan[d][j] = "real"
        /\ \A q \in Ranks, l \in Layers : q[1] = d => Service!IsNext(q, l, j)
        /\ recorded' = [recorded EXCEPT ![d] = j]
  BY <1>4, <1>5 DEF Real
<1> QED BY <1>2, <1>4, <1>6, <1>7, ServiceSets DEF Service!Ask, answered

(* The worker ends the computation of a layer: the group is answered.      *)
LEMMA ComputeAnswers ==
  ASSUME TypeWorker, WorkerShape, WorkerInv, EndCompute
  PROVE  WGroup \in Groups /\ Service!Answer(WGroup)
<1> DEFINE answered == [d \in Groups |-> {l \in Layers : ~Owed(d, l)}]
<1>1. /\ wpc = "computing" /\ wpc' = "fanout" /\ UNCHANGED <<plan, recorded, gpu>>
      /\ UNCHANGED <<queue, staging, channel, batch, wlayer, windex>>
  BY DEF EndCompute, requests, streams
<1>2. Stays
  BY <1>1 DEF Stays
<1>3. PICK d \in Groups : d = WGroup
  BY <1>1, WorkerAt
<1>4. PICK l \in Layers : l = wlayer
  BY DEF TypeWorker
<1>5. ASSUME NEW e \in Groups, NEW m \in Layers
      PROVE  Owed(e, m)' <=> Owed(e, m) /\ ~(e = d /\ m = l)
  <2>1. /\ e = d /\ m = l =>
             /\ Ahead(e, m) <=> wpc = "wait"
             /\ Ahead(e, m)' <=> wpc' = "wait"
             /\ At(e, m) <=> wpc # "wait"
             /\ At(e, m)' <=> wpc' # "wait"
        /\ ~(e = d /\ m = l) =>
             (Ahead(e, m)' <=> Ahead(e, m)) /\ ~At(e, m) /\ ~At(e, m)'
    BY <1>2, <1>3, <1>4, StaysThere
  <2> HIDE DEF Ahead, At
  <2> QED BY <1>1, <2>1 DEF Owed
<1>6. Owed(d, l)
  BY <1>1, <1>3, <1>4 DEF Owed, At
<1>7. ASSUME NEW m \in 1 .. l - 1 PROVE m \in Layers /\ ~Owed(d, m)
  <2>1. m \in Layers /\ ~(l < m) /\ l # m /\ m # l
    BY DEF Layers
  <2>2. ~InFront(d) /\ ~At(d, m)
    BY <1>1, <1>3, <1>4, <2>1, AheadOfWorker DEF At
  <2>3. ~Ahead(d, m)
    <3> HIDE DEF InFront
    <3> QED BY <1>4, <2>1, <2>2 DEF Ahead
  <2> HIDE DEF Ahead, At
  <2> QED BY <2>1, <2>2, <2>3 DEF Owed
<1> HIDE DEF Owed
<1>8. answered' = [answered EXCEPT ![d] = answered[d] \cup {l}]
  <2>1. {m \in Layers : ~Owed(d, m)}' = {m \in Layers : ~Owed(d, m)} \cup {l}
    BY <1>5
  <2>2. \A e \in Groups : e # d => {m \in Layers : ~Owed(e, m)}' = {m \in Layers : ~Owed(e, m)}
    BY <1>5
  <2> QED BY <2>1, <2>2
<1>9. l \in Layers \ answered[d] /\ \A m \in 1 .. l - 1 : m \in answered[d]
  BY <1>6, <1>7
<1> HIDE DEF answered
<1>10. Service!Answer(d)
  BY <1>1, <1>8, <1>9, ServiceSets DEF Service!Answer, answered
<1> QED BY <1>3, <1>10

(* The stream of a rank executes a copy: the rank is given its output.     *)
LEMMA CopyGives ==
  ASSUME Setting, Inv, CopyInv, NEW r \in Ranks, NEW x \in Ops, Popped(r, x), x.op = "copy"
  PROVE  x.layer \in Layers /\ Service!Give(r, x.layer)
<1> DEFINE answered == [d \in Groups |-> {l \in Layers : ~Owed(d, l)}]
<1>1. TypeThreads /\ TypeStreams /\ Orders /\ SlotInv
  BY TypeParts DEF Inv, Shape
<1>2. PICK d \in Groups : d = GroupOf(r) /\ d = r[1]
  BY RankFacts DEF GroupOf
<1>3. PICK k, l : k = x.step /\ l = x.layer
  OBVIOUS
<1>4. /\ k \in 1 .. Len(plan[d]) /\ k \in Nat /\ l \in Layers /\ Service!IsNext(r, l, k)
      /\ l > 1 => gpu[r][l - 1].forward = k
  <2>1. k \in Nat
    BY <1>3, OpIs
  <2> QED BY <1>2, <1>3, <2>1, CopyIsNext DEF Service!IsNext
<1>5. ASSUME plan[d][k] = "real" PROVE recorded[d] = k /\ l \in answered[d]
  <2>1. Serving(d)
    BY <1>2, <1>3, <1>5, CopyIsServed
  <2>2. x = Is("copy", recorded[d], l) /\ Served(r, l)
    BY <1>1, <1>2, <1>3, <2>1, GivenToStream DEF LaunchNames
  <2>3. recorded[d] = k
    BY <1>3, <2>2 DEF Is
  <2>4. ~Owed(d, l)
    <3> HIDE DEF Ahead, At
    <3> QED BY <1>2, <2>2 DEF Served, Owed
  <2> HIDE DEF Owed
  <2> QED BY <1>4, <2>3, <2>4
<1>6. gpu' = [gpu EXCEPT ![r][l] =
                [forward |-> k, got |-> IF plan[d][k] = "real" THEN Data(k, TRUE) ELSE Nothing]]
  <2>1. gpu' = [gpu EXCEPT ![r][l] = [forward |-> k, got |-> out[r][l]]]
    BY <1>3 DEF Popped
  <2>2. out[r][l] = IF plan[d][k] = "real" THEN Data(k, TRUE) ELSE Nothing
    BY <1>2, <1>3, CopyTakesOwn
  <2> HIDE DEF Data, Nothing
  <2> QED BY <2>1, <2>2
<1>7. [n \in Steps |-> Data(n, TRUE)][k] = Data(k, TRUE)
  BY <1>4 DEF Steps
<1>8. answered' = answered /\ UNCHANGED <<plan, recorded>>
  <2>1. UNCHANGED <<plan, recorded, queue, staging, channel, worker>>
    BY DEF Popped, requests
  <2>2. \A e \in Groups, m \in Layers : Owed(e, m)' <=> Owed(e, m)
    <3>1. \A e : InFront(e)' = InFront(e)
      BY <2>1 DEF InFront
    <3> QED BY <2>1, <3>1, OwedAway
  <2> HIDE DEF Owed
  <2>3. \A e \in Groups : {m \in Layers : ~Owed(e, m)}' = {m \in Layers : ~Owed(e, m)}
    BY <2>2
  <2> QED BY <2>1, <2>3
<1> HIDE DEF answered, Data, Nothing
<1>9. Service!Give(r, l)
  BY <1>2, <1>4, <1>5, <1>6, <1>7, <1>8 DEF Service!Give, answered
<1> QED BY <1>3, <1>4, <1>9

LEMMA StepImplementsService ==
  ASSUME Setting, Inv, CopyInv, [Next]_vars
  PROVE  [Service!Next]_(Service!service)
<1>1. /\ TypeThreads /\ TypeStreams /\ TypeRequests /\ TypeMemory /\ TypeWorker /\ WorkerShape
      /\ Orders /\ StreamInv /\ StepInv /\ FrontInv /\ WorkerInv
  BY TypeParts DEF Inv, Shape, Orders
<1>2. ASSUME UNCHANGED <<plan, recorded, gpu, worker>>,
             \A d \in Groups : InFront(d)' = InFront(d)
      PROVE  SameService
  BY <1>2, OwedAway DEF SameService
<1>3. ASSUME UNCHANGED <<plan, recorded, gpu, worker, queue, staging, channel>>
      PROVE  SameService
  <2>1. \A d \in Groups : InFront(d)' = InFront(d)
    BY <1>3 DEF InFront
  <2> QED BY <1>2, <1>3, <2>1
<1>4. ASSUME NEW r \in Ranks, BeginReal(r)
      PROVE  SameService \/ \E d \in Groups : Service!Ask(d)
  <2>1. Begun(r) /\ GroupOf(r) \in Groups
    BY <1>1, <1>4, BeginRealFacts, RankFacts
  <2>2. CASE IsRankZero(r)
    BY <2>1, <2>2, BeginAsks
  <2>3. CASE ~IsRankZero(r)
    BY <1>3, <2>1, <2>3 DEF Begun
  <2> QED BY <2>2, <2>3
<1>5. ASSUME NEW r \in Ranks, ModelThread(r) \/ ClaimTimeout(r), ~BeginReal(r)
      PROVE  SameService
  <2>1. UNCHANGED <<plan, recorded, gpu, worker, queue, staging, channel>>
    BY <1>5 DEF ModelThread, ClaimSeen, ClaimTimeout, LaunchReal, BeginDummy, SignalDummy,
                LaunchDummy, requests, streams
  <2> QED BY <1>3, <2>1
<1>6. ASSUME NEW r \in Ranks, StreamStep(r)
      PROVE  SameService \/ \E l \in Layers : Service!Give(r, l)
  <2>1. PICK x \in Ops : Popped(r, x)
    BY <1>1, <1>6, StreamStepFacts
  <2>2. CASE x.op = "copy"
    BY <2>1, <2>2, CopyGives
  <2>3. CASE x.op # "copy"
    <3>1. UNCHANGED <<plan, recorded, gpu, worker, queue, staging, channel>>
      BY <2>1, <2>3 DEF Popped, requests
    <3> QED BY <1>3, <3>1
  <2> QED BY <2>2, <2>3
<1>7. ASSUME NEW e \in Groups, RequestThread(e) PROVE SameService
  <2>1. /\ UNCHANGED <<plan, recorded, gpu, worker>> /\ InFront(e) /\ InFront(e)'
        /\ \A d \in Groups : d # e =>
             queue'[d] = queue[d] /\ staging'[d] = staging[d] /\ channel'[d] = channel[d]
    BY <1>1, <1>7, RequestFacts DEF streams
  <2>2. \A d \in Groups : d # e => InFront(d)' = InFront(d)
    BY <2>1 DEF InFront
  <2>3. InFront(e)' = InFront(e)
    BY <2>1 DEF InFront
  <2> QED BY <1>2, <2>1, <2>2, <2>3
<1>8. ASSUME Drain PROVE SameService
  <2>1. PICK from \in SUBSET Groups : Drained(from)
    BY <1>1, <1>8, DrainTakes
  <2>2. UNCHANGED <<plan, recorded, gpu>>
    BY <2>1 DEF Drained, streams
  <2> QED BY <1>1, <2>1, <2>2, OwedOverDrain DEF SameService
<1>9. ASSUME EndCompute PROVE \E d \in Groups : Service!Answer(d)
  BY <1>1, <1>9, ComputeAnswers
<1>10. ASSUME Worker, ~Drain, ~EndCompute PROVE SameService
  <2>1. wpc # "poll" /\ UNCHANGED <<plan, recorded, gpu>>
    BY <1>10 DEF Worker, WaitConsumed, ClaimReady, ClaimConsumed, StartCompute, FanOut, Publish,
                streams
  <2> QED BY <1>1, <1>10, <2>1, OwedOverWorker DEF SameService
<1>11. ASSUME UNCHANGED vars PROVE SameService
  <2>1. UNCHANGED <<plan, recorded, gpu, worker, queue, staging, channel>>
    BY <1>11 DEF vars, requests, streams
  <2> QED BY <1>3, <2>1
<1>12. \/ SameService
       \/ \E d \in Groups : Service!Ask(d) \/ Service!Answer(d)
       \/ \E r \in Ranks, l \in Layers : Service!Give(r, l)
  BY <1>4, <1>5, <1>6, <1>7, <1>8, <1>9, <1>10, <1>11 DEF Next, ModelThread
<1>13. SameService \/ Service!Next
  BY <1>12, ServiceSets DEF Service!Next
<1>14. SameService => UNCHANGED Service!service
  BY ServiceStutters
<1> QED BY <1>13, <1>14

LEMMA ServiceAtFirst == Init => Service!Init
<1> SUFFICES ASSUME Init PROVE Service!Init
  OBVIOUS
<1> DEFINE answered == [d \in Groups |-> {l \in Layers : ~Owed(d, l)}]
<1>1. /\ plan \in [Groups -> Plans] /\ recorded = [d \in Groups |-> 0]
      /\ gpu = [r \in Ranks |-> [l \in Layers |-> [forward |-> 0, got |-> Nothing]]]
  BY DEF Init
<1>2. ASSUME NEW d \in Groups, NEW l \in Layers PROVE ~Owed(d, l)
  <2>1. ~InFront(d) /\ batch = <<>> /\ wpc = "poll"
    BY DEF Init, InFront
  <2>2. \A i : i \notin 1 .. Len(batch)
    BY <2>1
  <2> HIDE DEF InFront
  <2> QED BY <2>1, <2>2 DEF Owed, Ahead, At
<1>3. answered = [d \in Groups |-> Layers]
  <2> HIDE DEF Owed
  <2>1. \A d \in Groups : {l \in Layers : ~Owed(d, l)} = Layers
    BY <1>2
  <2> QED BY <2>1
<1> HIDE DEF answered, Nothing
<1> QED BY <1>1, <1>3, ServiceSets DEF Service!Init, answered

(* The handshake is the service: whatever the interleaving of the threads,  *)
(* the worker and the streams, and whoever gives up waiting, a group asks   *)
(* when everything before was given, its layers are answered in order, and  *)
(* every rank is given each layer of each of its forwards once, in order,   *)
(* its own output or a dummy's zeros.                                       *)
THEOREM ImplementsService ==
  ASSUME Setting
  PROVE  Spec => ServesForwards
<1>1. Init => Service!Init
  BY ServiceAtFirst
<1>2. Init => CopyInv
  BY CopiesAtFirst
<1>3. Inv /\ CopyInv /\ [Next]_vars => CopyInv'
  BY CopiesKept
<1>4. Inv /\ CopyInv /\ [Next]_vars => [Service!Next]_(Service!service)
  BY StepImplementsService
<1>5. Spec => []Inv
  BY InvariantHolds
<1> QED BY <1>1, <1>2, <1>3, <1>4, <1>5, PTL DEF Spec, Service!Spec, ServesForwards

=============================================================================
