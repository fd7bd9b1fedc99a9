---------------------------- MODULE EngineProofs ----------------------------
(***************************************************************************)
(* Proofs about the scheduler and the engine core, for any set of          *)
(* requests, any limits and any configurations.                            *)
(***************************************************************************)
EXTENDS Engine, FiniteSetTheorems, SequenceTheorems, WellFoundedInduction, TLAPS

-----------------------------------------------------------------------------
(* The least and the greatest of integers, and how they are numbered. *)

LEMMA MaxOfTwo ==
  ASSUME NEW x \in Int, NEW y \in Int
  PROVE  Max({x, y}) = IF x >= y THEN x ELSE y
<1>1. CASE x >= y
  <2>1. x \in {x, y} /\ \A z \in {x, y} : x >= z
    BY <1>1
  <2> QED BY <2>1, <1>1 DEF Max
<1>2. CASE ~(x >= y)
  <2>1. y \in {x, y} /\ \A z \in {x, y} : y >= z
    BY <1>2
  <2> QED BY <2>1, <1>2 DEF Max
<1> QED BY <1>1, <1>2

LEMMA MinOfTwo ==
  ASSUME NEW x \in Int, NEW y \in Int
  PROVE  Min({x, y}) = IF x <= y THEN x ELSE y
<1>1. CASE x <= y
  <2>1. x \in {x, y} /\ \A z \in {x, y} : x <= z
    BY <1>1
  <2> QED BY <2>1, <1>1 DEF Min
<1>2. CASE ~(x <= y)
  <2>1. y \in {x, y} /\ \A z \in {x, y} : y <= z
    BY <1>2
  <2> QED BY <2>1, <1>2 DEF Min
<1> QED BY <1>1, <1>2

LEMMA MinFact ==
  ASSUME NEW S \in SUBSET Nat, S # {}
  PROVE  Min(S) \in S /\ \A x \in S : Min(S) <= x
<1> DEFINE R == OpToRel(<, Nat)
<1>1. IsWellFoundedOn(R, Nat)
  BY NatLessThanWellFounded
<1>2. \A x, y \in Nat : <<y, x>> \in R <=> y < x
  BY DEF OpToRel
<1> HIDE DEF R
<1>3. \E x \in S : \A y \in S : ~ (<<y, x>> \in R)
  BY <1>1, WFMin
<1>4. PICK m \in S : \A y \in S : ~ (<<y, m>> \in R)
  BY <1>3
<1>5. \A y \in S : ~ (y < m)
  BY <1>2, <1>4
<1>6. \A y \in S : m <= y
  BY <1>5
<1>7. \E x \in S : \A y \in S : x <= y
  BY <1>6
<1> QED
  BY <1>7 DEF Min

(* Numbering the members of a finite set of integers from below.           *)
Below(S) == [x \in S |-> Cardinality({y \in S : y < x})]

LEMMA BelowIsBijection ==
  ASSUME NEW S \in SUBSET Int, IsFiniteSet(S)
  PROVE  Below(S) \in Bijection(S, 0 .. Cardinality(S) - 1)
<1> DEFINE T == 0 .. Cardinality(S) - 1
           B(x) == {y \in S : y < x}
<1>1. Cardinality(S) \in Nat
  BY FS_CardinalityType
<1>2. ASSUME NEW x \in S
      PROVE  IsFiniteSet(B(x)) /\ Cardinality(B(x)) \in T
  <2>1. /\ IsFiniteSet(B(x))
        /\ Cardinality(B(x)) <= Cardinality(S)
        /\ Cardinality(S) = Cardinality(B(x)) => S = B(x)
    BY FS_Subset, B(x) \in SUBSET S
  <2>2. x \notin B(x)
    OBVIOUS
  <2>3. Cardinality(B(x)) \in Nat
    BY <2>1, FS_CardinalityType
  <2> QED BY <1>1, <2>1, <2>2, <2>3
<1>3. ASSUME NEW x \in S, NEW z \in S, x < z
      PROVE  Cardinality(B(x)) # Cardinality(B(z))
  <2>1. B(x) \in SUBSET B(z)
    <3>1. \A y \in S : y < x => y < z
      BY <1>3
    <3> QED BY <3>1
  <2>2. x \in B(z) /\ x \notin B(x)
    BY <1>3
  <2> QED BY <1>2, <2>1, <2>2, FS_Subset
<1>4. Below(S) \in [S -> T]
  BY <1>2 DEF Below
<1>5. \A x, z \in S : Below(S)[x] = Below(S)[z] => x = z
  <2> SUFFICES ASSUME NEW x \in S, NEW z \in S, x # z
               PROVE  Below(S)[x] # Below(S)[z]
    OBVIOUS
  <2>1. x < z \/ z < x
    OBVIOUS
  <2> QED BY <1>3, <2>1 DEF Below
<1>6. Below(S) \in Injection(S, T)
  BY <1>4, <1>5 DEF Injection, IsInjective
<1>7. IsFiniteSet(T) /\ Cardinality(T) = Cardinality(S)
  BY <1>1, FS_Interval
<1> QED BY <1>6, <1>7, FS_Injection DEF Bijection

-----------------------------------------------------------------------------
(* Sequences of requests. *)

(* q is a list of the members of X, each once. *)
Lists(q, X) == q \in Seq(Reqs) /\ ToSet(q) = X /\ IsInjective(q)

LEMMA ListIs ==
  ASSUME NEW q, NEW X
  PROVE  Lists(q, X) <=>
           /\ q \in Seq(Reqs)
           /\ X = {q[i] : i \in 1 .. Len(q)}
           /\ \A i, j \in 1 .. Len(q) : q[i] = q[j] => i = j
<1>1. CASE q \in Seq(Reqs)
  <2>1. DOMAIN q = 1 .. Len(q)
    BY <1>1
  <2> QED BY <1>1, <2>1 DEF Lists, ToSet, IsInjective
<1>2. CASE q \notin Seq(Reqs)
  BY <1>2 DEF Lists
<1> QED BY <1>1, <1>2

LEMMA ListOfNone == Lists(<<>>, {})
<1>1. <<>> \in Seq(Reqs) /\ DOMAIN <<>> = {}
  OBVIOUS
<1> QED BY <1>1 DEF Lists, ToSet, IsInjective

LEMMA ListAppend ==
  ASSUME NEW q, NEW X, Lists(q, X), NEW r \in Reqs \ X
  PROVE  Lists(Append(q, r), X \cup {r})
<1>1. /\ q \in Seq(Reqs) /\ X = {q[i] : i \in 1 .. Len(q)} /\ Len(q) \in Nat
      /\ \A i, j \in 1 .. Len(q) : q[i] = q[j] => i = j
  BY ListIs
<1>2. /\ Append(q, r) \in Seq(Reqs) /\ Len(Append(q, r)) = Len(q) + 1
      /\ \A i \in 1 .. Len(q) : Append(q, r)[i] = q[i]
      /\ Append(q, r)[Len(q) + 1] = r
  BY <1>1
<1>3. PICK p : p = Append(q, r)
  OBVIOUS
<1>4. 1 .. Len(p) = (1 .. Len(q)) \cup {Len(q) + 1}
  BY <1>1, <1>2, <1>3
<1>5. X \cup {r} = {p[i] : i \in 1 .. Len(p)}
  BY <1>1, <1>2, <1>3, <1>4
<1>6. \A i, j \in 1 .. Len(p) : p[i] = p[j] => i = j
  BY <1>1, <1>2, <1>3, <1>4
<1>7. p \in Seq(Reqs)
  BY <1>2, <1>3
<1>8. Lists(p, X \cup {r})
  BY <1>5, <1>6, <1>7, ListIs
<1> QED BY <1>3, <1>8

LEMMA ListConcat ==
  ASSUME NEW p, NEW X, Lists(p, X), NEW q, NEW Y, Lists(q, Y), X \cap Y = {}
  PROVE  Lists(p \o q, X \cup Y)
<1>1. /\ p \in Seq(Reqs) /\ X = {p[i] : i \in 1 .. Len(p)} /\ Len(p) \in Nat
      /\ \A i, j \in 1 .. Len(p) : p[i] = p[j] => i = j
  BY ListIs
<1>2. /\ q \in Seq(Reqs) /\ Y = {q[i] : i \in 1 .. Len(q)} /\ Len(q) \in Nat
      /\ \A i, j \in 1 .. Len(q) : q[i] = q[j] => i = j
  BY ListIs
<1>3. PICK m \in Nat, n \in Nat : m = Len(p) /\ n = Len(q)
  BY <1>1, <1>2
<1>4. /\ p \o q \in Seq(Reqs) /\ Len(p \o q) = m + n
      /\ \A i \in 1 .. m : (p \o q)[i] = p[i]
      /\ \A i \in 1 .. n : (p \o q)[m + i] = q[i]
  BY <1>1, <1>2, <1>3
<1>5. PICK s : s = p \o q
  OBVIOUS
<1>6. \A k \in 1 .. m + n : k \in 1 .. m \/ \E i \in 1 .. n : k = m + i
  <2> TAKE k \in 1 .. m + n
  <2>1. k > m => k - m \in 1 .. n /\ k = m + (k - m)
    OBVIOUS
  <2> QED BY <2>1
<1>7. /\ \A i \in 1 .. m : i \in 1 .. m + n /\ s[i] = p[i] /\ s[i] \in X
      /\ \A i \in 1 .. n : m + i \in 1 .. m + n /\ s[m + i] = q[i] /\ s[m + i] \in Y
  BY <1>1, <1>2, <1>3, <1>4, <1>5
<1>8. X \cup Y = {s[k] : k \in 1 .. m + n}
  <2>1. \A k \in 1 .. m + n : s[k] \in X \cup Y
    BY <1>6, <1>7
  <2>2. \A x \in X : \E k \in 1 .. m + n : s[k] = x
    BY <1>1, <1>3, <1>7
  <2>3. \A y \in Y : \E k \in 1 .. m + n : s[k] = y
    BY <1>2, <1>3, <1>7
  <2> QED BY <2>1, <2>2, <2>3
<1>9. ASSUME NEW k \in 1 .. m + n, NEW l \in 1 .. m + n, s[k] = s[l]
      PROVE  k = l
  <2>1. CASE k \in 1 .. m /\ l \in 1 .. m
    BY <1>1, <1>3, <1>7, <1>9, <2>1
  <2>2. CASE k \notin 1 .. m /\ l \notin 1 .. m
    <3>1. PICK i \in 1 .. n, j \in 1 .. n : k = m + i /\ l = m + j
      BY <1>6, <2>2
    <3>2. q[i] = q[j]
      BY <1>7, <1>9, <3>1
    <3> QED BY <1>2, <1>3, <3>1, <3>2
  <2>3. (s[k] \in X <=> k \in 1 .. m) /\ (s[l] \in X <=> l \in 1 .. m)
    BY <1>6, <1>7
  <2> QED BY <1>9, <2>1, <2>2, <2>3
<1>10. s \in Seq(Reqs) /\ Len(s) = m + n
  BY <1>4, <1>5
<1>11. Lists(s, X \cup Y)
  BY <1>8, <1>9, <1>10, ListIs
<1> QED BY <1>5, <1>11

LEMMA ListSingle ==
  ASSUME NEW r \in Reqs
  PROVE  Lists(<<r>>, {r})
<1>1. PICK q : q = <<r>>
  OBVIOUS
<1>2. q \in Seq(Reqs) /\ DOMAIN q = {1} /\ q[1] = r
  BY <1>1
<1>3. Lists(q, {r})
  BY <1>2 DEF Lists, ToSet, IsInjective
<1> QED BY <1>1, <1>3

LEMMA ListPart ==
  ASSUME NEW q, NEW X, Lists(q, X), q # <<>>
  PROVE  /\ Head(q) \in X /\ Lists(Tail(q), X \ {Head(q)})
         /\ Last(q) \in X /\ Lists(Front(q), X \ {Last(q)})
         /\ Len(q) \in Nat \ {0} /\ Len(Front(q)) = Len(q) - 1
         /\ \A i \in 1 .. Len(q) - 1 : Front(q)[i] = q[i]
         /\ Last(q) = q[Len(q)]
<1>1. /\ q \in Seq(Reqs) /\ X = {q[i] : i \in 1 .. Len(q)} /\ Len(q) \in Nat \ {0}
      /\ \A i, j \in 1 .. Len(q) : q[i] = q[j] => i = j
  BY ListIs
<1>2. PICK n \in Nat \ {0} : n = Len(q)
  BY <1>1
<1>3. PICK tail : tail = Tail(q)
  OBVIOUS
<1>4. /\ Head(q) = q[1] /\ tail \in Seq(Reqs) /\ Len(tail) = n - 1
      /\ \A i \in 1 .. n - 1 : tail[i] = q[i + 1]
  BY <1>1, <1>2, <1>3
<1>5. X \ {q[1]} = {tail[i] : i \in 1 .. n - 1}
  <2>1. \A i \in 1 .. n - 1 : tail[i] \in X /\ tail[i] # q[1]
    BY <1>1, <1>2, <1>4
  <2>2. ASSUME NEW x \in X, x # q[1]
        PROVE  \E i \in 1 .. n - 1 : tail[i] = x
    <3>1. PICK j \in 1 .. n : q[j] = x
      BY <1>1, <1>2
    <3>2. j - 1 \in 1 .. n - 1 /\ (j - 1) + 1 = j
      BY <2>2, <3>1
    <3>3. tail[j - 1] = x
      BY <1>4, <3>1, <3>2
    <3> QED BY <3>2, <3>3
  <2> QED BY <2>1, <2>2
<1>6. \A i, j \in 1 .. n - 1 : tail[i] = tail[j] => i = j
  BY <1>1, <1>2, <1>4
<1>7. PICK front : front = Front(q)
  OBVIOUS
<1>8. /\ front \in Seq(Reqs) /\ Len(front) = n - 1
      /\ \A i \in 1 .. n - 1 : front[i] = q[i]
  BY <1>1, <1>2, <1>7 DEF Front
<1>9. X \ {q[n]} = {front[i] : i \in 1 .. n - 1}
  <2>1. \A i \in 1 .. n - 1 : front[i] \in X /\ front[i] # q[n]
    BY <1>1, <1>2, <1>8
  <2>2. ASSUME NEW x \in X, x # q[n]
        PROVE  \E i \in 1 .. n - 1 : front[i] = x
    <3>1. PICK j \in 1 .. n : q[j] = x
      BY <1>1, <1>2
    <3> QED BY <1>8, <2>2, <3>1
  <2> QED BY <2>1, <2>2
<1>10. \A i, j \in 1 .. n - 1 : front[i] = front[j] => i = j
  BY <1>1, <1>2, <1>8
<1>11. Last(q) = q[n] /\ q[n] \in X /\ q[1] \in X
  BY <1>1, <1>2 DEF Last
<1>12. Lists(tail, X \ {Head(q)})
  BY <1>4, <1>5, <1>6, ListIs
<1>13. Lists(front, X \ {Last(q)})
  BY <1>8, <1>9, <1>10, <1>11, ListIs
<1> QED BY <1>1, <1>2, <1>3, <1>4, <1>7, <1>8, <1>11, <1>12, <1>13

(* The part of a list that is in a set: its k-th member is the one with     *)
(* k - 1 chosen positions below its own.                                    *)
LEMMA WithinIs ==
  ASSUME NEW q, NEW X, Lists(q, X), NEW S
  PROVE  Lists(Within(q, S), X \cap S)
<1>1. /\ q \in Seq(Reqs) /\ X = {q[i] : i \in 1 .. Len(q)} /\ Len(q) \in Nat
      /\ \A i, j \in 1 .. Len(q) : q[i] = q[j] => i = j
  BY ListIs
<1>2. PICK at : at = {i \in DOMAIN q : q[i] \in S}
  OBVIOUS
<1>3. at \in SUBSET (1 .. Len(q)) /\ IsFiniteSet(at) /\ at \in SUBSET Int
  <2>1. IsFiniteSet(1 .. Len(q))
    BY <1>1, FS_Interval
  <2>2. DOMAIN q = 1 .. Len(q) /\ 1 .. Len(q) \in SUBSET Int
    BY <1>1
  <2> QED BY <1>2, <2>1, <2>2, FS_Subset
<1>4. PICK n \in Nat : n = Cardinality(at)
  BY <1>3, FS_CardinalityType
<1>5. Below(at) \in Bijection(at, 0 .. n - 1)
  BY <1>3, <1>4, BelowIsBijection
<1>6. /\ \A i \in at : Below(at)[i] = Cardinality({j \in at : j < i}) /\ Below(at)[i] \in 0 .. n - 1
      /\ \A i, j \in at : Below(at)[i] = Below(at)[j] => i = j
      /\ \A k \in 0 .. n - 1 : \E i \in at : Below(at)[i] = k
  BY <1>5 DEF Below, Bijection, Injection, Surjection, IsInjective
<1> DEFINE pick(k) == CHOOSE i \in at : Cardinality({j \in at : j < i}) = k - 1
<1>7. \A k \in 1 .. n : pick(k) \in at /\ Below(at)[pick(k)] = k - 1
  <2> TAKE k \in 1 .. n
  <2>1. k - 1 \in 0 .. n - 1
    OBVIOUS
  <2>2. \E i \in at : Cardinality({j \in at : j < i}) = k - 1
    BY <1>6, <2>1
  <2>3. pick(k) \in at /\ Cardinality({j \in at : j < pick(k)}) = k - 1
    BY <2>2
  <2> QED BY <1>6, <2>3
<1>8. PICK w : w = Within(q, S)
  OBVIOUS
<1>9. w = [k \in 1 .. n |-> q[pick(k)]]
  BY <1>2, <1>4, <1>8 DEF Within
<1> HIDE DEF pick
<1>10. \A i \in at : q[i] \in X \cap S /\ q[i] \in Reqs
  BY <1>1, <1>2, <1>3
<1>11. w \in Seq(Reqs) /\ DOMAIN w = 1 .. n
  BY <1>7, <1>9, <1>10
<1>12. \A k \in 1 .. n : w[k] \in X \cap S
  BY <1>7, <1>9, <1>10
<1>13. \A x \in X \cap S : \E k \in 1 .. n : w[k] = x
  <2> TAKE x \in X \cap S
  <2>1. PICK i \in 1 .. Len(q) : q[i] = x
    BY <1>1
  <2>2. i \in at
    BY <1>1, <1>2, <2>1
  <2>3. PICK b \in 0 .. n - 1 : b = Below(at)[i]
    BY <1>6, <2>2
  <2>4. b + 1 \in 1 .. n /\ (b + 1) - 1 = b
    OBVIOUS
  <2>5. pick(b + 1) = i
    <3>1. pick(b + 1) \in at /\ Below(at)[pick(b + 1)] = b
      BY <1>7, <2>4
    <3> QED BY <1>6, <2>2, <2>3, <3>1
  <2>6. w[b + 1] = x
    BY <1>9, <2>1, <2>4, <2>5
  <2> QED BY <2>4, <2>6
<1>14. \A k, l \in 1 .. n : w[k] = w[l] => k = l
  <2> SUFFICES ASSUME NEW k \in 1 .. n, NEW l \in 1 .. n, w[k] = w[l]
               PROVE  k = l
    OBVIOUS
  <2>1. pick(k) = pick(l)
    BY <1>1, <1>3, <1>7, <1>9
  <2>2. k - 1 = l - 1
    BY <1>7, <2>1
  <2> QED BY <2>2
<1>15. ToSet(w) = X \cap S
  BY <1>11, <1>12, <1>13 DEF ToSet
<1>16. Lists(w, X \cap S)
  BY <1>11, <1>14, <1>15 DEF Lists, IsInjective
<1> QED BY <1>8, <1>16

LEMMA WithoutIs ==
  ASSUME NEW q, NEW X, Lists(q, X), NEW S
  PROVE  Lists(Without(q, S), X \ S)
<1>1. ToSet(q) = X
  BY DEF Lists
<1>2. X \cap (X \ S) = X \ S
  OBVIOUS
<1> QED BY <1>1, <1>2, WithinIs DEF Without

(* How often a request is in a list. *)
LEMMA CountIs ==
  ASSUME NEW q, NEW X, Lists(q, X), NEW r
  PROVE  Count(q, r) = IF r \in X THEN 1 ELSE 0
<1>1. /\ X = {q[i] : i \in DOMAIN q}
      /\ \A i, j \in DOMAIN q : q[i] = q[j] => i = j
  BY DEF Lists, ToSet, IsInjective
<1> DEFINE at == {i \in DOMAIN q : q[i] = r}
<1>2. CASE r \in X
  <2>1. PICK i \in DOMAIN q : q[i] = r
    BY <1>1, <1>2
  <2>2. at = {i}
    BY <1>1, <2>1
  <2> QED BY <1>2, <2>2, FS_Singleton DEF Count
<1>3. CASE r \notin X
  <2>1. at = {}
    BY <1>1, <1>3
  <2> QED BY <1>3, <2>1, FS_EmptySet DEF Count
<1> QED BY <1>2, <1>3
-----------------------------------------------------------------------------
(* What makes OneQueue inductive. *)

Fields == DOMAIN NewRequest(CHOOSE r \in Reqs : TRUE)

(* A session that waits for its input has taken what it was sent. *)
RequestInv ==
  /\ DOMAIN req = Reqs
  /\ \A r \in Reqs :
       /\ DOMAIN req[r] = Fields /\ req[r].status \in Statuses
       /\ req[r].status = "stream" => r \in conf.sessions /\ req[r].updates = <<>>

(* Where the requests are: running, waiting, skipped, or set aside by the   *)
(* pass over the waiting ones.                                              *)
Places(rq, R, W, S, P) ==
  /\ R = {r \in Reqs : rq[r].status = "running"}
  /\ W \cup S \cup P = {r \in Reqs : rq[r].status \notin Over \cup {"running"}}
  /\ W \cap S = {} /\ W \cap P = {} /\ S \cap P = {}
  /\ \A r \in W : rq[r].status \notin Blocked

ListInv ==
  \E R, W, S, P :
    /\ Lists(running, R) /\ Lists(waiting, W) /\ Lists(skipped, S) /\ Lists(pass.step, P)
    /\ Places(req, R, W, S, P)

Streams(rq) == {r \in Reqs : rq[r].status = "stream"}

CountInv == numStreaming = Cardinality(Streams(req))

(* The items of a step: each request once, none that is not running, and    *)
(* while the running ones are scheduled none that is still to come.         *)
PassInv ==
  /\ DOMAIN pass = DOMAIN NoPass
  /\ pass.pc \in {"idle", "running", "waiting", "emit"}
  /\ pass.pc \in {"idle", "running"} => pass.step = <<>>
  /\ pass.pc = "idle" => pass.items = <<>>
  /\ \E X : /\ pass.items \in Seq(X)
            /\ \A i, j \in DOMAIN pass.items : pass.items[i].id = pass.items[j].id => i = j
  /\ \A i \in DOMAIN pass.items : \E k \in DOMAIN running : running[k] = pass.items[i].id
  /\ pass.pc = "running" =>
       /\ pass.idx \in Nat \ {0}
       /\ \A i \in DOMAIN pass.items :
            \E k \in 1 .. pass.idx - 1 : k \in DOMAIN running /\ running[k] = pass.items[i].id

Past == {"finished", "gone"}

(* A request has a result only after it was scheduled, a store only after   *)
(* it finished; neither can be undone.                                      *)
FlightInv ==
  /\ \E X : flight \in Seq(X)
  /\ \A k \in DOMAIN flight :
       /\ \E X : flight[k].results \in Seq(X)
       /\ \A i \in DOMAIN flight[k].results :
            /\ flight[k].results[i].id \in Reqs
            /\ req[flight[k].results[i].id].status \notin {"none", "grammar"}
       /\ \A i, j \in DOMAIN flight[k].results :
            flight[k].results[i].id = flight[k].results[j].id => i = j
       /\ \A r \in flight[k].sent : r \in Reqs /\ req[r].status \in Past
       /\ \A x \in flight[k].recv : x.id \in Reqs
  /\ DOMAIN stores = Reqs
  /\ \A r \in Reqs : stores[r] # "none" => req[r].status \in Past

(* What is recorded as a failed compilation is one, and stays one. *)
GrammarInv ==
  \A r \in grammarErrors :
    r \in Reqs /\ \/ req[r].status \in Past
                  \/ req[r].status = "grammar" /\ req[r].grammar = "failed"

QueueInv == RequestInv /\ ListInv /\ CountInv /\ PassInv /\ FlightInv /\ GrammarInv

LEMMA QueueInvIsOneQueue ==
  ASSUME QueueInv
  PROVE  OneQueue
<1>1. PICK R, W, S, P :
        /\ Lists(running, R) /\ Lists(waiting, W) /\ Lists(skipped, S) /\ Lists(pass.step, P)
        /\ Places(req, R, W, S, P)
  BY DEF QueueInv, ListInv
<1>2. \A r \in R : r \notin W \cup S \cup P
  BY <1>1 DEF Places
<1>3. Lists(running \o waiting \o skipped \o pass.step, R \cup W \cup S \cup P)
  <2>1. Lists(running \o waiting, R \cup W)
    <3>1. R \cap W = {}
      BY <1>2
    <3> QED BY <1>1, <3>1, ListConcat
  <2>2. Lists(running \o waiting \o skipped, R \cup W \cup S)
    <3>1. (R \cup W) \cap S = {}
      BY <1>1, <1>2 DEF Places
    <3> QED BY <1>1, <2>1, <3>1, ListConcat
  <2>3. (R \cup W \cup S) \cap P = {}
    BY <1>1, <1>2 DEF Places
  <2> QED BY <1>1, <2>2, <2>3, ListConcat
<1>4. \A r \in Reqs : r \in R \cup W \cup S \cup P <=> req[r].status \notin Over
  BY <1>1 DEF Places, Over
<1>5. \A r \in Reqs : /\ Count(running \o waiting \o skipped \o pass.step, r)
                            = IF req[r].status \in Over THEN 0 ELSE 1
                      /\ Count(running, r) = IF r \in R THEN 1 ELSE 0
                      /\ Count(waiting, r) = IF r \in W THEN 1 ELSE 0
  BY <1>1, <1>3, <1>4, CountIs
<1>6. \A r \in Reqs : /\ Count(running, r) = 1 <=> req[r].status = "running"
                      /\ req[r].status \in Blocked => Count(waiting, r) = 0
  BY <1>1, <1>5 DEF Places
<1> QED BY <1>5, <1>6 DEF OneQueue, QueueInv, CountInv, Streams
-----------------------------------------------------------------------------
(* Steps that leave the requests where they are. *)

LEMMA FieldsAre ==
  /\ Fields = {"status", "prompt", "tokens", "computed", "inFlight", "stale", "drop",
               "placeholders", "specs", "chunk", "preempted", "lastSeq", "blocks",
               "grammar", "updates"}
  /\ DOMAIN NoPass = {"pc", "idx", "budget", "items", "step", "loads", "preempted", "prefill"}
BY DEF Fields, NewRequest, NoPass

LEMMA InitQueues == EngineInit => QueueInv
<1> SUFFICES ASSUME EngineInit PROVE QueueInv
  OBVIOUS
<1>1. /\ req = [r \in Reqs |-> NewRequest(r)] /\ pass = NoPass
      /\ running = <<>> /\ waiting = <<>> /\ skipped = <<>>
      /\ numStreaming = 0 /\ grammarErrors = {} /\ flight = <<>>
      /\ stores = [r \in Reqs |-> "none"]
  BY DEF EngineInit, Init
<1>2. \A r \in Reqs : req[r].status = "none" /\ DOMAIN req[r] = Fields
  BY <1>1 DEF NewRequest, Fields
<1>3. RequestInv
  BY <1>1, <1>2 DEF RequestInv, Statuses
<1>4. ListInv
  <2>1. pass.step = <<>>
    BY <1>1 DEF NoPass
  <2>2. Places(req, {}, {}, {}, {})
    BY <1>2 DEF Places, Over
  <2> QED BY <1>1, <2>1, <2>2, ListOfNone DEF ListInv
<1>5. CountInv
  <2>1. Streams(req) = {}
    BY <1>2 DEF Streams
  <2> QED BY <1>1, <2>1, FS_EmptySet DEF CountInv
<1>6. PassInv
  <2>1. pass.items = <<>> /\ pass.items \in Seq({}) /\ DOMAIN pass.items = {}
        /\ pass.pc = "idle" /\ pass.step = <<>> /\ DOMAIN pass = DOMAIN NoPass
    BY <1>1 DEF NoPass
  <2> QED BY <2>1 DEF PassInv
<1>7. FlightInv
  <2>1. flight \in Seq({}) /\ DOMAIN flight = {}
    BY <1>1
  <2> QED BY <1>1, <2>1 DEF FlightInv
<1>8. GrammarInv
  BY <1>1 DEF GrammarInv
<1> QED BY <1>3, <1>4, <1>5, <1>6, <1>7, <1>8 DEF QueueInv

(* p is q but for what the queues do not depend on. *)
Same(p, q) == DOMAIN p = DOMAIN q /\ p.status = q.status /\ p.updates = q.updates
              /\ p.grammar = q.grammar

(* What is over stays over, and what was scheduled does not go back. *)
Onward ==
  \A r \in Reqs :
    /\ req[r].status \in Past => req'[r].status \in Past
    /\ req[r].status \notin {"none", "grammar"} => req'[r].status \notin {"none", "grammar"}

(* What the slots of the runner depend on.  A request is released by the    *)
(* next step; while it runs or is a session between two inputs it needs its *)
(* slot, and a session that goes on keeps it.                               *)
Released == finishedIds \cup preemptedIds

Active(rq) == {r \in Reqs : rq[r].status \in {"running", "stream"}}

Move(r) ==
  LET old == req[r].status
      new == req'[r].status
  IN  \/ new = old
      \/ r \in Released' /\ new \notin {"running", "stream"}
      \/ /\ old \notin {"running", "stream"} /\ new \notin {"running", "stream"}
         /\ ~(old = "waiting" /\ r \in conf.sessions)
      \/ old \in {"running", "stream"} /\ new \in {"stream", "waiting"} /\ r \in conf.sessions

(* A step that starts no request and changes no slot. *)
Moved ==
  /\ conf' = conf /\ slots' = slots
  /\ \A r \in Reqs :
       /\ r \in Released => r \in Released'
       /\ r \in Released' => r \in Released \/ req'[r].status # "running"
       /\ Move(r)
  /\ \A i \in DOMAIN pass.items : \E j \in DOMAIN pass'.items : pass'.items[j] = pass.items[i]

(* Sessions run with one batch in flight and without a connector. *)
Alone == conf.sessions # {} => conf.concurrent = 1 /\ ~conf.connector

(* With one batch in flight nothing happens between a step and its output   *)
(* that could preempt a request of it.                                      *)
SyncInv ==
  conf.concurrent = 1 =>
    \/ flight = <<>>
    \/ /\ pass.pc = "idle" /\ Len(flight) = 1
       /\ \A i \in DOMAIN flight[1].results :
            req[flight[1].results[i].id].status \in {"running"} \cup Past

Steady ==
  \A r \in Reqs : req[r].status \in {"running"} \cup Past => req'[r].status \in {"running"} \cup Past

LEMMA OnwardKeepsFlight ==
  ASSUME FlightInv, Onward, flight' = flight, stores' = stores
  PROVE  FlightInv'
<1>1. \A k \in DOMAIN flight :
        /\ \E X : flight[k].results \in Seq(X)
        /\ \A i \in DOMAIN flight[k].results :
             /\ flight[k].results[i].id \in Reqs
             /\ req'[flight[k].results[i].id].status \notin {"none", "grammar"}
        /\ \A i, j \in DOMAIN flight[k].results :
             flight[k].results[i].id = flight[k].results[j].id => i = j
        /\ \A r \in flight[k].sent : r \in Reqs /\ req'[r].status \in Past
        /\ \A x \in flight[k].recv : x.id \in Reqs
  BY DEF FlightInv, Onward
<1>2. \A r \in Reqs : stores[r] # "none" => req'[r].status \in Past
  BY DEF FlightInv, Onward
<1> QED BY <1>1, <1>2 DEF FlightInv

LEMMA SameKeepsRequests ==
  ASSUME QueueInv, DOMAIN req' = Reqs, \A r \in Reqs : Same(req'[r], req[r]),
         UNCHANGED <<conf, numStreaming, grammarErrors>>
  PROVE  RequestInv' /\ CountInv' /\ GrammarInv' /\ Onward
<1>1. RequestInv'
  BY DEF QueueInv, RequestInv, Same
<1>2. CountInv'
  <2>1. Streams(req') = Streams(req)
    BY DEF Streams, Same
  <2> QED BY <2>1 DEF QueueInv, CountInv, Streams
<1>3. Onward
  BY DEF Onward, Same
<1>4. GrammarInv'
  BY DEF QueueInv, GrammarInv, Same
<1> QED BY <1>1, <1>2, <1>3, <1>4

LEMMA SameKeeps ==
  ASSUME QueueInv, DOMAIN req' = Reqs, \A r \in Reqs : Same(req'[r], req[r]),
         UNCHANGED <<conf, queues, numStreaming, grammarErrors, flight, stores>>,
         pass'.step = pass.step
  PROVE  RequestInv' /\ ListInv' /\ CountInv' /\ FlightInv' /\ GrammarInv'
<1>1. RequestInv' /\ CountInv' /\ GrammarInv' /\ Onward
  BY SameKeepsRequests
<1>2. ListInv'
  <2>1. PICK R, W, S, P :
          /\ Lists(running, R) /\ Lists(waiting, W) /\ Lists(skipped, S) /\ Lists(pass.step, P)
          /\ Places(req, R, W, S, P)
    BY DEF QueueInv, ListInv
  <2>2. Places(req', R, W, S, P)
    BY <2>1 DEF Places, Same
  <2> QED BY <2>1, <2>2 DEF ListInv, queues
<1>3. FlightInv'
  BY <1>1, OnwardKeepsFlight DEF QueueInv
<1> QED BY <1>1, <1>2, <1>3

(* A look at a request that changes nothing but how far the pass is. *)
LEMMA LookKeeps ==
  ASSUME QueueInv, UNCHANGED <<runnerVars, left>>,
         \/ StartSchedule \/ PassOverRunning \/ RunningDone \/ StopAdmitting
         \/ \E n \in 1 .. MaxModelLen : RefuseLoad(n)
  PROVE  QueueInv' /\ Moved
<1>1. UNCHANGED <<conf, req, queues, ids, kv, pool, pause>>
  BY DEF StartSchedule, PassOverRunning, RunningDone, StopAdmitting, RefuseLoad
<1>2. PassInv
  BY DEF QueueInv
<1>3. /\ DOMAIN pass = {"pc", "idx", "budget", "items", "step", "loads", "preempted", "prefill"}
      /\ DOMAIN NoPass = DOMAIN pass
  BY <1>2 DEF PassInv, NoPass
<1>4. /\ PassInv' /\ pass'.step = pass.step
      /\ \A i \in DOMAIN pass.items : \E j \in DOMAIN pass'.items : pass'.items[j] = pass.items[i]
  <2>1. CASE StartSchedule
    <3>1. /\ pass'.pc = "running" /\ pass'.idx = 1 /\ pass'.items = <<>> /\ pass'.step = <<>>
          /\ DOMAIN pass' = DOMAIN NoPass /\ pass.step = <<>> /\ pass.items = <<>>
      BY <1>2, <2>1 DEF StartSchedule, NoPass, PassInv
    <3>2. pass'.items \in Seq({}) /\ DOMAIN pass'.items = {} /\ DOMAIN pass.items = {}
      BY <3>1
    <3> QED BY <3>1, <3>2 DEF PassInv
  <2>2. CASE PassOverRunning
    <3>1. /\ pass'.pc = "running" /\ pass.pc = "running" /\ pass'.idx = pass.idx + 1
          /\ pass'.items = pass.items /\ pass'.step = pass.step
          /\ DOMAIN pass' = DOMAIN pass /\ running' = running
      BY <1>1, <1>3, <2>2 DEF PassOverRunning, InRunningPass, queues
    <3>2. pass.idx \in Nat \ {0} /\ pass'.idx \in Nat \ {0}
          /\ \A k \in 1 .. pass.idx - 1 : k \in 1 .. pass'.idx - 1
      BY <1>2, <3>1 DEF PassInv
    <3> QED BY <1>2, <1>3, <3>1, <3>2 DEF PassInv
  <2>3. CASE RunningDone \/ StopAdmitting \/ \E n \in 1 .. MaxModelLen : RefuseLoad(n)
    <3>1. /\ pass'.pc \in {"waiting", "emit"}
          /\ pass'.items = pass.items /\ pass'.step = pass.step
          /\ DOMAIN pass' = DOMAIN pass /\ running' = running
      BY <1>1, <1>3, <2>3 DEF RunningDone, StopAdmitting, RefuseLoad, queues
    <3> QED BY <1>2, <1>3, <3>1 DEF PassInv
  <2> QED BY <2>1, <2>2, <2>3
<1>5. DOMAIN req' = Reqs /\ \A r \in Reqs : Same(req'[r], req[r])
  BY <1>1 DEF QueueInv, RequestInv, Same
<1>6. Moved
  BY <1>1, <1>4 DEF Moved, Move, Released, ids, runnerVars
<1> QED BY <1>1, <1>4, <1>5, <1>6, SameKeeps DEF QueueInv, queues, ids, runnerVars
-----------------------------------------------------------------------------
(* The pass over the running requests. *)

LEMMA ScheduleRunningKeeps ==
  ASSUME QueueInv, ScheduleRunning, UNCHANGED <<runnerVars, left>>
  PROVE  QueueInv' /\ Moved
<1>1. PICK r, n : /\ r = running[pass.idx] /\ n = RunningTokens(r)
  OBVIOUS
<1>2. /\ pass.pc = "running" /\ pass.idx \in Nat \ {0} /\ pass.idx <= Len(running)
      /\ UNCHANGED <<conf, queues, ids, kv, pause>>
  BY DEF ScheduleRunning, InRunningPass, QueueInv, PassInv
<1>3. PICK R : Lists(running, R) /\ R = {q \in Reqs : req[q].status = "running"}
  BY DEF QueueInv, ListInv, Places
<1>4. /\ Len(running) \in Nat /\ DOMAIN running = 1 .. Len(running)
      /\ \A i, j \in 1 .. Len(running) : running[i] = running[j] => i = j
      /\ pass.idx \in DOMAIN running /\ r \in Reqs
  BY <1>1, <1>2, <1>3, ListIs
<1>5. PICK item : /\ item = Scheduled(r, n, DraftsAmong(req[r], n), FALSE)
                  /\ item.id = r
  <2>1. Scheduled(r, n, DraftsAmong(req[r], n), FALSE).id = r
    BY DEF Scheduled
  <2> QED BY <2>1
<1>6. PICK more : req' = [req EXCEPT ![r].blocks = @ \o more, ![r].specs = 0]
  BY <1>1 DEF ScheduleRunning
<1>7. DOMAIN req' = Reqs /\ \A q \in Reqs : Same(req'[q], req[q])
  BY <1>4, <1>6, FieldsAre DEF QueueInv, RequestInv, Same
<1>8. DOMAIN pass = DOMAIN NoPass
  BY DEF QueueInv, PassInv
<1>9. /\ pass'.pc = "running" /\ pass'.idx = pass.idx + 1 /\ pass'.step = pass.step
      /\ pass'.items = Append(pass.items, item) /\ DOMAIN pass' = DOMAIN pass
  BY <1>1, <1>2, <1>5, <1>8, FieldsAre DEF ScheduleRunning
<1>10. /\ PassInv'
       /\ \A i \in DOMAIN pass.items : \E j \in DOMAIN pass'.items : pass'.items[j] = pass.items[i]
  <2>1. PICK X : pass.items \in Seq(X)
    BY DEF QueueInv, PassInv
  <2>2. PICK old : old = pass.items
    OBVIOUS
  <2>3. PICK new : new = Append(old, item)
    OBVIOUS
  <2>4. PICK m \in Nat : m = Len(old) /\ DOMAIN old = 1 .. m
    BY <2>1, <2>2
  <2>5. /\ new \in Seq(X \cup {item}) /\ DOMAIN new = (1 .. m) \cup {m + 1}
        /\ new[m + 1] = item /\ \A i \in 1 .. m : new[i] = old[i]
    BY <2>1, <2>2, <2>3, <2>4
  <2>6. \A i \in 1 .. m : \E k \in 1 .. pass.idx - 1 :
          k \in DOMAIN running /\ running[k] = old[i].id
    BY <1>2, <2>2, <2>4 DEF QueueInv, PassInv
  <2>7. \A i \in 1 .. m : old[i].id # r
    BY <1>1, <1>2, <1>4, <2>6
  <2>8. \A i, j \in 1 .. m : old[i].id = old[j].id => i = j
    BY <2>2, <2>4 DEF QueueInv, PassInv
  <2>9. \A i, j \in DOMAIN new : new[i].id = new[j].id => i = j
    BY <1>5, <2>5, <2>7, <2>8
  <2>10. ASSUME NEW i \in DOMAIN new
         PROVE  \E k \in 1 .. pass.idx : k \in DOMAIN running /\ running[k] = new[i].id
    <3>1. CASE i \in 1 .. m
      <4>1. PICK k \in 1 .. pass.idx - 1 : k \in DOMAIN running /\ running[k] = old[i].id
        BY <2>6, <3>1
      <4>2. k \in 1 .. pass.idx /\ new[i].id = old[i].id
        BY <1>2, <2>5, <3>1
      <4> QED BY <4>1, <4>2
    <3>2. CASE i = m + 1
      <4>1. new[i].id = r
        BY <1>5, <2>5, <3>2
      <4>2. pass.idx \in 1 .. pass.idx /\ pass.idx \in DOMAIN running
        BY <1>2, <1>4
      <4> QED BY <1>1, <4>1, <4>2
    <3> QED BY <2>5, <3>1, <3>2
  <2>11. pass'.items = new /\ running' = running /\ pass'.idx - 1 = pass.idx
         /\ pass'.idx \in Nat \ {0}
    BY <1>2, <1>9, <2>2, <2>3 DEF queues
  <2>12. \E Y : new \in Seq(Y)
    BY <2>5
  <2>13. PassInv'
    BY <1>2, <1>8, <1>9, <2>9, <2>10, <2>11, <2>12 DEF QueueInv, PassInv
  <2>14. \A i \in DOMAIN pass.items : \E j \in DOMAIN pass'.items : pass'.items[j] = pass.items[i]
    BY <2>2, <2>4, <2>5, <2>11
  <2> QED BY <2>13, <2>14
<1>11. Moved
  BY <1>2, <1>7, <1>10 DEF Moved, Move, Released, Same, ids, runnerVars
<1> QED BY <1>2, <1>7, <1>9, <1>10, <1>11, SameKeeps DEF QueueInv, ids, runnerVars

LEMMA PreemptedIs ==
  ASSUME NEW q, NEW d, DOMAIN q = Fields
  PROVE  /\ Preempted(q, d).status = "preempted" /\ DOMAIN Preempted(q, d) = Fields
         /\ Preempted(q, d).grammar = q.grammar
BY FieldsAre DEF Preempted

(* The last running request was not scheduled yet: no item names it. *)
LEMMA PreemptLastKeeps ==
  ASSUME QueueInv, PreemptLast, UNCHANGED <<runnerVars, left>>
  PROVE  QueueInv' /\ Moved
<1>1. PICK v : v = Last(running)
  OBVIOUS
<1>2. /\ pass.pc = "running" /\ pass.idx \in Nat \ {0} /\ pass.idx <= Len(running)
      /\ req' = [req EXCEPT ![v] = Preempted(@, conf.delivery)]
      /\ running' = Front(running) /\ waiting' = <<v>> \o waiting
      /\ UNCHANGED <<conf, skipped, numStreaming, grammarErrors, flight, stores>>
  BY <1>1 DEF PreemptLast, InRunningPass, QueueInv, PassInv, Prepend, runnerVars
<1>3. PICK R, W, S, P :
        /\ Lists(running, R) /\ Lists(waiting, W) /\ Lists(skipped, S) /\ Lists(pass.step, P)
        /\ Places(req, R, W, S, P)
  BY DEF QueueInv, ListInv
<1>4. Len(running) \in Nat /\ running # <<>>
  BY <1>2, <1>3 DEF Lists
<1>5. /\ v \in R /\ Lists(running', R \ {v}) /\ v \in Reqs /\ req[v].status = "running"
      /\ Len(running') = Len(running) - 1
      /\ \A i \in 1 .. Len(running) - 1 : running'[i] = running[i]
      /\ DOMAIN running' = 1 .. Len(running) - 1
  <2>1. /\ v \in R /\ Lists(running', R \ {v})
        /\ Len(running') = Len(running) - 1
        /\ \A i \in 1 .. Len(running) - 1 : running'[i] = running[i]
    BY <1>1, <1>2, <1>3, <1>4, ListPart
  <2>2. v \in Reqs /\ req[v].status = "running"
    BY <1>3, <2>1 DEF Places
  <2>3. running' \in Seq(Reqs)
    BY <2>1 DEF Lists
  <2> QED BY <2>1, <2>2, <2>3
<1>6. /\ DOMAIN req' = Reqs /\ req'[v].status = "preempted" /\ DOMAIN req'[v] = Fields
      /\ \A q \in Reqs : q # v => req'[q] = req[q]
  BY <1>2, <1>5, PreemptedIs DEF QueueInv, RequestInv
<1>7. RequestInv'
  BY <1>2, <1>6 DEF QueueInv, RequestInv, Statuses
<1>8. /\ DOMAIN pass' = DOMAIN NoPass /\ pass'.pc \in {"running", "emit"}
      /\ pass'.items = pass.items /\ pass'.step = pass.step /\ pass'.idx = pass.idx
  <2>1. DOMAIN pass = DOMAIN NoPass
    BY DEF QueueInv, PassInv
  <2>2. PICK x : pass' = [pass EXCEPT !.preempted = TRUE,
                                      !.pc = IF x THEN "emit" ELSE @]
    BY <1>1 DEF PreemptLast
  <2> QED BY <1>2, <2>1, <2>2, FieldsAre
<1>9. ListInv'
  <2>1. v \notin W
    BY <1>3, <1>5 DEF Places
  <2>2. Lists(waiting', {v} \cup W)
    BY <1>2, <1>3, <1>5, <2>1, ListSingle, ListConcat
  <2>3. Places(req', R \ {v}, {v} \cup W, S, P)
    BY <1>3, <1>5, <1>6 DEF Places, Over, Blocked
  <2> QED BY <1>2, <1>3, <1>5, <1>8, <2>2, <2>3 DEF ListInv
<1>10. CountInv'
  <2>1. Streams(req') = Streams(req)
    BY <1>5, <1>6 DEF Streams
  <2> QED BY <1>2, <2>1 DEF QueueInv, CountInv
<1>11. FlightInv'
  <2>1. Onward
    BY <1>5, <1>6 DEF Onward, Past
  <2> QED BY <1>2, <2>1, OnwardKeepsFlight DEF QueueInv
<1>12. GrammarInv'
  BY <1>2, <1>5, <1>6 DEF QueueInv, GrammarInv, Past
<1>13. PassInv'
  <2>1. \A i \in DOMAIN pass.items : \E k \in 1 .. pass.idx - 1 :
          k \in DOMAIN running /\ running[k] = pass.items[i].id
    BY <1>2 DEF QueueInv, PassInv
  <2>2. \A k \in 1 .. pass.idx - 1 : k \in DOMAIN running' /\ running'[k] = running[k]
    BY <1>2, <1>4, <1>5
  <2>3. \A i \in DOMAIN pass.items : \E k \in 1 .. pass.idx - 1 :
          k \in DOMAIN running' /\ running'[k] = pass.items[i].id
    BY <2>1, <2>2
  <2>4. pass.step = <<>>
    BY <1>2 DEF QueueInv, PassInv
  <2>5. /\ \E X : pass.items \in Seq(X)
        /\ \A i, j \in DOMAIN pass.items : pass.items[i].id = pass.items[j].id => i = j
    BY DEF QueueInv, PassInv
  <2>6. pass'.idx \in Nat \ {0} /\ pass'.pc \in {"idle", "running", "waiting", "emit"}
    BY <1>2, <1>8
  <2> QED BY <1>8, <2>3, <2>4, <2>5, <2>6 DEF PassInv
<1>14. Moved
  <2>1. Released' = Released \cup {v}
    BY <1>1 DEF PreemptLast, Released
  <2> QED BY <1>2, <1>6, <1>8, <2>1 DEF Moved, Move, runnerVars
<1> QED BY <1>14, <1>7, <1>9, <1>10, <1>11, <1>12, <1>13 DEF QueueInv
-----------------------------------------------------------------------------
(* The pass over the waiting requests. *)

LEMMA CandidateIs ==
  ASSUME NEW R, NEW W, NEW S, NEW P, InWaitingPass,
         Lists(waiting, W), Lists(skipped, S), Places(req, R, W, S, P)
  PROVE  /\ Candidate \in W \cup S /\ Candidate \in Reqs
         /\ req[Candidate].status \notin Over \cup {"running"}
         /\ req[Candidate].status \in Blocked => Candidate \notin W
         /\ Candidate \notin R \cup P
         /\ PopCandidate => /\ Lists(waiting', W \ {Candidate})
                            /\ Lists(skipped', S \ {Candidate})
<1>1. skipped \o waiting # <<>> /\ skipped \in Seq(Reqs) /\ waiting \in Seq(Reqs)
  BY DEF InWaitingPass, Lists
<1>2. PICK c : c = Candidate
  OBVIOUS
<1>3. CASE skipped # <<>>
  <2>1. c = Head(skipped)
    BY <1>1, <1>2, <1>3 DEF Candidate
  <2>2. c \in S /\ Lists(Tail(skipped), S \ {c})
    BY <1>3, <2>1, ListPart
  <2>3. c \notin W /\ W \ {c} = W
    BY <2>2 DEF Places
  <2>4. PopCandidate => skipped' = Tail(skipped) /\ waiting' = waiting
    BY <1>3 DEF PopCandidate
  <2> QED BY <1>2, <2>2, <2>3, <2>4 DEF Places
<1>4. CASE skipped = <<>>
  <2>1. skipped \o waiting = waiting
    BY <1>1, <1>4
  <2>2. c = Head(waiting) /\ waiting # <<>>
    BY <1>1, <1>2, <2>1 DEF Candidate
  <2>3. c \in W /\ Lists(Tail(waiting), W \ {c})
    BY <2>2, ListPart
  <2>4. c \notin S /\ S \ {c} = S
    BY <2>3 DEF Places
  <2>5. PopCandidate => waiting' = Tail(waiting) /\ skipped' = skipped
    BY <1>4 DEF PopCandidate
  <2> QED BY <1>2, <2>3, <2>4, <2>5 DEF Places
<1> QED BY <1>3, <1>4

LEMMA SkipWaitingKeeps ==
  ASSUME QueueInv, SkipWaiting, UNCHANGED <<runnerVars, left>>
  PROVE  QueueInv' /\ Moved
<1>1. PICK c : c = Candidate
  OBVIOUS
<1>2. /\ pass.pc = "waiting" /\ InWaitingPass /\ PopCandidate
      /\ pass' = [pass EXCEPT !.step = Append(@, c)]
      /\ UNCHANGED <<conf, req, running, numStreaming, flight, stores>>
      /\ grammarErrors' =
           IF req[c].status = "grammar" /\ req[c].grammar = "failed"
             THEN grammarErrors \cup {c} ELSE grammarErrors
  BY <1>1 DEF SkipWaiting, InWaitingPass, runnerVars
<1>3. PICK R, W, S, P :
        /\ Lists(running, R) /\ Lists(waiting, W) /\ Lists(skipped, S) /\ Lists(pass.step, P)
        /\ Places(req, R, W, S, P)
  BY DEF QueueInv, ListInv
<1>4. /\ c \in W \cup S /\ c \in Reqs /\ c \notin R \cup P
      /\ Lists(waiting', W \ {c}) /\ Lists(skipped', S \ {c})
  BY <1>1, <1>2, <1>3, CandidateIs
<1>5. /\ DOMAIN pass' = DOMAIN NoPass /\ pass'.pc = "waiting"
      /\ pass'.items = pass.items /\ pass'.step = Append(pass.step, c)
  BY <1>2, FieldsAre DEF QueueInv, PassInv
<1>6. ListInv'
  <2>1. Lists(pass'.step, P \cup {c})
    BY <1>3, <1>4, <1>5, ListAppend
  <2>2. Places(req, R, W \ {c}, S \ {c}, P \cup {c})
    BY <1>3, <1>4 DEF Places
  <2> QED BY <1>2, <1>3, <1>4, <2>1, <2>2 DEF ListInv
<1>7. RequestInv' /\ CountInv' /\ FlightInv'
  BY <1>2 DEF QueueInv, RequestInv, CountInv, FlightInv
<1>8. GrammarInv'
  BY <1>2, <1>4 DEF QueueInv, GrammarInv
<1>9. PassInv'
  BY <1>2, <1>5 DEF QueueInv, PassInv
<1>10. Moved
  <2>1. Released' = Released
    BY DEF SkipWaiting, Released
  <2> QED BY <1>2, <1>5, <2>1 DEF Moved, Move, runnerVars
<1> QED BY <1>10, <1>6, <1>7, <1>8, <1>9 DEF QueueInv

LEMMA PromoteKeeps ==
  ASSUME QueueInv, Promote, UNCHANGED <<runnerVars, left>>
  PROVE  QueueInv' /\ Moved
<1>1. PICK c : c = Candidate
  OBVIOUS
<1>2. /\ InWaitingPass /\ Promotable(c)
      /\ UNCHANGED <<conf, queues, numStreaming, grammarErrors, flight, stores, pass>>
  BY <1>1 DEF Promote, runnerVars, ids
<1>3. PICK status : status = IF req[c].status = "remote" /\ req[c].preempted
                            THEN "preempted" ELSE "waiting"
  OBVIOUS
<1>4. status \in {"preempted", "waiting"}
  BY <1>3
<1>5. PICK computed, blocks :
         req' = [req EXCEPT ![c].status = status, ![c].computed = computed,
                            ![c].blocks = blocks]
  BY <1>1, <1>3 DEF Promote
<1>6. PICK R, W, S, P :
        /\ Lists(running, R) /\ Lists(waiting, W) /\ Lists(skipped, S) /\ Lists(pass.step, P)
        /\ Places(req, R, W, S, P)
  BY DEF QueueInv, ListInv
<1>7. c \in W \cup S /\ c \in Reqs /\ c \notin R \cup P
  BY <1>1, <1>2, <1>6, CandidateIs
<1>8. req[c].status \in {"remote", "grammar"}
      /\ (req[c].status = "grammar" => req[c].grammar = "ready")
  BY <1>2 DEF Promotable
<1>9. /\ DOMAIN req' = Reqs /\ req'[c].status = status /\ DOMAIN req'[c] = Fields
      /\ \A q \in Reqs : q # c => req'[q] = req[q]
  BY <1>5, <1>7, FieldsAre DEF QueueInv, RequestInv
<1>10. RequestInv'
  BY <1>2, <1>4, <1>9 DEF QueueInv, RequestInv, Statuses
<1>11. ListInv'
  <2>1. Places(req', R, W, S, P)
    BY <1>4, <1>6, <1>7, <1>8, <1>9 DEF Places, Over, Blocked
  <2> QED BY <1>2, <1>6, <2>1 DEF ListInv, queues
<1>12. CountInv'
  <2>1. Streams(req') = Streams(req)
    BY <1>4, <1>8, <1>9 DEF Streams
  <2> QED BY <1>2, <2>1 DEF QueueInv, CountInv
<1>13. FlightInv'
  <2>1. Onward
    BY <1>4, <1>8, <1>9 DEF Onward, Past
  <2> QED BY <1>2, <2>1, OnwardKeepsFlight DEF QueueInv
<1>14. GrammarInv'
  BY <1>2, <1>8, <1>9 DEF QueueInv, GrammarInv, Past
<1>15. PassInv'
  BY <1>2 DEF QueueInv, PassInv, queues
<1>16. Moved
  <2>1. Released' = Released
    BY DEF Promote, Released, ids
  <2> QED BY <1>2, <1>8, <1>9, <1>4, <2>1 DEF Moved, Move, runnerVars
<1> QED BY <1>16, <1>10, <1>11, <1>12, <1>13, <1>14, <1>15 DEF QueueInv

LEMMA StartLoadKeeps ==
  ASSUME QueueInv, NEW n, StartLoad(n), UNCHANGED <<runnerVars, left>>
  PROVE  QueueInv' /\ (Alone => Moved)
<1>1. PICK c : c = Candidate
  OBVIOUS
<1>2. /\ pass.pc = "waiting" /\ InWaitingPass /\ PopCandidate
      /\ req[c].status \notin Blocked
      /\ pass' = [pass EXCEPT !.step = Append(@, c), !.loads = @ \cup {c}]
      /\ UNCHANGED <<conf, running, numStreaming, grammarErrors, flight, stores>>
  BY <1>1 DEF StartLoad, MayLoad, Admissible, InWaitingPass, runnerVars, ids
<1>3. PICK blocks : req' = [req EXCEPT ![c].status = "remote", ![c].computed = n,
                                       ![c].blocks = blocks]
  BY <1>1 DEF StartLoad
<1>4. PICK R, W, S, P :
        /\ Lists(running, R) /\ Lists(waiting, W) /\ Lists(skipped, S) /\ Lists(pass.step, P)
        /\ Places(req, R, W, S, P)
  BY DEF QueueInv, ListInv
<1>5. /\ c \in W \cup S /\ c \in Reqs /\ c \notin R \cup P
      /\ req[c].status \notin Over \cup {"running"}
      /\ Lists(waiting', W \ {c}) /\ Lists(skipped', S \ {c})
  BY <1>1, <1>2, <1>4, CandidateIs
<1>6. /\ DOMAIN pass' = DOMAIN NoPass /\ pass'.pc = "waiting"
      /\ pass'.items = pass.items /\ pass'.step = Append(pass.step, c)
  BY <1>2, FieldsAre DEF QueueInv, PassInv
<1>7. /\ DOMAIN req' = Reqs /\ req'[c].status = "remote" /\ DOMAIN req'[c] = Fields
      /\ \A q \in Reqs : q # c => req'[q] = req[q]
  BY <1>3, <1>5, FieldsAre DEF QueueInv, RequestInv
<1>8. RequestInv'
  BY <1>2, <1>7 DEF QueueInv, RequestInv, Statuses
<1>9. ListInv'
  <2>1. Lists(pass'.step, P \cup {c})
    BY <1>4, <1>5, <1>6, ListAppend
  <2>2. Places(req', R, W \ {c}, S \ {c}, P \cup {c})
    BY <1>4, <1>5, <1>7 DEF Places, Over, Blocked
  <2> QED BY <1>2, <1>4, <1>5, <2>1, <2>2 DEF ListInv
<1>10. CountInv'
  <2>1. Streams(req') = Streams(req)
    BY <1>2, <1>7 DEF Streams, Blocked
  <2> QED BY <1>2, <2>1 DEF QueueInv, CountInv
<1>11. FlightInv'
  <2>1. Onward
    BY <1>5, <1>7 DEF Onward, Past, Over
  <2> QED BY <1>2, <2>1, OnwardKeepsFlight DEF QueueInv
<1>12. GrammarInv'
  BY <1>2, <1>5, <1>7 DEF QueueInv, GrammarInv, Past, Over, Blocked
<1>13. PassInv'
  BY <1>2, <1>6 DEF QueueInv, PassInv
<1>14. ASSUME Alone
       PROVE  Moved
  <2>1. Released' = Released
    BY DEF StartLoad, Released, ids
  <2>2. c \notin conf.sessions
    BY <1>14 DEF StartLoad, MayLoad, Alone
  <2>3. req[c].status \notin {"running", "stream"}
    BY <1>2, <1>5 DEF Blocked
  <2> QED BY <1>2, <1>6, <1>7, <2>1, <2>2, <2>3 DEF Moved, Move, runnerVars
<1> QED BY <1>14, <1>8, <1>9, <1>10, <1>11, <1>12, <1>13 DEF QueueInv

LEMMA AdmitKeeps ==
  ASSUME QueueInv, Admit, UNCHANGED <<runnerVars, left>>
  PROVE  QueueInv'
<1>1. PICK c, a, item :
        /\ c = Candidate /\ a = Admission(c) /\ item = Scheduled(c, a.n, a.specs, TRUE)
  OBVIOUS
<1>2. /\ pass.pc = "waiting" /\ InWaitingPass /\ PopCandidate
      /\ req[c].status \notin Blocked /\ running' = Append(running, c)
      /\ pass' = [pass EXCEPT !.budget = @ - a.n, !.items = Append(@, item)]
      /\ UNCHANGED <<conf, numStreaming, grammarErrors, flight, stores>>
  BY <1>1 DEF Admit, Admissible, InWaitingPass, runnerVars, ids
<1>3. PICK blocks : req' = [req EXCEPT ![c].status = "running", ![c].blocks = blocks]
  BY <1>1 DEF Admit
<1>4. PICK R, W, S, P :
        /\ Lists(running, R) /\ Lists(waiting, W) /\ Lists(skipped, S) /\ Lists(pass.step, P)
        /\ Places(req, R, W, S, P)
  BY DEF QueueInv, ListInv
<1>5. /\ c \in W \cup S /\ c \in Reqs /\ c \notin R \cup P
      /\ req[c].status \notin Over \cup {"running"}
      /\ Lists(waiting', W \ {c}) /\ Lists(skipped', S \ {c})
  BY <1>1, <1>2, <1>4, CandidateIs
<1>6. /\ DOMAIN pass' = DOMAIN NoPass /\ pass'.pc = "waiting"
      /\ pass'.items = Append(pass.items, item) /\ pass'.step = pass.step
  BY <1>2, FieldsAre DEF QueueInv, PassInv
<1>7. /\ DOMAIN req' = Reqs /\ req'[c].status = "running" /\ DOMAIN req'[c] = Fields
      /\ \A q \in Reqs : q # c => req'[q] = req[q]
  BY <1>3, <1>5, FieldsAre DEF QueueInv, RequestInv
<1>8. RequestInv'
  BY <1>2, <1>7 DEF QueueInv, RequestInv, Statuses
<1>9. ListInv'
  <2>1. Lists(running', R \cup {c})
    BY <1>2, <1>4, <1>5, ListAppend
  <2>2. Places(req', R \cup {c}, W \ {c}, S \ {c}, P)
    BY <1>4, <1>5, <1>7 DEF Places, Over, Blocked
  <2> QED BY <1>2, <1>4, <1>5, <1>6, <2>1, <2>2 DEF ListInv
<1>10. CountInv'
  <2>1. Streams(req') = Streams(req)
    BY <1>2, <1>7 DEF Streams, Blocked
  <2> QED BY <1>2, <2>1 DEF QueueInv, CountInv
<1>11. FlightInv'
  <2>1. Onward
    BY <1>5, <1>7 DEF Onward, Past, Over
  <2> QED BY <1>2, <2>1, OnwardKeepsFlight DEF QueueInv
<1>12. GrammarInv'
  BY <1>2, <1>5, <1>7 DEF QueueInv, GrammarInv, Past, Over, Blocked
<1>13. PassInv'
  <2>1. PICK X : pass.items \in Seq(X)
    BY DEF QueueInv, PassInv
  <2>2. PICK old : old = pass.items
    OBVIOUS
  <2>3. PICK new : new = Append(old, item)
    OBVIOUS
  <2>4. PICK m \in Nat : m = Len(old) /\ DOMAIN old = 1 .. m
    BY <2>1, <2>2
  <2>5. /\ new \in Seq(X \cup {item}) /\ DOMAIN new = (1 .. m) \cup {m + 1}
        /\ new[m + 1] = item /\ \A i \in 1 .. m : new[i] = old[i]
    BY <2>1, <2>2, <2>3, <2>4
  <2>6. \A i \in 1 .. m : \E k \in DOMAIN running : running[k] = old[i].id
    BY <2>2, <2>4 DEF QueueInv, PassInv
  <2>7. item.id = c
    BY <1>1 DEF Scheduled
  <2>8. /\ running \in Seq(Reqs) /\ DOMAIN running = 1 .. Len(running)
        /\ Len(running) \in Nat /\ \A k \in DOMAIN running : running[k] \in R
    <3>1. running \in Seq(Reqs) /\ R = {running[i] : i \in DOMAIN running}
      BY <1>4 DEF Lists, ToSet
    <3> QED BY <3>1
  <2>9. PICK l \in Nat : l = Len(running) /\ DOMAIN running = 1 .. l
    BY <2>8
  <2>10. /\ DOMAIN running' = (1 .. l) \cup {l + 1} /\ running'[l + 1] = c
         /\ \A k \in 1 .. l : running'[k] = running[k]
    BY <1>2, <1>5, <2>8, <2>9
  <2>11. \A i \in 1 .. m : old[i].id # c
    BY <1>5, <2>6, <2>8
  <2>12. \A i, j \in 1 .. m : old[i].id = old[j].id => i = j
    BY <2>2, <2>4 DEF QueueInv, PassInv
  <2>13. \A i, j \in DOMAIN new : new[i].id = new[j].id => i = j
    BY <2>5, <2>7, <2>11, <2>12
  <2>14. \A i \in DOMAIN new : \E k \in DOMAIN running' : running'[k] = new[i].id
    BY <2>5, <2>6, <2>7, <2>9, <2>10
  <2>15. pass'.items = new
    BY <1>6, <2>2, <2>3
  <2>16. \E Y : new \in Seq(Y)
    BY <2>5
  <2> QED BY <1>6, <2>13, <2>14, <2>15, <2>16 DEF PassInv
<1> QED BY <1>8, <1>9, <1>10, <1>11, <1>12, <1>13 DEF QueueInv
-----------------------------------------------------------------------------
(* The step that goes out. *)

LEMMA AfterScheduleIs ==
  ASSUME NEW q, NEW item, NEW seq, DOMAIN q = Fields
  PROVE  Same(AfterSchedule(q, item, seq), q)
<1> DEFINE grown(c) == [q EXCEPT !.computed = @ + item.n, !.inFlight = @ + item.n,
                                 !.lastSeq = seq, !.chunk = c]
<1>1. \A c : Same(grown(c), q) /\ DOMAIN grown(c) = Fields
  BY FieldsAre DEF Same
<1>2. PICK c : AfterSchedule(q, item, seq) =
        IF c \/ ~Async THEN grown(c)
        ELSE [grown(c) EXCEPT !.placeholders = @ + 1 + item.specs, !.specs = NumSpec]
  BY DEF AfterSchedule
<1> HIDE DEF grown
<1>3. \A g : DOMAIN g = Fields =>
        Same([g EXCEPT !.placeholders = @ + 1 + item.specs, !.specs = NumSpec], g)
  BY FieldsAre DEF Same
<1> QED BY <1>1, <1>2, <1>3 DEF Same

LEMMA EmitKeeps ==
  ASSUME QueueInv, Emit
  PROVE  /\ QueueInv' /\ conf' = conf /\ pass' = NoPass
         /\ finishedIds' = {} /\ preemptedIds' = {}
         /\ \A r \in Reqs : req'[r].status = req[r].status
         /\ \E out : /\ flight' = Append(flight, out)
                     /\ \A i \in DOMAIN out.results :
                          /\ out.results[i].id \in Reqs
                          /\ req'[out.results[i].id].status = "running"
<1>1. /\ pass.pc = "emit" /\ pass' = NoPass /\ skipped' = pass.step \o skipped
      /\ UNCHANGED <<conf, waiting, running, numStreaming, grammarErrors>>
      /\ finishedIds' = {} /\ preemptedIds' = {}
  BY DEF Emit, FinishSchedule
<1>2. DOMAIN req' = Reqs /\ \A r \in Reqs : Same(req'[r], req[r])
  <2>1. PICK of, seq :
          req' = [r \in Reqs |-> IF r \in DOMAIN of
                                   THEN AfterSchedule(req[r], of[r], seq) ELSE req[r]]
    BY DEF Emit, FinishSchedule
  <2>2. \A r \in Reqs : DOMAIN req[r] = Fields
    BY DEF QueueInv, RequestInv
  <2>3. \A r \in Reqs : Same(AfterSchedule(req[r], of[r], seq), req[r]) /\ Same(req[r], req[r])
    BY <2>2, AfterScheduleIs DEF Same
  <2> QED BY <2>1, <2>3
<1>3. RequestInv' /\ CountInv' /\ GrammarInv' /\ Onward
  BY <1>1, <1>2, SameKeepsRequests
<1>4. ListInv'
  <2>1. PICK R, W, S, P :
          /\ Lists(running, R) /\ Lists(waiting, W) /\ Lists(skipped, S) /\ Lists(pass.step, P)
          /\ Places(req, R, W, S, P)
    BY DEF QueueInv, ListInv
  <2>2. Lists(skipped', P \cup S)
    BY <1>1, <2>1, ListConcat DEF Places
  <2>3. Places(req', R, W, P \cup S, {})
    BY <1>2, <2>1 DEF Places, Same
  <2>4. pass'.step = <<>>
    BY <1>1 DEF NoPass
  <2> QED BY <1>1, <2>1, <2>2, <2>3, <2>4, ListOfNone DEF ListInv
<1>5. PassInv'
  <2>1. pass'.items = <<>> /\ pass'.items \in Seq({}) /\ DOMAIN pass'.items = {}
        /\ pass'.pc = "idle" /\ pass'.step = <<>> /\ DOMAIN pass' = DOMAIN NoPass
    BY <1>1 DEF NoPass
  <2> QED BY <2>1 DEF PassInv
<1>6. /\ FlightInv'
      /\ \E out : /\ flight' = Append(flight, out)
                  /\ \A i \in DOMAIN out.results :
                       /\ out.results[i].id \in Reqs
                       /\ req'[out.results[i].id].status = "running"
  <2>1. PICK n \in Nat : n = Len(pass.items) /\ DOMAIN pass.items = 1 .. n
    BY DEF QueueInv, PassInv
  <2>2. /\ \A i \in 1 .. n : /\ pass.items[i].id \in Reqs
                             /\ req[pass.items[i].id].status = "running"
        /\ \A i, j \in 1 .. n : pass.items[i].id = pass.items[j].id => i = j
    <3>1. PICK R : Lists(running, R) /\ R = {q \in Reqs : req[q].status = "running"}
      BY DEF QueueInv, ListInv, Places
    <3>2. \A k \in DOMAIN running : running[k] \in R
      BY <3>1 DEF Lists, ToSet
    <3> QED BY <2>1, <3>1, <3>2 DEF QueueInv, PassInv
  <2>3. PICK res, sent, recv :
          /\ DOMAIN res = 1 .. n /\ res \in Seq(Range(res))
          /\ \A i \in 1 .. n : res[i].id = pass.items[i].id
          /\ sent = {r \in Reqs : stores[r] = "done"}
          /\ \A x \in recv : x.id \in Reqs
          /\ flight' = Append(flight, [results |-> res, sent |-> sent, recv |-> recv])
          /\ stores' = [r \in Reqs |-> IF r \in sent THEN "none" ELSE stores[r]]
    <3> DEFINE ready == SlotsAfter(Output)
               made(s) == [i \in 1 .. n |->
                             Result(pass.items[i], ready[pass.items[i].id], s[i])]
               over == {r \in Reqs : loads[r].st = "done"}
               done == {r \in Reqs : stores[r] = "done"}
    <3>1. Output.items = pass.items
      BY DEF Output
    <3>2. \E s : /\ flight' = Append(flight,
                      [results |-> made(s), sent |-> done,
                       recv |-> {[id |-> r, valid |-> loads[r].valid] : r \in over}])
                 /\ stores' = [r \in Reqs |-> IF r \in done THEN "none" ELSE stores[r]]
      <4>1. PICK choices :
              \E s \in choices :
                /\ flight' = Append(flight,
                      [results |-> [i \in 1 .. Len(Output.items) |->
                                      Result(Output.items[i],
                                             SlotsAfter(Output)[Output.items[i].id], s[i])],
                       sent |-> done,
                       recv |-> {[id |-> r, valid |-> loads[r].valid] : r \in over}])
                /\ stores' = [r \in Reqs |-> IF r \in done THEN "none" ELSE stores[r]]
        <5> DEFINE outcomes == [i \in 1 .. Len(Output.items) |->
                        Sampled(SlotsAfter(Output)[Output.items[i].id], Output.items[i])]
        <5>1. PICK choices : choices = FunctionsInto(outcomes)
          OBVIOUS
        <5>2. Execute
          BY DEF Emit
        <5> QED BY <5>1, <5>2, Zenon DEF Execute
      <4>2. PICK s \in choices :
              /\ flight' = Append(flight,
                      [results |-> [i \in 1 .. Len(Output.items) |->
                                      Result(Output.items[i],
                                             SlotsAfter(Output)[Output.items[i].id], s[i])],
                       sent |-> done,
                       recv |-> {[id |-> r, valid |-> loads[r].valid] : r \in over}])
              /\ stores' = [r \in Reqs |-> IF r \in done THEN "none" ELSE stores[r]]
        BY <4>1
      <4>3. [i \in 1 .. Len(Output.items) |->
                Result(Output.items[i], SlotsAfter(Output)[Output.items[i].id], s[i])]
              = made(s)
        BY <2>1, <3>1
      <4> QED BY <4>2, <4>3, Zenon
    <3> HIDE DEF ready
    <3>3. PICK s : /\ flight' = Append(flight,
                        [results |-> made(s), sent |-> done,
                         recv |-> {[id |-> r, valid |-> loads[r].valid] : r \in over}])
                   /\ stores' = [r \in Reqs |-> IF r \in done THEN "none" ELSE stores[r]]
      BY <3>2
    <3>4. PICK res : res = made(s)
      OBVIOUS
    <3>5. DOMAIN res = 1 .. n /\ \A i \in 1 .. n : res[i].id = pass.items[i].id
      BY <3>4 DEF Result
    <3>6. res \in Seq(Range(res))
      <4>1. res = [i \in 1 .. n |-> res[i]]
        BY <3>4
      <4>2. \A i \in 1 .. n : res[i] \in Range(res)
        BY <3>5 DEF Range
      <4>3. res \in [1 .. n -> Range(res)]
        BY <4>1, <4>2
      <4> QED BY <4>3
    <3>7. \A x \in {[id |-> r, valid |-> loads[r].valid] : r \in over} : x.id \in Reqs
      OBVIOUS
    <3> QED BY <3>4, <3>5, <3>6, <3>3, <3>7
  <2>4. PICK out : out = [results |-> res, sent |-> sent, recv |-> recv]
    OBVIOUS
  <2>5. out.results = res /\ out.sent = sent /\ out.recv = recv
    BY <2>4
  <2>6. PICK X : flight \in Seq(X)
    BY DEF QueueInv, FlightInv
  <2>7. PICK m \in Nat : m = Len(flight) /\ DOMAIN flight = 1 .. m
    BY <2>6
  <2>8. /\ flight' \in Seq(X \cup {out}) /\ DOMAIN flight' = (1 .. m) \cup {m + 1}
        /\ flight'[m + 1] = out /\ \A k \in 1 .. m : flight'[k] = flight[k]
    BY <2>3, <2>4, <2>6, <2>7
  <2>9. DOMAIN stores' = Reqs /\ \A r \in Reqs : stores'[r] # "none" => req'[r].status \in Past
    BY <1>2, <2>3 DEF QueueInv, FlightInv, Same
  <2>10. ASSUME NEW k \in 1 .. m
         PROVE  /\ \E Y : flight'[k].results \in Seq(Y)
                /\ \A i \in DOMAIN flight'[k].results :
                     /\ flight'[k].results[i].id \in Reqs
                     /\ req'[flight'[k].results[i].id].status \notin {"none", "grammar"}
                /\ \A i, j \in DOMAIN flight'[k].results :
                     flight'[k].results[i].id = flight'[k].results[j].id => i = j
                /\ \A r \in flight'[k].sent : r \in Reqs /\ req'[r].status \in Past
                /\ \A x \in flight'[k].recv : x.id \in Reqs
    BY <1>3, <2>7, <2>8 DEF QueueInv, FlightInv, Onward
  <2>11. \A i \in 1 .. n : res[i].id \in Reqs /\ req'[res[i].id].status = "running"
    BY <1>2, <2>2, <2>3 DEF Same
  <2>12. /\ \E Y : out.results \in Seq(Y)
         /\ \A i \in DOMAIN out.results :
              /\ out.results[i].id \in Reqs
              /\ req'[out.results[i].id].status \notin {"none", "grammar"}
         /\ \A i, j \in DOMAIN out.results : out.results[i].id = out.results[j].id => i = j
         /\ \A r \in out.sent : r \in Reqs /\ req'[r].status \in Past
         /\ \A x \in out.recv : x.id \in Reqs
    <3>1. \A i \in 1 .. n : res[i].id \in Reqs /\ req'[res[i].id].status \notin {"none", "grammar"}
      BY <2>11
    <3>2. \A r \in sent : r \in Reqs /\ stores[r] # "none"
      BY <2>3
    <3>3. \A r \in sent : r \in Reqs /\ req'[r].status \in Past
      BY <1>2, <3>2 DEF QueueInv, FlightInv, Same
    <3> QED BY <2>2, <2>3, <2>5, <3>1, <3>3
  <2>13. FlightInv'
    BY <2>8, <2>9, <2>10, <2>12 DEF FlightInv
  <2>14. flight' = Append(flight, out) /\ DOMAIN out.results = 1 .. n
    BY <2>3, <2>4, <2>5
  <2> QED BY <2>5, <2>11, <2>13, <2>14
<1>7. \A r \in Reqs : req'[r].status = req[r].status
  BY <1>2 DEF Same
<1> QED BY <1>1, <1>3, <1>4, <1>5, <1>6, <1>7 DEF QueueInv
(* The runner frees the slots of what is released and takes one for every   *)
(* request that is new in the step.                                         *)
LEMMA SlotsEmitted ==
  ASSUME Emit
  PROVE  DOMAIN slots' = (DOMAIN slots \ Released)
           \cup {pass.items[i].id : i \in {j \in DOMAIN pass.items : pass.items[j].new}}
<1>1. Execute
  BY DEF Emit
<1>2. PICK ready : ready = SlotsAfter(Output)
  OBVIOUS
<1>3. DOMAIN slots' = DOMAIN ready
  <2>1. PICK sets :
          \E s \in sets : \E of : slots' = [r \in DOMAIN ready |-> IF r \in DOMAIN of
                                          THEN PostUpdate(ready[r], of[r]) ELSE ready[r]]
    <3>1. PICK sets : sets = FunctionsInto([i \in 1 .. Len(Output.items) |->
            Sampled(SlotsAfter(Output)[Output.items[i].id], Output.items[i])])
      OBVIOUS
    <3> QED BY <1>1, <1>2, <3>1, Zenon DEF Execute
  <2> QED BY <2>1
<1>4. /\ Output.items = pass.items /\ Output.finished = finishedIds
      /\ Output.preempted = preemptedIds
  BY DEF Output
<1>5. DOMAIN ready = (DOMAIN slots \ (Output.finished \cup Output.preempted))
        \cup {Output.items[i].id : i \in {j \in DOMAIN Output.items : Output.items[j].new}}
  BY <1>2 DEF SlotsAfter
<1> QED BY <1>3, <1>4, <1>5 DEF Released
-----------------------------------------------------------------------------
(* Calls from outside, between two calls of schedule(). *)

LEMMA IdleKeepsPass ==
  ASSUME QueueInv, pass.pc = "idle", pass' = pass
  PROVE  PassInv' /\ pass'.step = <<>>
<1>1. PassInv /\ pass.items = <<>> /\ pass.step = <<>> /\ DOMAIN <<>> = {}
  BY DEF QueueInv, PassInv
<1> QED BY <1>1 DEF PassInv

LEMMA IdleLists ==
  ASSUME QueueInv, pass.pc = "idle"
  PROVE  \E R, W, S : /\ Lists(running, R) /\ Lists(waiting, W) /\ Lists(skipped, S)
                      /\ Places(req, R, W, S, {})
<1>1. PICK R, W, S, P :
        /\ Lists(running, R) /\ Lists(waiting, W) /\ Lists(skipped, S) /\ Lists(pass.step, P)
        /\ Places(req, R, W, S, P)
  BY DEF QueueInv, ListInv
<1>2. pass.step = <<>>
  BY DEF QueueInv, PassInv
<1>3. P = {}
  BY <1>1, <1>2, ListOfNone DEF Lists
<1> QED BY <1>1, <1>3

LEMMA ArriveKeeps ==
  ASSUME QueueInv, NEW r \in Reqs, Arrive(r)
  PROVE  QueueInv' /\ Moved /\ Steady
<1>1. /\ pass.pc = "idle" /\ pass' = pass /\ req[r].status = "none"
      /\ UNCHANGED <<conf, running, numStreaming, grammarErrors, flight, stores>>
  BY DEF Arrive, AddRequest, ids, runnerVars
<1>2. PICK status :
        /\ req' = [req EXCEPT ![r].status = status]
        /\ \/ status = "grammar" /\ skipped' = Append(skipped, r) /\ waiting' = waiting
           \/ status = "waiting" /\ waiting' = Append(waiting, r) /\ skipped' = skipped
  BY DEF Arrive, AddRequest
<1>3. /\ DOMAIN req' = Reqs /\ req'[r].status = status /\ DOMAIN req'[r] = Fields
      /\ \A q \in Reqs : q # r => req'[q] = req[q]
  BY <1>2, FieldsAre DEF QueueInv, RequestInv
<1>4. RequestInv'
  BY <1>1, <1>2, <1>3 DEF QueueInv, RequestInv, Statuses
<1>5. ListInv'
  <2>1. PICK R, W, S : /\ Lists(running, R) /\ Lists(waiting, W) /\ Lists(skipped, S)
                       /\ Places(req, R, W, S, {})
    BY <1>1, IdleLists
  <2>2. r \notin R \cup W \cup S
    BY <1>1, <2>1 DEF Places, Over
  <2>3. Lists(pass'.step, {})
    BY <1>1, IdleKeepsPass, ListOfNone
  <2>4. CASE status = "grammar"
    <3>1. r \in Reqs \ S /\ skipped' = Append(skipped, r) /\ waiting' = waiting
      BY <1>2, <2>2, <2>4
    <3>2. Lists(skipped', S \cup {r}) /\ Lists(waiting', W)
      BY <2>1, <3>1, ListAppend
    <3>3. Places(req', R, W, S \cup {r}, {})
      BY <1>3, <2>1, <2>2, <2>4 DEF Places, Over
    <3> QED BY <1>1, <2>1, <2>3, <3>2, <3>3 DEF ListInv
  <2>5. CASE status = "waiting"
    <3>1. r \in Reqs \ W /\ waiting' = Append(waiting, r) /\ skipped' = skipped
      BY <1>2, <2>2, <2>5
    <3>2. Lists(waiting', W \cup {r}) /\ Lists(skipped', S)
      BY <2>1, <3>1, ListAppend
    <3>3. Places(req', R, W \cup {r}, S, {})
      BY <1>3, <2>1, <2>2, <2>5 DEF Places, Over, Blocked
    <3> QED BY <1>1, <2>1, <2>3, <3>2, <3>3 DEF ListInv
  <2> QED BY <1>2, <2>4, <2>5
<1>6. CountInv'
  <2>1. Streams(req') = Streams(req)
    BY <1>1, <1>2, <1>3 DEF Streams
  <2> QED BY <1>1, <2>1 DEF QueueInv, CountInv
<1>7. FlightInv'
  <2>1. Onward
    BY <1>1, <1>3 DEF Onward, Past
  <2> QED BY <1>1, <2>1, OnwardKeepsFlight DEF QueueInv
<1>8. GrammarInv'
  BY <1>1, <1>3 DEF QueueInv, GrammarInv, Past
<1>9. Moved
  <2>1. Released' = Released
    BY DEF Arrive, AddRequest, Released, ids
  <2> QED BY <1>1, <1>2, <1>3, <2>1 DEF Moved, Move, Arrive, runnerVars
<1>10. Steady
  BY <1>1, <1>3 DEF Steady, Past
<1> QED BY <1>9, <1>10, <1>1, <1>4, <1>5, <1>6, <1>7, <1>8, IdleKeepsPass DEF QueueInv

(* What finish_requests leaves of a request. *)
LEMMA FinishedIs ==
  ASSUME NEW r \in Reqs, NEW gone,
         DOMAIN req = Reqs, \A q \in Reqs : DOMAIN req[q] = Fields,
         ToSet(gone) \in SUBSET {r},
         req' = Deleted([req EXCEPT ![r].status = "finished"], ToSet(gone))
  PROVE  /\ DOMAIN req' = Reqs /\ req'[r].status \in Past /\ DOMAIN req'[r] = Fields
         /\ \A q \in Reqs : q # r => req'[q] = req[q]
<1>1. PICK marked : marked = [req EXCEPT ![r].status = "finished"]
  OBVIOUS
<1>2. /\ DOMAIN marked = Reqs /\ marked[r].status = "finished" /\ DOMAIN marked[r] = Fields
      /\ \A q \in Reqs : q # r => marked[q] = req[q]
  BY <1>1, FieldsAre
<1>3. /\ DOMAIN req' = Reqs
      /\ \A q \in Reqs : req'[q] = IF q \in ToSet(gone)
                                     THEN [marked[q] EXCEPT !.status = "gone", !.blocks = <<>>]
                                     ELSE marked[q]
  BY <1>1 DEF Deleted
<1>4. CASE r \in ToSet(gone)
  <2>1. req'[r] = [marked[r] EXCEPT !.status = "gone", !.blocks = <<>>]
    BY <1>3, <1>4
  <2>2. req'[r].status = "gone" /\ DOMAIN req'[r] = Fields
    BY <1>2, <2>1, FieldsAre
  <2> QED BY <1>2, <1>3, <2>2 DEF Past
<1>5. CASE r \notin ToSet(gone)
  BY <1>2, <1>3, <1>5 DEF Past
<1> QED BY <1>4, <1>5

(* What finish_requests does, but to the stores. *)
LEMMA FinishKeeps ==
  ASSUME QueueInv, IsFiniteSet(Reqs), NEW r \in Reqs, NEW send, FinishRequests(r, send)
  PROVE  RequestInv' /\ ListInv' /\ CountInv' /\ PassInv' /\ GrammarInv' /\ Onward
         /\ req'[r].status \in Past /\ Steady
         /\ (slots' = slots => Moved)
<1>1. /\ pass.pc = "idle" /\ pass' = pass /\ req[r].status \notin Over
      /\ running' = Without(running, {r}) /\ waiting' = Without(waiting, {r})
      /\ skipped' = Without(skipped, {r})
      /\ numStreaming' = numStreaming - (IF req[r].status = "stream" THEN 1 ELSE 0)
      /\ UNCHANGED <<conf, grammarErrors>>
  BY DEF FinishRequests
<1>2. PICK gone : /\ ToSet(gone) \in SUBSET {r}
                  /\ req' = Deleted([req EXCEPT ![r].status = "finished"], ToSet(gone))
  <2>1. PICK gone : /\ gone = <<>> \/ gone = <<r>>
                    /\ req' = Deleted([req EXCEPT ![r].status = "finished"], ToSet(gone))
    BY DEF FinishRequests
  <2>2. ToSet(<<>>) = {} /\ ToSet(<<r>>) = {r}
    BY ListOfNone, ListSingle DEF Lists
  <2> QED BY <2>1, <2>2
<1>3. /\ DOMAIN req' = Reqs /\ req'[r].status \in Past /\ DOMAIN req'[r] = Fields
      /\ \A q \in Reqs : q # r => req'[q] = req[q]
  BY <1>2, FinishedIs DEF QueueInv, RequestInv
<1>4. RequestInv'
  BY <1>1, <1>3 DEF QueueInv, RequestInv, Statuses, Past
<1>5. ListInv'
  <2>1. PICK R, W, S : /\ Lists(running, R) /\ Lists(waiting, W) /\ Lists(skipped, S)
                       /\ Places(req, R, W, S, {})
    BY <1>1, IdleLists
  <2>2. /\ Lists(running', R \ {r}) /\ Lists(waiting', W \ {r}) /\ Lists(skipped', S \ {r})
        /\ Lists(pass'.step, {})
    BY <1>1, <2>1, WithoutIs, IdleKeepsPass, ListOfNone
  <2>3. Places(req', R \ {r}, W \ {r}, S \ {r}, {})
    BY <1>1, <1>3, <2>1 DEF Places, Over, Past
  <2> QED BY <2>2, <2>3 DEF ListInv
<1>6. CountInv'
  <2>1. Streams(req') = Streams(req) \ {r}
    BY <1>3 DEF Streams, Past
  <2>2. IsFiniteSet(Streams(req))
    BY FS_Subset DEF Streams
  <2>3. r \in Streams(req) <=> req[r].status = "stream"
    BY DEF Streams
  <2>4. CASE req[r].status = "stream"
    <3>1. Cardinality(Streams(req')) = Cardinality(Streams(req)) - 1
      BY <2>1, <2>2, <2>3, <2>4, FS_RemoveElement
    <3> QED BY <1>1, <2>4, <3>1 DEF QueueInv, CountInv
  <2>5. CASE req[r].status # "stream"
    <3>1. Streams(req') = Streams(req)
      BY <2>1, <2>3, <2>5
    <3>2. Cardinality(Streams(req)) \in Nat
      BY <2>2, FS_CardinalityType
    <3> QED BY <1>1, <2>5, <3>1, <3>2 DEF QueueInv, CountInv
  <2> QED BY <2>4, <2>5
<1>7. Onward
  BY <1>1, <1>3 DEF Onward, Past, Over
<1>8. GrammarInv'
  BY <1>1, <1>3 DEF QueueInv, GrammarInv
<1>9. Steady
  BY <1>3 DEF Steady
<1>10. ASSUME slots' = slots
       PROVE  Moved
  <2>1. Released' = Released \cup {r}
    BY DEF FinishRequests, Released
  <2> QED BY <1>1, <1>3, <1>10, <2>1 DEF Moved, Move, Past
<1> QED BY <1>9, <1>10, <1>1, <1>3, <1>4, <1>5, <1>6, <1>7, <1>8, IdleKeepsPass

LEMMA AbortKeeps ==
  ASSUME QueueInv, IsFiniteSet(Reqs), NEW r \in Reqs, NEW send \in BOOLEAN, Abort(r, send)
  PROVE  QueueInv' /\ Moved /\ Steady
<1>1. /\ RequestInv' /\ ListInv' /\ CountInv' /\ PassInv' /\ GrammarInv' /\ Onward
      /\ req'[r].status \in Past /\ Steady /\ Moved
  BY FinishKeeps DEF Abort
<1>2. flight' = flight
  BY DEF Abort
<1>3. DOMAIN stores' = Reqs /\ \A q \in Reqs : stores'[q] # "none" => req'[q].status \in Past
  <2>1. PICK A : A \in SUBSET {r} /\ stores' = Stores(A)
    BY DEF Abort
  <2>2. \A q \in Reqs : stores[q] # "none" => req'[q].status \in Past
    BY <1>1 DEF QueueInv, FlightInv, Onward
  <2> QED BY <1>1, <2>1, <2>2 DEF Stores
<1>4. FlightInv'
  <2>1. \A k \in DOMAIN flight :
          /\ \E X : flight[k].results \in Seq(X)
          /\ \A i \in DOMAIN flight[k].results :
               /\ flight[k].results[i].id \in Reqs
               /\ req'[flight[k].results[i].id].status \notin {"none", "grammar"}
          /\ \A i, j \in DOMAIN flight[k].results :
               flight[k].results[i].id = flight[k].results[j].id => i = j
          /\ \A q \in flight[k].sent : q \in Reqs /\ req'[q].status \in Past
          /\ \A x \in flight[k].recv : x.id \in Reqs
    BY <1>1 DEF QueueInv, FlightInv, Onward
  <2> QED BY <1>2, <1>3, <2>1 DEF QueueInv, FlightInv
<1> QED BY <1>1, <1>4 DEF QueueInv

LEMMA NextInputKeeps ==
  ASSUME QueueInv, IsFiniteSet(Reqs), NEW r \in Reqs, NextInput(r)
  PROVE  QueueInv' /\ Moved
<1>1. slots' = slots /\ flight' = flight /\ stores' = stores /\ pass' = pass /\ pass.pc = "idle"
  BY DEF NextInput, AddUpdate, EndSession, FinishRequests, runnerVars
<1>2. CASE \E send : FinishRequests(r, send)
  <2>1. RequestInv' /\ ListInv' /\ CountInv' /\ PassInv' /\ GrammarInv' /\ Onward /\ Moved
    BY <1>1, <1>2, FinishKeeps
  <2> QED BY <1>1, <2>1, OnwardKeepsFlight DEF QueueInv
<1>3. CASE /\ r \in conf.sessions /\ req[r].status # "stream"
           /\ \E more : req' = [req EXCEPT ![r].updates = more]
           /\ UNCHANGED <<conf, queues, numStreaming, grammarErrors, Released>>
  <2>1. PICK more : req' = [req EXCEPT ![r].updates = more]
    BY <1>3
  <2>2. /\ DOMAIN req' = Reqs /\ req'[r].status = req[r].status /\ DOMAIN req'[r] = Fields
        /\ req'[r].grammar = req[r].grammar /\ \A q \in Reqs : q # r => req'[q] = req[q]
    BY <2>1, FieldsAre DEF QueueInv, RequestInv
  <2>3. \A q \in Reqs : req'[q].status = req[q].status /\ req'[q].grammar = req[q].grammar
    BY <2>2
  <2>4. RequestInv'
    BY <1>3, <2>2, <2>3 DEF QueueInv, RequestInv
  <2>5. ListInv'
    <3>1. PICK R, W, S : /\ Lists(running, R) /\ Lists(waiting, W) /\ Lists(skipped, S)
                         /\ Places(req, R, W, S, {})
      BY <1>1, IdleLists
    <3>2. Places(req', R, W, S, {})
      BY <2>3, <3>1 DEF Places
    <3> QED BY <1>1, <1>3, <3>1, <3>2, IdleKeepsPass, ListOfNone DEF ListInv, queues
  <2>6. CountInv'
    <3>1. Streams(req') = Streams(req)
      BY <2>3 DEF Streams
    <3> QED BY <1>3, <3>1 DEF QueueInv, CountInv
  <2>7. FlightInv'
    <3>1. Onward
      BY <2>3 DEF Onward
    <3> QED BY <1>1, <3>1, OnwardKeepsFlight DEF QueueInv
  <2>8. GrammarInv'
    BY <1>3, <2>3 DEF QueueInv, GrammarInv
  <2>9. Moved
    BY <1>1, <1>3, <2>3 DEF Moved, Move
  <2> QED BY <1>1, <2>4, <2>5, <2>6, <2>7, <2>8, <2>9, IdleKeepsPass DEF QueueInv
<1>4. CASE /\ req[r].status = "stream" /\ req' = [req EXCEPT ![r] = AsSession(@)]
           /\ numStreaming' = numStreaming - 1
           /\ UNCHANGED <<conf, queues, grammarErrors, Released>>
  <2>1. /\ AsSession(req[r]).status = "waiting" /\ DOMAIN AsSession(req[r]) = Fields
    BY FieldsAre DEF AsSession, QueueInv, RequestInv
  <2>2. /\ DOMAIN req' = Reqs /\ req'[r].status = "waiting" /\ DOMAIN req'[r] = Fields
        /\ \A q \in Reqs : q # r => req'[q] = req[q]
    BY <1>4, <2>1 DEF QueueInv, RequestInv
  <2>3. RequestInv'
    BY <1>4, <2>2 DEF QueueInv, RequestInv, Statuses
  <2>4. ListInv'
    <3>1. PICK R, W, S : /\ Lists(running, R) /\ Lists(waiting, W) /\ Lists(skipped, S)
                         /\ Places(req, R, W, S, {})
      BY <1>1, IdleLists
    <3>2. Places(req', R, W, S, {})
      BY <1>4, <2>2, <3>1 DEF Places, Over, Blocked
    <3> QED BY <1>1, <1>4, <3>1, <3>2, IdleKeepsPass, ListOfNone DEF ListInv, queues
  <2>5. CountInv'
    <3>1. Streams(req') = Streams(req) \ {r} /\ r \in Streams(req)
      BY <1>4, <2>2 DEF Streams
    <3>2. IsFiniteSet(Streams(req))
      BY FS_Subset DEF Streams
    <3>3. Cardinality(Streams(req')) = Cardinality(Streams(req)) - 1
      BY <3>1, <3>2, FS_RemoveElement
    <3> QED BY <1>4, <3>3 DEF QueueInv, CountInv
  <2>6. FlightInv'
    <3>1. Onward
      BY <1>4, <2>2 DEF Onward, Past
    <3> QED BY <1>1, <3>1, OnwardKeepsFlight DEF QueueInv
  <2>7. GrammarInv'
    BY <1>4, <2>2 DEF QueueInv, GrammarInv, Past
  <2>8. Moved
    <3>1. r \in conf.sessions
      BY <1>4 DEF QueueInv, RequestInv
    <3> QED BY <1>1, <1>4, <2>2, <3>1 DEF Moved, Move
  <2> QED BY <1>1, <2>3, <2>4, <2>5, <2>6, <2>7, <2>8, IdleKeepsPass DEF QueueInv
<1>5. \/ AddUpdate(r) \/ EndSession(r)
  BY DEF NextInput
<1>6. CASE AddUpdate(r)
  <2>1. CASE req[r].status = "stream"
    BY <1>4, <1>6, <2>1 DEF AddUpdate, Released
  <2>2. CASE req[r].status # "stream"
    <3>1. \E more : req' = [req EXCEPT ![r].updates = more]
      BY <1>6, <2>2 DEF AddUpdate
    <3> QED BY <1>3, <1>6, <2>2, <3>1 DEF AddUpdate, Released
  <2> QED BY <2>1, <2>2
<1>7. CASE EndSession(r)
  <2>1. CASE req[r].status = "stream"
    BY <1>2, <1>7, <2>1 DEF EndSession
  <2>2. CASE req[r].status # "stream"
    <3>1. \E more : req' = [req EXCEPT ![r].updates = more]
      BY <1>7, <2>2 DEF EndSession
    <3> QED BY <1>3, <1>7, <2>2, <3>1 DEF EndSession, Released, ids
  <2> QED BY <2>1, <2>2
<1> QED BY <1>5, <1>6, <1>7

LEMMA ResetKeeps ==
  ASSUME QueueInv, Reset
  PROVE  QueueInv' /\ Moved
<1>1. /\ pass.pc = "idle" /\ pass' = pass /\ flight' = flight /\ stores' = stores
      /\ waiting' = running \o waiting /\ running' = <<>>
      /\ req' = [r \in Reqs |-> IF r \in ToSet(running) THEN Preempted(req[r], TRUE) ELSE req[r]]
      /\ UNCHANGED <<conf, skipped, numStreaming, grammarErrors>>
  BY DEF Reset, ResetPrefixCache, runnerVars
<1>2. PICK R, W, S : /\ Lists(running, R) /\ Lists(waiting, W) /\ Lists(skipped, S)
                     /\ Places(req, R, W, S, {})
  BY <1>1, IdleLists
<1>3. ToSet(running) = R /\ R = {r \in Reqs : req[r].status = "running"}
  BY <1>2 DEF Lists, Places
<1>4. \A r \in Reqs : /\ Preempted(req[r], TRUE).status = "preempted"
                      /\ DOMAIN Preempted(req[r], TRUE) = Fields
                      /\ Preempted(req[r], TRUE).grammar = req[r].grammar
  BY PreemptedIs DEF QueueInv, RequestInv
<1>5. /\ DOMAIN req' = Reqs
      /\ \A r \in Reqs :
           IF r \in R THEN /\ req'[r].status = "preempted" /\ DOMAIN req'[r] = Fields
                           /\ req[r].status = "running"
                      ELSE req'[r] = req[r] /\ req[r].status # "running"
  BY <1>1, <1>3, <1>4
<1>6. RequestInv'
  BY <1>1, <1>5 DEF QueueInv, RequestInv, Statuses
<1>7. ListInv'
  <2>1. Lists(waiting', R \cup W)
    <3>1. R \cap W = {}
      BY <1>2 DEF Places
    <3> QED BY <1>1, <1>2, <3>1, ListConcat
  <2>2. Places(req', {}, R \cup W, S, {})
    BY <1>2, <1>5 DEF Places, Over, Blocked
  <2> QED BY <1>1, <1>2, <2>1, <2>2, IdleKeepsPass, ListOfNone DEF ListInv
<1>8. CountInv'
  <2>1. Streams(req') = Streams(req)
    BY <1>5 DEF Streams
  <2> QED BY <1>1, <2>1 DEF QueueInv, CountInv
<1>9. FlightInv'
  <2>1. Onward
    BY <1>5 DEF Onward, Past
  <2> QED BY <1>1, <2>1, OnwardKeepsFlight DEF QueueInv
<1>10. GrammarInv'
  BY <1>1, <1>5 DEF QueueInv, GrammarInv, Past
<1>11. Moved
  <2>1. Released' = Released \cup R
    BY <1>3 DEF Reset, ResetPrefixCache, Released
  <2>2. slots' = slots
    BY DEF Reset, runnerVars
  <2> QED BY <1>1, <1>5, <2>1, <2>2 DEF Moved, Move
<1> QED BY <1>11, <1>1, <1>6, <1>7, <1>8, <1>9, <1>10, IdleKeepsPass DEF QueueInv

LEMMA CompileKeeps ==
  ASSUME QueueInv, NEW r \in Reqs, Compile(r)
  PROVE  QueueInv' /\ Moved /\ Steady
<1>1. PICK result : GrammarCompiled(r, result)
  BY DEF Compile
<1>2. /\ req[r].grammar = "none" /\ req[r].status = "grammar"
      /\ req' = [req EXCEPT ![r].grammar = result]
      /\ UNCHANGED <<conf, queues, numStreaming, grammarErrors, flight, stores, pass>>
  BY <1>1 DEF GrammarCompiled, Compile, ids, runnerVars
<1>3. /\ DOMAIN req' = Reqs /\ req'[r].status = req[r].status /\ DOMAIN req'[r] = Fields
      /\ req'[r].updates = req[r].updates /\ \A q \in Reqs : q # r => req'[q] = req[q]
  BY <1>2, FieldsAre DEF QueueInv, RequestInv
<1>4. \A q \in Reqs : req'[q].status = req[q].status
  BY <1>3
<1>5. RequestInv'
  BY <1>2, <1>3, <1>4 DEF QueueInv, RequestInv
<1>6. ListInv'
  <2>1. PICK R, W, S, P :
          /\ Lists(running, R) /\ Lists(waiting, W) /\ Lists(skipped, S) /\ Lists(pass.step, P)
          /\ Places(req, R, W, S, P)
    BY DEF QueueInv, ListInv
  <2>2. Places(req', R, W, S, P)
    BY <1>4, <2>1 DEF Places
  <2> QED BY <1>2, <2>1, <2>2 DEF ListInv, queues
<1>7. CountInv'
  <2>1. Streams(req') = Streams(req)
    BY <1>4 DEF Streams
  <2> QED BY <1>2, <2>1 DEF QueueInv, CountInv
<1>8. FlightInv'
  <2>1. Onward
    BY <1>4 DEF Onward
  <2> QED BY <1>2, <2>1, OnwardKeepsFlight DEF QueueInv
<1>9. GrammarInv'
  <2>1. r \notin grammarErrors
    BY <1>2 DEF QueueInv, GrammarInv, Past
  <2> QED BY <1>2, <1>3, <2>1 DEF QueueInv, GrammarInv
<1>10. PassInv'
  BY <1>2 DEF QueueInv, PassInv, queues
<1>11. Moved
  <2>1. Released' = Released /\ slots' = slots
    BY <1>1 DEF GrammarCompiled, Compile, Released, ids, runnerVars
  <2> QED BY <1>2, <1>4, <2>1 DEF Moved, Move
<1>12. Steady
  BY <1>4 DEF Steady
<1> QED BY <1>11, <1>12, <1>5, <1>6, <1>7, <1>8, <1>9, <1>10 DEF QueueInv

(* The steps that change no request at all. *)
LEMMA QuietKeeps ==
  ASSUME QueueInv,
         UNCHANGED <<conf, req, queues, numStreaming, grammarErrors, flight, pass>>,
         DOMAIN stores' = Reqs,
         \A r \in Reqs : stores'[r] # "none" => stores[r] # "none"
  PROVE  QueueInv'
<1>1. FlightInv'
  BY DEF QueueInv, FlightInv
<1> QED BY <1>1 DEF QueueInv, RequestInv, ListInv, CountInv, PassInv, GrammarInv, queues

LEMMA OutsideKeeps ==
  ASSUME QueueInv, \/ Pause \/ Resume \/ \E r \in Reqs : LoadDone(r) \/ StoreDone(r)
  PROVE  QueueInv' /\ Moved /\ Steady
<1>1. UNCHANGED <<conf, req, queues, numStreaming, grammarErrors, flight, pass>>
  BY DEF Pause, Resume, SetPauseState, LoadDone, StoreDone, schedVars, ids, runnerVars
<1>2. \/ stores' = stores
      \/ \E r \in Reqs : stores[r] = "storing" /\ stores' = [stores EXCEPT ![r] = "done"]
  BY DEF Pause, Resume, LoadDone, StoreDone, runnerVars
<1>3. DOMAIN stores = Reqs
  BY DEF QueueInv, FlightInv
<1>4. /\ DOMAIN stores' = Reqs
      /\ \A r \in Reqs : stores'[r] # "none" => stores[r] # "none"
  BY <1>2, <1>3
<1>5. Moved
  <2>1. Released' = Released /\ slots' = slots
    BY DEF Pause, Resume, SetPauseState, LoadDone, StoreDone, schedVars, ids, runnerVars, Released
  <2> QED BY <1>1, <2>1 DEF Moved, Move
<1>6. Steady
  BY <1>1 DEF Steady
<1> QED BY <1>5, <1>6, <1>1, <1>4, QuietKeeps
-----------------------------------------------------------------------------
(* The output of a step. *)

LEMMA SetToSeqIs ==
  ASSUME NEW S \in SUBSET Reqs, IsFiniteSet(S)
  PROVE  SetToSeq(S) \in Seq(Reqs) /\ ToSet(SetToSeq(S)) \in SUBSET S
<1>1. PICK n \in Nat : n = Cardinality(S) /\ ExistsBijection(1 .. n, S)
  BY FS_CardinalityType
<1>2. \E f \in [1 .. n -> S] : IsInjective(f)
  <2>1. PICK f \in [1 .. n -> S] : \A a, b \in 1 .. n : f[a] = f[b] => a = b
    BY <1>1 DEF ExistsBijection, Bijection, Injection, IsInjective
  <2>2. IsInjective(f)
    BY <2>1 DEF IsInjective
  <2> QED BY <2>2
<1>3. PICK q : q = SetToSeq(S)
  OBVIOUS
<1>4. q \in [1 .. n -> S]
  BY <1>1, <1>2, <1>3 DEF SetToSeq
<1>5. q \in Seq(Reqs) /\ ToSet(q) \in SUBSET S
  BY <1>4 DEF ToSet
<1> QED BY <1>3, <1>5

LEMMA ConcatMembers ==
  ASSUME NEW p \in Seq(Reqs), NEW q \in Seq(Reqs)
  PROVE  p \o q \in Seq(Reqs) /\ ToSet(p \o q) = ToSet(p) \cup ToSet(q)
<1>1. PICK m \in Nat, n \in Nat : m = Len(p) /\ n = Len(q)
  OBVIOUS
<1>2. PICK s : s = p \o q
  OBVIOUS
<1>3. /\ s \in Seq(Reqs) /\ Len(s) = m + n /\ DOMAIN s = 1 .. m + n
      /\ DOMAIN p = 1 .. m /\ DOMAIN q = 1 .. n
      /\ \A i \in 1 .. m : s[i] = p[i] /\ i \in 1 .. m + n
      /\ \A i \in 1 .. n : s[m + i] = q[i] /\ m + i \in 1 .. m + n
  BY <1>1, <1>2
<1>4. \A k \in 1 .. m + n : k \in 1 .. m \/ \E i \in 1 .. n : k = m + i
  <2> TAKE k \in 1 .. m + n
  <2>1. k > m => k - m \in 1 .. n /\ k = m + (k - m)
    OBVIOUS
  <2> QED BY <2>1
<1>5. ToSet(s) = ToSet(p) \cup ToSet(q)
  <2>1. \A k \in 1 .. m + n : s[k] \in ToSet(p) \cup ToSet(q)
    <3> TAKE k \in 1 .. m + n
    <3>1. CASE k \in 1 .. m
      BY <1>3, <3>1 DEF ToSet
    <3>2. CASE \E i \in 1 .. n : k = m + i
      BY <1>3, <3>2 DEF ToSet
    <3> QED BY <1>4, <3>1, <3>2
  <2>2. \A x \in ToSet(p) \cup ToSet(q) : x \in ToSet(s)
    BY <1>3 DEF ToSet
  <2> QED BY <1>3, <2>1, <2>2 DEF ToSet
<1> QED BY <1>2, <1>3, <1>5

(* What a result makes of the request q of r: it leaves q where it is, or   *)
(* stops it; a session that has no input stops at waiting for it.           *)
Turned(r, q, a) ==
  /\ DOMAIN a = Fields
  /\ \/ Same(a, q)
     \/ /\ q.status \notin Over
        /\ a.status \in {"finished", "stream", "waiting"}
        /\ a.status \in {"stream", "waiting"} => r \in conf.sessions
        /\ a.status = "stream" => a.updates = <<>>
        /\ r \in conf.sessions /\ q.updates = <<>> => a.status = "stream"

LEMMA DrainedIs ==
  ASSUME NEW q, NEW n, DOMAIN q = Fields
  PROVE  Same(Drained(q, n), q) /\ DOMAIN Drained(q, n) = Fields
BY FieldsAre DEF Drained, Same

LEMMA DeliveredIs ==
  ASSUME NEW q, NEW res, DOMAIN q = Fields
  PROVE  Same(Delivered(q, res), q) /\ DOMAIN Delivered(q, res) = Fields
<1>1. PICK d : d = Drained(q, res.n)
  OBVIOUS
<1>2. Same(d, q) /\ DOMAIN d = Fields
  BY <1>1, DrainedIs
<1>3. PICK e : e = Delivered(q, res)
  OBVIOUS
<1>4. \E c, p, t : e = [d EXCEPT !.computed = c, !.placeholders = p, !.tokens = t]
  BY <1>1, <1>3 DEF Delivered
<1>5. PICK c, p, t : e = [d EXCEPT !.computed = c, !.placeholders = p, !.tokens = t]
  BY <1>4
<1>6. Same(e, d) /\ DOMAIN e = Fields
  BY <1>2, <1>5, FieldsAre DEF Same
<1> QED BY <1>2, <1>3, <1>6 DEF Same

LEMMA StoppedIs ==
  ASSUME NEW r, NEW q, DOMAIN q = Fields
  PROVE  /\ DOMAIN Stopped(r, q) = Fields
         /\ Stopped(r, q).status \in {"finished", "stream", "waiting"}
         /\ Stopped(r, q).status \in {"stream", "waiting"} => r \in conf.sessions
         /\ Stopped(r, q).status = "stream" => Stopped(r, q).updates = <<>>
         /\ r \in conf.sessions /\ q.updates = <<>> => Stopped(r, q).status = "stream"
<1>1. CASE r \notin conf.sessions
  BY <1>1, FieldsAre DEF Stopped
<1>2. CASE r \in conf.sessions /\ q.updates = <<>>
  BY <1>2, FieldsAre DEF Stopped
<1>3. CASE r \in conf.sessions /\ q.updates # <<>>
  <2>1. PICK rest : rest = [q EXCEPT !.updates = Tail(@)]
    OBVIOUS
  <2>2. DOMAIN rest = Fields
    BY <2>1
  <2>3. Stopped(r, q) = IF Head(q.updates) = "end" THEN [rest EXCEPT !.status = "finished"]
                                                  ELSE AsSession(rest)
    BY <1>3, <2>1 DEF Stopped
  <2>4. AsSession(rest).status = "waiting" /\ DOMAIN AsSession(rest) = Fields
    BY <2>2, FieldsAre DEF AsSession
  <2>5. /\ [rest EXCEPT !.status = "finished"].status = "finished"
        /\ DOMAIN [rest EXCEPT !.status = "finished"] = Fields
    BY <2>2, FieldsAre
  <2> QED BY <1>3, <2>3, <2>4, <2>5
<1> QED BY <1>1, <1>2, <1>3

LEMMA AfterOutputIs ==
  ASSUME NEW r, NEW q, NEW res, DOMAIN q = Fields
  PROVE  /\ Turned(r, q, AfterOutput(r, q, res))
         /\ ~StopsRequest(q, res) => Same(AfterOutput(r, q, res), q)
         /\ StopsRequest(q, res) =>
              /\ q.status \notin Over
              /\ AfterOutput(r, q, res).status \in {"finished", "stream", "waiting"}
              /\ r \notin conf.sessions => AfterOutput(r, q, res).status = "finished"
<1>1. PICK a : a = AfterOutput(r, q, res)
  OBVIOUS
<1>2. CASE ~StopsRequest(q, res)
  <2>1. a \in {q, Drained(q, res.n), Delivered(q, res)}
    BY <1>1, <1>2 DEF AfterOutput, StopsRequest
  <2>2. Same(a, q) /\ DOMAIN a = Fields
    BY <2>1, DrainedIs, DeliveredIs DEF Same
  <2> QED BY <1>1, <1>2, <2>2 DEF Turned
<1>3. CASE StopsRequest(q, res)
  <2>1. PICK d : d = Delivered(q, res)
    OBVIOUS
  <2>2. a = Stopped(r, d) /\ q.status \notin Over
    BY <1>1, <1>3, <2>1 DEF AfterOutput, StopsRequest, Discarded, Over
  <2>3. DOMAIN d = Fields /\ d.updates = q.updates
    BY <2>1, DeliveredIs DEF Same
  <2> QED BY <1>1, <1>3, <2>2, <2>3, StoppedIs DEF Turned
<1> QED BY <1>2, <1>3

(* What the output of a step makes of the requests: it ends them, or stops  *)
(* a session that has a result.                                             *)
Settled(results) ==
  /\ finishedIds \in SUBSET finishedIds' /\ preemptedIds' = preemptedIds
  /\ \A r \in finishedIds' : r \in finishedIds \/ req'[r].status \in Past
  /\ \A r \in Reqs :
       \/ req'[r].status = req[r].status
       \/ req'[r].status \in Past /\ (req[r].status \in Past \/ r \in finishedIds')
       \/ /\ req[r].status \notin Over /\ req'[r].status \in {"stream", "waiting"}
          /\ r \in conf.sessions /\ \E i \in DOMAIN results : results[i].id = r

LEMMA UpdateKeeps ==
  ASSUME QueueInv, IsFiniteSet(Reqs),
         NEW results, NEW recv, NEW sent, NEW send,
         UpdateFromOutput(results, recv, sent, send),
         NEW X, results \in Seq(X),
         \A i \in DOMAIN results : /\ results[i].id \in Reqs
                                   /\ req[results[i].id].status \notin {"none", "grammar"},
         \A i, j \in DOMAIN results : results[i].id = results[j].id => i = j,
         \A i \in DOMAIN results : results[i].id \in conf.sessions =>
           req[results[i].id].status \in {"running"} \cup Past,
         \A r \in sent : r \in Reqs /\ req[r].status \in Past,
         \A x \in recv : x.id \in Reqs
  PROVE  RequestInv' /\ ListInv' /\ CountInv' /\ PassInv' /\ GrammarInv' /\ Onward
         /\ Settled(results) /\ conf' = conf /\ pass.pc = "idle" /\ pass' = pass
<1> DEFINE
      counted == DeferBlockFree /\ results # <<>>
      aged == [r \in Reqs |-> IF counted THEN [req[r] EXCEPT !.lastSeq = Max({@ - 1, 0})]
                              ELSE req[r]]
      failed == LoadsFailed(recv)
      loaded == AfterLoads(aged, recv)
      of == Items(results)
      after == [r \in Reqs |-> IF r \in DOMAIN of
                                THEN IF r \in failed /\ ~conf.recompute
                                       THEN Drained(loaded[r], of[r].n)
                                       ELSE AfterOutput(r, loaded[r], of[r])
                                ELSE loaded[r]]
      order == [i \in DOMAIN results |-> results[i].id]
      stopped == {r \in DOMAIN of : StopsRequest(loaded[r], of[r])}
                 \ (IF conf.recompute THEN {} ELSE failed)
      late == {r \in stopped : req[r].status # "running"}
      finished == {r \in stopped : after[r].status = "finished"}
      errors == {r \in grammarErrors \cup (IF conf.recompute THEN {} ELSE failed) :
                    after[r].status \notin Over}
      marked == [r \in Reqs |-> IF r \in errors THEN [after[r] EXCEPT !.status = "finished"]
                                ELSE after[r]]
      kept == (finished \cup errors) \cap send
      ended == {x.id : x \in recv}
      release == Within(order, finished \ kept)
                 \o SetToSeq((errors \ kept) \ failed)
                 \o SetToSeq(Received(marked, ended))
                 \o SetToSeq(sent)
<1>1. /\ pass.pc = "idle" /\ pass' = pass /\ conf' = conf
      /\ req' = UpdateDraftTokenIds(Deleted(marked, ToSet(release)),
                                    IF Async THEN {} ELSE DOMAIN of)
      /\ running' = Without(running, stopped)
      /\ waiting' = Without(waiting \o Within(order, {r \in stopped : after[r].status = "waiting"}),
                            late \cup errors)
      /\ skipped' = Without(skipped \o Within(order, {r \in stopped : after[r].status = "stream"}),
                            late \cup errors)
      /\ numStreaming' = numStreaming
                         + Cardinality({r \in stopped : after[r].status = "stream"})
      /\ grammarErrors' = {}
      /\ finishedIds' = finishedIds \cup finished \cup errors /\ preemptedIds' = preemptedIds
  BY Zenon DEF UpdateFromOutput
<1>2. DOMAIN of = {results[i].id : i \in DOMAIN results}
  BY DEF Items
<1>3. DOMAIN of \in SUBSET Reqs /\ \A r \in DOMAIN of : req[r].status \notin {"none", "grammar"}
  BY <1>2
<1>4. Lists(order, DOMAIN of)
  <2>1. PICK n \in Nat : n = Len(results) /\ DOMAIN results = 1 .. n
    OBVIOUS
  <2>2. DOMAIN order = 1 .. n /\ \A i \in 1 .. n : order[i] = results[i].id
    BY <2>1
  <2>3. order \in [1 .. n -> Reqs]
    BY <2>1
  <2>4. order \in Seq(Reqs)
    BY <2>1, <2>3
  <2> HIDE DEF order, of
  <2>5. ToSet(order) = DOMAIN of
    BY <1>2, <2>1, <2>2 DEF ToSet
  <2>6. IsInjective(order)
    BY <2>1, <2>2 DEF IsInjective
  <2> QED BY <2>4, <2>5, <2>6 DEF Lists
<1>5. \A r \in Reqs : DOMAIN req[r] = Fields /\ req[r].status \in Statuses
  BY DEF QueueInv, RequestInv
<1>6. \A r \in Reqs : Same(loaded[r], req[r]) /\ DOMAIN loaded[r] = Fields
  <2>1. \A r \in Reqs : Same(aged[r], req[r]) /\ DOMAIN aged[r] = Fields
    BY <1>5, FieldsAre DEF Same
  <2> HIDE DEF aged
  <2>2. \A r \in Reqs : \E c : loaded[r] = aged[r] \/ loaded[r] = [aged[r] EXCEPT !.computed = c]
    BY DEF AfterLoads
  <2> HIDE DEF loaded
  <2>3. \A r \in Reqs : Same(loaded[r], aged[r]) /\ DOMAIN loaded[r] = Fields
    <3> TAKE r \in Reqs
    <3>1. PICK c : loaded[r] = aged[r] \/ loaded[r] = [aged[r] EXCEPT !.computed = c]
      BY <2>2
    <3>2. PICK p, q : p = loaded[r] /\ q = aged[r]
      OBVIOUS
    <3>3. DOMAIN q = Fields
      BY <2>1, <3>2
    <3>4. Same(p, q) /\ DOMAIN p = Fields
      BY <3>1, <3>2, <3>3, FieldsAre DEF Same
    <3> QED BY <3>2, <3>4
  <2> QED BY <2>1, <2>3 DEF Same
<1> HIDE DEF order
<1>7. \A r \in Reqs : /\ Turned(r, req[r], after[r])
                      /\ r \notin DOMAIN of => Same(after[r], req[r])
                      /\ r \in failed /\ ~conf.recompute => Same(after[r], req[r])
                      /\ r \notin stopped => Same(after[r], req[r])
                      /\ r \in stopped =>
                           /\ r \in DOMAIN of /\ req[r].status \notin Over
                           /\ after[r].status \in {"finished", "stream", "waiting"}
                           /\ r \notin conf.sessions => after[r].status = "finished"
  <2> TAKE r \in Reqs
  <2> HIDE DEF loaded, failed, of
  <2>1. CASE r \notin DOMAIN of
    BY <1>6, <2>1 DEF Turned
  <2>2. CASE r \in DOMAIN of /\ r \in failed /\ ~conf.recompute
    <3>1. after[r] = Drained(loaded[r], of[r].n)
      BY <2>2
    <3>2. Same(after[r], req[r]) /\ DOMAIN after[r] = Fields
      BY <1>6, <3>1, DrainedIs DEF Same
    <3> QED BY <2>2, <3>2 DEF Turned
  <2>3. CASE r \in DOMAIN of /\ ~(r \in failed /\ ~conf.recompute)
    <3>1. after[r] = AfterOutput(r, loaded[r], of[r])
      BY <2>3
    <3>2. r \in stopped <=> StopsRequest(loaded[r], of[r])
      BY <2>3
    <3> HIDE DEF stopped, after
    <3>3. /\ Turned(r, loaded[r], after[r])
          /\ r \notin stopped => Same(after[r], loaded[r])
          /\ r \in stopped => /\ loaded[r].status \notin Over
                              /\ after[r].status \in {"finished", "stream", "waiting"}
                              /\ r \notin conf.sessions => after[r].status = "finished"
      BY <1>6, <3>1, <3>2, AfterOutputIs
    <3> QED BY <1>6, <2>3, <3>3 DEF Turned, Same
  <2> QED BY <2>1, <2>2, <2>3
<1>8. failed \in SUBSET Reqs /\ \A r \in failed : req[r].status = "remote"
  BY DEF LoadsFailed
<1>9. DOMAIN after = Reqs
  OBVIOUS
<1> HIDE DEF loaded, aged, counted, failed, of, after
<1>10. \A r \in errors : /\ r \in Reqs /\ Same(after[r], req[r])
                         /\ req[r].status \in {"grammar", "remote"}
  <2> TAKE r \in errors
  <2>1. CASE r \in grammarErrors
    <3>1. /\ r \in Reqs /\ after[r].status \notin Over
          /\ req[r].status \in Past \/ req[r].status = "grammar"
      BY <2>1 DEF QueueInv, GrammarInv
    <3>2. req[r].status \notin Past
      BY <1>7, <3>1 DEF Turned, Same, Past, Over
    <3> QED BY <1>3, <1>7, <3>1, <3>2
  <2>2. CASE r \in failed /\ ~conf.recompute
    BY <1>7, <1>8, <2>2
  <2> QED BY <2>1, <2>2
<1>11. \A r \in stopped : /\ r \in Reqs /\ r \notin errors /\ req[r].status \notin Over
                          /\ after[r].status \in {"finished", "stream", "waiting"}
                          /\ after[r].status # req[r].status
                          /\ after[r].status = "finished" \/ req[r].status = "running"
  <2> TAKE r \in stopped
  <2>1. r \in DOMAIN of /\ r \in Reqs
    BY <1>3
  <2> HIDE DEF stopped
  <2>2. /\ req[r].status \notin Over
        /\ after[r].status \in {"finished", "stream", "waiting"}
        /\ r \notin conf.sessions => after[r].status = "finished"
    BY <1>7, <2>1
  <2>3. r \in conf.sessions => req[r].status \in {"running"} \cup Past
    BY <1>2, <2>1
  <2>4. after[r].status = "finished" \/ req[r].status = "running"
    BY <2>2, <2>3 DEF Over, Past
  <2>5. after[r].status # req[r].status
    BY <2>2, <2>4 DEF Over
  <2>6. r \notin errors
    BY <1>10, <2>5 DEF Same
  <2> QED BY <2>1, <2>2, <2>4, <2>5, <2>6
<1>12. \A r \in Reqs : r \notin stopped => after[r].status = req[r].status
  BY <1>7 DEF Same
<1>13. \A r \in Reqs : /\ DOMAIN marked[r] = Fields
                       /\ r \in errors => marked[r].status = "finished"
                       /\ r \notin errors => marked[r] = after[r]
  BY <1>7, FieldsAre DEF Turned
<1> HIDE DEF marked
<1>14. ToSet(release) \in SUBSET {r \in Reqs : marked[r].status \in Past}
  <2> DEFINE p1 == Within(order, finished \ kept)
             p2 == SetToSeq((errors \ kept) \ failed)
             p3 == SetToSeq(Received(marked, ended))
             p4 == SetToSeq(sent)
  <2>1. p1 \in Seq(Reqs) /\ ToSet(p1) \in SUBSET finished
    BY <1>4, WithinIs DEF Lists
  <2>2. p2 \in Seq(Reqs) /\ ToSet(p2) \in SUBSET errors
    <3>1. PICK E : E = (errors \ kept) \ failed
      OBVIOUS
    <3>2. E \in SUBSET Reqs /\ E \in SUBSET errors
      BY <1>10, <3>1
    <3>3. IsFiniteSet(E)
      BY <3>2, FS_Subset
    <3> QED BY <3>1, <3>2, <3>3, SetToSeqIs
  <2>3. p3 \in Seq(Reqs) /\ ToSet(p3) \in SUBSET {r \in Reqs : marked[r].status = "finished"}
    <3>1. PICK E : E = Received(marked, ended)
      OBVIOUS
    <3>2. E \in SUBSET {r \in Reqs : marked[r].status = "finished"}
      BY <3>1 DEF Received
    <3>3. IsFiniteSet(E) /\ E \in SUBSET Reqs
      BY <3>2, FS_Subset
    <3> QED BY <3>1, <3>2, <3>3, SetToSeqIs
  <2>4. p4 \in Seq(Reqs) /\ ToSet(p4) \in SUBSET sent
    <3>1. sent \in SUBSET Reqs
      OBVIOUS
    <3>2. IsFiniteSet(sent)
      BY <3>1, FS_Subset
    <3> QED BY <3>1, <3>2, SetToSeqIs
  <2>5. release = p1 \o p2 \o p3 \o p4
    OBVIOUS
  <2> HIDE DEF p1, p2, p3, p4, release
  <2>6. p1 \o p2 \in Seq(Reqs) /\ ToSet(p1 \o p2) = ToSet(p1) \cup ToSet(p2)
    BY <2>1, <2>2, ConcatMembers
  <2>7. p1 \o p2 \o p3 \in Seq(Reqs)
        /\ ToSet(p1 \o p2 \o p3) = ToSet(p1) \cup ToSet(p2) \cup ToSet(p3)
    BY <2>3, <2>6, ConcatMembers
  <2>8. ToSet(release) = ToSet(p1) \cup ToSet(p2) \cup ToSet(p3) \cup ToSet(p4)
    BY <2>4, <2>5, <2>7, ConcatMembers
  <2>9. \A r \in finished : r \in Reqs /\ marked[r].status \in Past
    BY <1>11, <1>13 DEF Past
  <2>10. \A r \in errors : r \in Reqs /\ marked[r].status \in Past
    BY <1>10, <1>13 DEF Past
  <2>11. \A r \in sent : r \in Reqs /\ marked[r].status \in Past
    <3> TAKE r \in sent
    <3>1. r \in Reqs /\ req[r].status \in Past
      OBVIOUS
    <3>2. r \notin stopped /\ r \notin errors
      BY <1>10, <1>11, <3>1 DEF Past, Over
    <3> QED BY <1>12, <1>13, <3>1, <3>2
  <2> QED BY <2>1, <2>2, <2>3, <2>4, <2>8, <2>9, <2>10, <2>11 DEF Past
<1> HIDE DEF release
<1>15. /\ DOMAIN req' = Reqs
       /\ \A r \in Reqs : /\ DOMAIN req'[r] = Fields
                          /\ r \in ToSet(release) => req'[r].status = "gone"
                          /\ r \notin ToSet(release) => Same(req'[r], marked[r])
  <2>1. PICK gone, drafted : /\ gone = Deleted(marked, ToSet(release))
                             /\ drafted = IF Async THEN {} ELSE DOMAIN of
    OBVIOUS
  <2>2. \A r \in Reqs : gone[r] = IF r \in ToSet(release)
                                    THEN [marked[r] EXCEPT !.status = "gone", !.blocks = <<>>]
                                    ELSE marked[r]
    BY <2>1 DEF Deleted
  <2>3. \A r \in Reqs : /\ DOMAIN gone[r] = Fields
                        /\ r \in ToSet(release) => gone[r].status = "gone"
                        /\ r \notin ToSet(release) => gone[r] = marked[r]
    BY <1>13, <2>2, FieldsAre
  <2>4. /\ DOMAIN req' = Reqs
        /\ \A r \in Reqs : \/ req'[r] = gone[r]
                           \/ \E d : req'[r] = [gone[r] EXCEPT !.specs = d]
    BY <1>1, <2>1 DEF UpdateDraftTokenIds
  <2>5. \A r \in Reqs : Same(req'[r], gone[r]) /\ DOMAIN req'[r] = Fields
    BY <2>3, <2>4, FieldsAre DEF Same
  <2> QED BY <2>3, <2>4, <2>5 DEF Same
<1>16. \A r \in Reqs :
         /\ r \in errors => req'[r].status \in Past
         /\ r \in stopped => \/ /\ after[r].status = "finished" /\ req'[r].status \in Past
                             \/ /\ after[r].status \in {"stream", "waiting"}
                                /\ req'[r].status = after[r].status
         /\ r \notin stopped \cup errors =>
              IF req[r].status \in Past THEN req'[r].status \in Past
                                        ELSE req'[r].status = req[r].status
         /\ req'[r].status \notin Past => Same(req'[r], after[r])
  <2> TAKE r \in Reqs
  <2>1. /\ r \in errors => marked[r].status = "finished"
        /\ r \notin errors => marked[r].status = after[r].status
    BY <1>13
  <2>2. \/ req'[r].status = "gone" /\ marked[r].status \in Past
        \/ req'[r].status = marked[r].status /\ Same(req'[r], marked[r])
    BY <1>14, <1>15 DEF Same
  <2> QED BY <1>11, <1>12, <1>13, <2>1, <2>2 DEF Past, Same
<1>17. Settled(results)
  <2>1. \A r \in errors : r \in finishedIds' /\ req'[r].status \in Past
    BY <1>1, <1>10, <1>16
  <2>2. \A r \in finished : r \in finishedIds' /\ req'[r].status \in Past
    BY <1>1, <1>11, <1>16
  <2>3. \A r \in stopped : after[r].status = "finished" => r \in finished
    OBVIOUS
  <2>4. \A r \in stopped : after[r].status \in {"stream", "waiting"} =>
          r \in conf.sessions /\ \E i \in DOMAIN results : results[i].id = r
    BY <1>2, <1>7, <1>11 DEF Turned, Same
  <2>5. /\ finishedIds \in SUBSET finishedIds' /\ preemptedIds' = preemptedIds
        /\ \A r \in finishedIds' : r \in finishedIds \cup finished \cup errors
    BY <1>1
  <2> HIDE DEF errors, finished, stopped
  <2>6. ASSUME NEW r \in Reqs
        PROVE  \/ req'[r].status = req[r].status
               \/ req'[r].status \in Past /\ (req[r].status \in Past \/ r \in finishedIds')
               \/ /\ req[r].status \notin Over /\ req'[r].status \in {"stream", "waiting"}
                  /\ r \in conf.sessions /\ \E i \in DOMAIN results : results[i].id = r
    <3>1. CASE r \in errors
      BY <2>1, <3>1
    <3>2. CASE r \in stopped
      BY <1>11, <1>16, <2>2, <2>3, <2>4, <3>2
    <3>3. CASE r \notin stopped \cup errors
      BY <1>16, <3>3
    <3> QED BY <3>1, <3>2, <3>3
  <2> QED BY <2>1, <2>2, <2>5, <2>6 DEF Settled
<1> HIDE DEF errors, finished, kept, ended
<1>18. RequestInv'
  <2>1. \A r \in Reqs : req'[r].status \in Statuses
    BY <1>5, <1>12, <1>16 DEF Past, Statuses
  <2>2. ASSUME NEW r \in Reqs, req'[r].status = "stream"
        PROVE  r \in conf.sessions /\ req'[r].updates = <<>>
    <3>1. after[r].status = "stream" /\ after[r].updates = req'[r].updates
      BY <1>16, <2>2 DEF Past, Same
    <3>2. CASE Same(after[r], req[r])
      BY <3>1, <3>2 DEF QueueInv, RequestInv, Same
    <3>3. CASE ~Same(after[r], req[r])
      BY <1>7, <3>1, <3>3 DEF Turned
    <3> QED BY <3>2, <3>3
  <2> QED BY <1>1, <1>15, <2>1, <2>2 DEF RequestInv
<1>19. ListInv'
  <2>1. PICK R, W, S : /\ Lists(running, R) /\ Lists(waiting, W) /\ Lists(skipped, S)
                       /\ Places(req, R, W, S, {})
    BY <1>1, IdleLists
  <2> DEFINE again == {r \in stopped : after[r].status = "waiting"}
             paused == {r \in stopped : after[r].status = "stream"}
  <2>2. again \in SUBSET DOMAIN of /\ paused \in SUBSET DOMAIN of /\ again \cap paused = {}
    OBVIOUS
  <2>3. Lists(Within(order, again), again) /\ Lists(Within(order, paused), paused)
    <3>1. DOMAIN of \cap again = again /\ DOMAIN of \cap paused = paused
      BY <2>2
    <3> QED BY <1>4, <3>1, WithinIs
  <2>4. Lists(Without(running, stopped), R \ stopped)
    BY <2>1, WithoutIs
  <2>5. again \in SUBSET stopped /\ paused \in SUBSET stopped
    OBVIOUS
  <2>6. /\ \A r \in again : r \in stopped /\ after[r].status = "waiting"
        /\ \A r \in paused : r \in stopped /\ after[r].status = "stream"
        /\ \A r \in stopped : after[r].status = "waiting" => r \in again
        /\ \A r \in stopped : after[r].status = "stream" => r \in paused
        /\ late = {r \in stopped : req[r].status # "running"}
    OBVIOUS
  <2>7. /\ waiting' = Without(waiting \o Within(order, again), late \cup errors)
        /\ skipped' = Without(skipped \o Within(order, paused), late \cup errors)
    BY <1>1
  <2> HIDE DEF again, paused, late, stopped
  <2>8. /\ Lists(running', R \ stopped)
        /\ Lists(waiting', (W \ (stopped \cup errors)) \cup again)
        /\ Lists(skipped', (S \ (stopped \cup errors)) \cup paused)
    <3>1. \A r \in W \cup S : r \in Reqs /\ req[r].status # "running"
      BY <2>1 DEF Places
    <3>2. \A r \in again \cup paused : r \notin errors /\ req[r].status = "running"
      BY <1>11, <2>5, <2>6
    <3>3. /\ W \cap again = {} /\ S \cap paused = {}
          /\ (W \cup again) \ (late \cup errors) = (W \ (stopped \cup errors)) \cup again
          /\ (S \cup paused) \ (late \cup errors) = (S \ (stopped \cup errors)) \cup paused
      BY <2>6, <3>1, <3>2
    <3>4. Lists(waiting \o Within(order, again), W \cup again)
      BY <2>1, <2>3, <3>3, ListConcat
    <3>5. Lists(skipped \o Within(order, paused), S \cup paused)
      BY <2>1, <2>3, <3>3, ListConcat
    <3>6. /\ Lists(waiting', (W \cup again) \ (late \cup errors))
          /\ Lists(skipped', (S \cup paused) \ (late \cup errors))
      BY <2>7, <3>4, <3>5, WithoutIs
    <3> QED BY <1>1, <2>4, <3>3, <3>6
  <2>9. Places(req', R \ stopped, (W \ (stopped \cup errors)) \cup again,
               (S \ (stopped \cup errors)) \cup paused, {})
    <3>1. \A r \in Reqs : r \in R \ stopped <=> req'[r].status = "running"
      <4> TAKE r \in Reqs
      <4>1. r \in R <=> req[r].status = "running"
        BY <2>1 DEF Places
      <4>2. r \in errors => req[r].status # "running"
        BY <1>10
      <4> QED BY <1>16, <4>1, <4>2 DEF Past
    <3>2. \A r \in Reqs : r \in W \cup S <=> req[r].status \notin Over \cup {"running"}
      BY <2>1 DEF Places
    <3>3. \A r \in Reqs : req'[r].status \notin Over \cup {"running"} <=>
            r \in ((W \cup S) \ (stopped \cup errors)) \cup again \cup paused
      <4> TAKE r \in Reqs
      <4>1. CASE r \in errors
        <5>1. r \notin stopped
          BY <1>11, <4>1
        <5> QED BY <1>16, <2>6, <4>1, <5>1 DEF Past, Over
      <4>2. CASE r \in stopped
        BY <1>16, <2>6, <4>2 DEF Past, Over
      <4>3. CASE r \notin stopped \cup errors
        BY <1>16, <2>6, <3>2, <4>3 DEF Past, Over
      <4> QED BY <4>1, <4>2, <4>3
    <3>4. R \in SUBSET Reqs /\ W \in SUBSET Reqs /\ S \in SUBSET Reqs
          /\ again \in SUBSET Reqs /\ paused \in SUBSET Reqs
      BY <1>3, <2>1, <2>2 DEF Places
    <3>5. /\ R \ stopped = {r \in Reqs : req'[r].status = "running"}
          /\ (W \ (stopped \cup errors)) \cup again \cup ((S \ (stopped \cup errors)) \cup paused) \cup {}
               = {r \in Reqs : req'[r].status \notin Over \cup {"running"}}
      BY <3>1, <3>3, <3>4
    <3>6. ((W \ (stopped \cup errors)) \cup again) \cap ((S \ (stopped \cup errors)) \cup paused) = {}
      BY <2>1, <2>2, <2>5 DEF Places
    <3>7. \A r \in (W \ (stopped \cup errors)) \cup again : req'[r].status \notin Blocked
      <4>1. \A r \in again : req'[r].status = "waiting"
        BY <1>16, <2>6, <3>4
      <4>2. \A r \in W \ (stopped \cup errors) : req'[r].status \notin Blocked
        <5>1. \A r \in W : r \in Reqs /\ req[r].status \notin Blocked
          BY <2>1, <3>4 DEF Places
        <5> QED BY <1>16, <5>1 DEF Past, Blocked
      <4> QED BY <4>1, <4>2 DEF Blocked
    <3> QED BY <3>5, <3>6, <3>7 DEF Places
  <2> QED BY <1>1, <2>8, <2>9, IdleKeepsPass, ListOfNone DEF ListInv
<1>20. CountInv'
  <2> DEFINE paused == {r \in stopped : after[r].status = "stream"}
  <2>1. \A r \in paused : r \in stopped /\ r \in Reqs /\ after[r].status = "stream"
    BY <1>11
  <2>2. \A r \in stopped : after[r].status = "stream" => r \in paused
    OBVIOUS
  <2>3. numStreaming' = numStreaming + Cardinality(paused)
    BY <1>1
  <2> HIDE DEF paused, stopped
  <2>4. \A r \in Streams(req) : r \in Reqs /\ r \notin stopped /\ r \notin errors
    <3> TAKE r \in Streams(req)
    <3>1. r \in Reqs /\ req[r].status = "stream" /\ r \in conf.sessions /\ req[r].updates = <<>>
      BY DEF Streams, QueueInv, RequestInv
    <3>2. after[r].status = "stream"
      BY <1>7, <3>1 DEF Turned, Same
    <3> QED BY <1>10, <1>11, <3>1, <3>2
  <2>5. Streams(req') = Streams(req) \cup paused
    <3>1. \A r \in Reqs : req'[r].status = "stream" <=> req[r].status = "stream" \/ r \in paused
      <4> TAKE r \in Reqs
      <4>1. req[r].status = "stream" => r \notin stopped /\ r \notin errors
        BY <2>4 DEF Streams
      <4>2. CASE r \in stopped
        BY <1>16, <2>1, <2>2, <4>1, <4>2 DEF Past
      <4>3. CASE r \in errors
        BY <1>11, <1>16, <2>1, <4>1, <4>3 DEF Past
      <4>4. CASE r \notin stopped \cup errors
        BY <1>16, <2>1, <4>4 DEF Past
      <4> QED BY <4>2, <4>3, <4>4
    <3> QED BY <2>1, <3>1 DEF Streams
  <2>6. Streams(req) \cap paused = {}
    BY <2>1, <2>4
  <2>7. IsFiniteSet(Streams(req)) /\ IsFiniteSet(paused)
    <3>1. Streams(req) \in SUBSET Reqs /\ paused \in SUBSET Reqs
      BY <2>1 DEF Streams
    <3> QED BY <3>1, FS_Subset
  <2>8. /\ Cardinality(Streams(req')) = Cardinality(Streams(req)) + Cardinality(paused) - 0
        /\ Cardinality(Streams(req)) \in Nat /\ Cardinality(paused) \in Nat
    BY <2>5, <2>6, <2>7, FS_Union, FS_EmptySet, FS_CardinalityType
  <2> QED BY <2>3, <2>8 DEF QueueInv, CountInv
<1>21. Onward
  BY <1>10, <1>11, <1>16 DEF Onward, Past, Over
<1>22. GrammarInv'
  BY <1>1 DEF GrammarInv
<1> QED BY <1>1, <1>18, <1>19, <1>20, <1>21, <1>22, <1>17, IdleKeepsPass

LEMMA ProcessKeeps ==
  ASSUME QueueInv, Alone, SyncInv, IsFiniteSet(Reqs), Process
  PROVE  QueueInv' /\ Moved
<1>1. PICK out : out = Head(flight)
  OBVIOUS
<1>2. PICK send :
        /\ UpdateFromOutput(out.results, out.recv, out.sent, send)
        /\ \A r \in send : req[r].status # "finished" /\ req'[r].status = "finished"
        /\ stores' = Stores(send)
  BY <1>1 DEF Process
<1>3. flight # <<>> /\ flight' = Tail(flight)
  BY DEF Process
<1>4. PICK X : flight \in Seq(X)
  BY DEF QueueInv, FlightInv
<1>5. PICK n \in Nat \ {0} : n = Len(flight) /\ DOMAIN flight = 1 .. n
  BY <1>3, <1>4
<1>6. out = flight[1] /\ 1 \in DOMAIN flight
  BY <1>1, <1>3, <1>4, <1>5
<1>7. /\ \E Y : out.results \in Seq(Y)
      /\ \A i \in DOMAIN out.results :
           /\ out.results[i].id \in Reqs
           /\ req[out.results[i].id].status \notin {"none", "grammar"}
      /\ \A i, j \in DOMAIN out.results : out.results[i].id = out.results[j].id => i = j
      /\ \A r \in out.sent : r \in Reqs /\ req[r].status \in Past
      /\ \A x \in out.recv : x.id \in Reqs
  BY <1>6 DEF QueueInv, FlightInv
<1>8. \A i \in DOMAIN out.results : out.results[i].id \in conf.sessions =>
        req[out.results[i].id].status \in {"running"} \cup Past
  BY <1>3, <1>6 DEF Alone, SyncInv
<1>9. /\ RequestInv' /\ ListInv' /\ CountInv' /\ PassInv' /\ GrammarInv' /\ Onward
      /\ Settled(out.results) /\ conf' = conf /\ pass.pc = "idle" /\ pass' = pass
  BY <1>2, <1>7, <1>8, UpdateKeeps
<1>10. /\ flight' \in Seq(X) /\ DOMAIN flight' = 1 .. n - 1
       /\ \A k \in 1 .. n - 1 : k + 1 \in DOMAIN flight /\ flight'[k] = flight[k + 1]
  BY <1>3, <1>4, <1>5
<1>11. FlightInv'
  <2>1. ASSUME NEW k \in DOMAIN flight'
        PROVE  /\ \E Y : flight'[k].results \in Seq(Y)
               /\ \A i \in DOMAIN flight'[k].results :
                    /\ flight'[k].results[i].id \in Reqs
                    /\ req'[flight'[k].results[i].id].status \notin {"none", "grammar"}
               /\ \A i, j \in DOMAIN flight'[k].results :
                    flight'[k].results[i].id = flight'[k].results[j].id => i = j
               /\ \A r \in flight'[k].sent : r \in Reqs /\ req'[r].status \in Past
               /\ \A x \in flight'[k].recv : x.id \in Reqs
    <3>1. PICK l \in DOMAIN flight : flight'[k] = flight[l]
      BY <1>10
    <3> QED BY <1>9, <3>1 DEF QueueInv, FlightInv, Onward
  <2>2. /\ DOMAIN stores' = Reqs
        /\ \A r \in Reqs : stores'[r] # "none" => req'[r].status \in Past
    <3>1. \A r \in Reqs : stores[r] # "none" => req'[r].status \in Past
      BY <1>9 DEF QueueInv, FlightInv, Onward
    <3> QED BY <1>2, <3>1 DEF Stores, Past
  <2> QED BY <1>10, <2>1, <2>2 DEF FlightInv
<1>12. Moved
  <2>1. slots' = slots
    BY DEF Process
  <2>2. /\ \A r \in Released : r \in Released'
        /\ \A r \in Released' : r \in Released \/ req'[r].status # "running"
    BY <1>9 DEF Settled, Released, Past
  <2>3. ASSUME NEW r \in Reqs
        PROVE  Move(r)
    <3>1. CASE req'[r].status = req[r].status
      BY <3>1 DEF Move
    <3>2. CASE req'[r].status \in Past /\ req[r].status \in Past
      BY <3>2 DEF Move, Past
    <3>3. CASE req'[r].status \in Past /\ r \in finishedIds'
      BY <3>3 DEF Move, Past, Released
    <3>4. CASE /\ req[r].status \notin Over /\ req'[r].status \in {"stream", "waiting"}
               /\ r \in conf.sessions /\ \E i \in DOMAIN out.results : out.results[i].id = r
      <4>1. req[r].status = "running"
        BY <1>8, <3>4 DEF Past, Over
      <4> QED BY <3>4, <4>1 DEF Move
    <3> QED BY <1>9, <3>1, <3>2, <3>3, <3>4 DEF Settled
  <2> QED BY <1>9, <2>1, <2>2, <2>3 DEF Moved
<1> QED BY <1>9, <1>11, <1>12 DEF QueueInv
-----------------------------------------------------------------------------
(* The slots of the runner. *)

(* No more requests run or pause between two inputs than the limit says.    *)
CapInv == conf.seqs \in Nat /\ Cardinality(Active(req)) <= conf.seqs

(* A slot that the next step does not release is that of a request that     *)
(* runs, or of a session that pauses or goes on; and a request that runs    *)
(* has its slot, or is new in the step that is being put together.          *)
HoldInv ==
  /\ \A r \in DOMAIN slots :
       /\ r \in Reqs
       /\ \/ r \in Released
          \/ req[r].status \in {"running", "stream"}
          \/ req[r].status = "waiting" /\ r \in conf.sessions
  /\ \A r \in Reqs : req[r].status = "running" =>
       \/ r \in Held
       \/ \E i \in DOMAIN pass.items : pass.items[i].id = r /\ pass.items[i].new

SlotInv == Alone /\ CapInv /\ SyncInv /\ HoldInv

LEMMA SlotsAreEnough ==
  ASSUME QueueInv, SlotInv, IsFiniteSet(Reqs)
  PROVE  SlotsSuffice
<1>1. ASSUME NEW i \in DOMAIN pass.items, ~pass.items[i].new
      PROVE  pass.items[i].id \in Held
  <2>1. PICK R : Lists(running, R) /\ R = {q \in Reqs : req[q].status = "running"}
    BY DEF QueueInv, ListInv, Places
  <2>2. pass.items[i].id \in R
    BY <2>1 DEF QueueInv, PassInv, Lists, ToSet
  <2>3. \A j \in DOMAIN pass.items : pass.items[j].id = pass.items[i].id => j = i
    BY DEF QueueInv, PassInv
  <2> QED BY <1>1, <2>1, <2>2, <2>3 DEF SlotInv, HoldInv
<1>2. Cardinality(Held \ GoingOn) <= conf.seqs
  <2>1. Held \ GoingOn \in SUBSET Active(req)
    BY DEF SlotInv, HoldInv, Held, GoingOn, Active, Released
  <2>2. IsFiniteSet(Active(req))
    BY FS_Subset DEF Active
  <2>3. IsFiniteSet(Held \ GoingOn)
        /\ Cardinality(Held \ GoingOn) <= Cardinality(Active(req))
    BY <2>1, <2>2, FS_Subset
  <2>4. Cardinality(Held \ GoingOn) \in Nat /\ Cardinality(Active(req)) \in Nat
    BY <2>2, <2>3, FS_CardinalityType
  <2> QED BY <2>3, <2>4 DEF SlotInv, CapInv
<1> QED BY <1>1, <1>2 DEF SlotsSuffice

LEMMA MovedKeepsSlots ==
  ASSUME CapInv, HoldInv, IsFiniteSet(Reqs), Moved
  PROVE  CapInv' /\ HoldInv'
<1>1. CapInv'
  <2>1. Active(req') \in SUBSET Active(req)
    BY DEF Moved, Move, Active
  <2>2. IsFiniteSet(Active(req))
    BY FS_Subset DEF Active
  <2>3. /\ IsFiniteSet(Active(req'))
        /\ Cardinality(Active(req')) <= Cardinality(Active(req))
    BY <2>1, <2>2, FS_Subset
  <2>4. Cardinality(Active(req')) \in Nat /\ Cardinality(Active(req)) \in Nat
    BY <2>2, <2>3, FS_CardinalityType
  <2> QED BY <2>3, <2>4 DEF CapInv, Moved
<1>2. ASSUME NEW r \in DOMAIN slots'
      PROVE  /\ r \in Reqs
             /\ \/ r \in Released'
                \/ req'[r].status \in {"running", "stream"}
                \/ req'[r].status = "waiting" /\ r \in conf'.sessions
  <2>1. /\ r \in Reqs
        /\ \/ r \in Released
           \/ req[r].status \in {"running", "stream"}
           \/ req[r].status = "waiting" /\ r \in conf.sessions
    BY DEF HoldInv, Moved
  <2> QED BY <2>1 DEF Moved, Move
<1>3. ASSUME NEW r \in Reqs, req'[r].status = "running"
      PROVE  \/ r \in Held'
             \/ \E i \in DOMAIN pass'.items : pass'.items[i].id = r /\ pass'.items[i].new
  <2>1. req[r].status = "running" /\ (r \in Released' => r \in Released)
    BY <1>3 DEF Moved, Move
  <2>2. CASE r \in Held
    BY <2>1, <2>2 DEF Held, Released, Moved
  <2>3. CASE \E i \in DOMAIN pass.items : pass.items[i].id = r /\ pass.items[i].new
    BY <2>3 DEF Moved
  <2> QED BY <2>1, <2>2, <2>3 DEF HoldInv
<1> QED BY <1>1, <1>2, <1>3 DEF HoldInv

LEMMA SyncKept ==
  ASSUME QueueInv, SyncInv, conf' = conf, flight' = flight,
         conf.concurrent # 1 \/ flight = <<>> \/ (pass' = pass /\ Steady)
  PROVE  SyncInv'
<1>1. CASE conf.concurrent # 1 \/ flight = <<>>
  BY <1>1 DEF SyncInv
<1>2. CASE conf.concurrent = 1 /\ flight # <<>> /\ pass' = pass /\ Steady
  <2>1. /\ pass.pc = "idle" /\ Len(flight) = 1
        /\ \A i \in DOMAIN flight[1].results :
             req[flight[1].results[i].id].status \in {"running"} \cup Past
    BY <1>2 DEF SyncInv
  <2>2. 1 \in DOMAIN flight
    BY <2>1 DEF QueueInv, FlightInv
  <2>3. \A i \in DOMAIN flight[1].results : flight[1].results[i].id \in Reqs
    BY <2>2 DEF QueueInv, FlightInv
  <2> QED BY <1>2, <2>1, <2>3 DEF SyncInv, Steady
<1> QED BY <1>1, <1>2

(* The length of a list, and how many requests run or pause. *)
LEMMA ListLength ==
  ASSUME NEW q, NEW X, Lists(q, X)
  PROVE  IsFiniteSet(X) /\ Cardinality(X) = Len(q) /\ Len(q) \in Nat
<1>1. /\ q \in Seq(Reqs) /\ X = {q[i] : i \in 1 .. Len(q)} /\ Len(q) \in Nat
      /\ \A i, j \in 1 .. Len(q) : q[i] = q[j] => i = j
  BY ListIs
<1>2. PICK n \in Nat : n = Len(q)
  BY <1>1
<1>3. q \in Bijection(1 .. n, X)
  <2>1. q = [i \in 1 .. n |-> q[i]]
    BY <1>1, <1>2
  <2>2. q \in [1 .. n -> X]
    BY <1>1, <1>2, <2>1
  <2> QED BY <1>1, <1>2, <2>2 DEF Bijection, Injection, Surjection, IsInjective
<1>4. ExistsBijection(1 .. n, X)
  BY <1>3 DEF ExistsBijection
<1>5. IsFiniteSet(1 .. n) /\ Cardinality(1 .. n) = n
  BY FS_Interval
<1> QED BY <1>2, <1>4, <1>5, FS_Bijection

LEMMA ActiveAre ==
  ASSUME QueueInv, IsFiniteSet(Reqs)
  PROVE  /\ Len(running) + numStreaming = Cardinality(Active(req))
         /\ Cardinality(Active(req)) \in Nat /\ IsFiniteSet(Active(req))
<1>1. PICK R : Lists(running, R) /\ R = {q \in Reqs : req[q].status = "running"}
  BY DEF QueueInv, ListInv, Places
<1>2. IsFiniteSet(R) /\ Cardinality(R) = Len(running) /\ Len(running) \in Nat
  BY <1>1, ListLength
<1>3. IsFiniteSet(Streams(req)) /\ Cardinality(Streams(req)) \in Nat
  <2>1. Streams(req) \in SUBSET Reqs
    BY DEF Streams
  <2>2. IsFiniteSet(Streams(req))
    BY <2>1, FS_Subset
  <2> QED BY <2>2, FS_CardinalityType
<1>4. Active(req) = R \cup Streams(req) /\ R \cap Streams(req) = {}
  <2>1. Active(req) = {q \in Reqs : req[q].status = "running" \/ req[q].status = "stream"}
    BY DEF Active
  <2>2. Streams(req) = {q \in Reqs : req[q].status = "stream"}
    BY DEF Streams
  <2> QED BY <1>1, <2>1, <2>2
<1>5. /\ IsFiniteSet(R \cup Streams(req))
      /\ Cardinality(R \cup Streams(req)) = Cardinality(R) + Cardinality(Streams(req)) - 0
  <2>1. PICK T : T = Streams(req)
    OBVIOUS
  <2>2. /\ IsFiniteSet(R \cup T)
        /\ Cardinality(R \cup T) = Cardinality(R) + Cardinality(T) - Cardinality(R \cap T)
    BY <1>2, <1>3, <2>1, FS_Union
  <2>3. Cardinality(R \cap T) = 0
    BY <1>4, <2>1, FS_EmptySet
  <2> QED BY <2>1, <2>2, <2>3
<1> QED BY <1>2, <1>3, <1>4, <1>5 DEF QueueInv, CountInv

(* An admission: the guard leaves room for one more. *)
LEMMA AdmitKeepsSlots ==
  ASSUME QueueInv, CapInv, HoldInv, IsFiniteSet(Reqs), Admit, slots' = slots
  PROVE  CapInv' /\ HoldInv' /\ conf' = conf
<1>1. PICK c, a, item :
        /\ c = Candidate /\ a = Admission(c) /\ item = Scheduled(c, a.n, a.specs, TRUE)
  OBVIOUS
<1>2. /\ InWaitingPass /\ Len(running) + numStreaming < conf.seqs
      /\ pass' = [pass EXCEPT !.budget = @ - a.n, !.items = Append(@, item)]
      /\ conf' = conf /\ UNCHANGED <<finishedIds, preemptedIds>>
  BY <1>1 DEF Admit, Admissible, InWaitingPass, ids
<1>3. PICK blocks : req' = [req EXCEPT ![c].status = "running", ![c].blocks = blocks]
  BY <1>1 DEF Admit
<1>4. PICK R, W, S, P :
        /\ Lists(running, R) /\ Lists(waiting, W) /\ Lists(skipped, S) /\ Lists(pass.step, P)
        /\ Places(req, R, W, S, P)
  BY DEF QueueInv, ListInv
<1>5. c \in Reqs
  BY <1>1, <1>2, <1>4, CandidateIs
<1>6. req'[c].status = "running" /\ \A q \in Reqs : q # c => req'[q] = req[q]
  BY <1>3, <1>5, FieldsAre DEF QueueInv, RequestInv
<1>7. CapInv'
  <2>1. Active(req') = Active(req) \cup {c}
    BY <1>5, <1>6 DEF Active
  <2>2. /\ IsFiniteSet(Active(req)) /\ Cardinality(Active(req)) \in Nat
        /\ Cardinality(Active(req)) < conf.seqs
    BY <1>2, ActiveAre
  <2>3. Cardinality(Active(req')) \in {Cardinality(Active(req)), Cardinality(Active(req)) + 1}
    BY <2>1, <2>2, FS_AddElement
  <2> QED BY <1>2, <2>2, <2>3 DEF CapInv
<1>8. /\ \E j \in DOMAIN pass'.items : pass'.items[j].id = c /\ pass'.items[j].new
      /\ \A i \in DOMAIN pass.items : \E j \in DOMAIN pass'.items : pass'.items[j] = pass.items[i]
  <2>1. pass'.items = Append(pass.items, item)
    BY <1>2, FieldsAre DEF QueueInv, PassInv
  <2>2. PICK X : pass.items \in Seq(X)
    BY DEF QueueInv, PassInv
  <2>3. PICK old, new : old = pass.items /\ new = Append(old, item)
    OBVIOUS
  <2>4. PICK m \in Nat : m = Len(old) /\ DOMAIN old = 1 .. m
    BY <2>2, <2>3
  <2>5. /\ DOMAIN new = (1 .. m) \cup {m + 1} /\ new[m + 1] = item
        /\ \A i \in 1 .. m : new[i] = old[i]
    BY <2>2, <2>3, <2>4
  <2>6. item.id = c /\ item.new
    BY <1>1 DEF Scheduled
  <2> QED BY <2>1, <2>3, <2>4, <2>5, <2>6
<1>9. HoldInv'
  <2>1. Held' = Held /\ Released' = Released
    BY <1>2 DEF Held, Released
  <2>2. \A r \in DOMAIN slots :
          /\ r \in Reqs
          /\ \/ r \in Released
             \/ req'[r].status \in {"running", "stream"}
             \/ req'[r].status = "waiting" /\ r \in conf.sessions
    BY <1>6 DEF HoldInv
  <2>3. ASSUME NEW r \in Reqs, req'[r].status = "running"
        PROVE  \/ r \in Held
               \/ \E i \in DOMAIN pass'.items : pass'.items[i].id = r /\ pass'.items[i].new
    <3>1. CASE r = c
      BY <1>8, <3>1
    <3>2. CASE r # c
      BY <1>6, <1>8, <2>3, <3>2 DEF HoldInv
    <3> QED BY <3>1, <3>2
  <2> QED BY <1>2, <2>1, <2>2, <2>3 DEF HoldInv
<1> QED BY <1>2, <1>7, <1>9

LEMMA EmitKeepsSlots ==
  ASSUME QueueInv, SlotInv, Emit
  PROVE  CapInv' /\ HoldInv' /\ SyncInv' /\ conf' = conf
<1>1. PICK out :
        /\ conf' = conf /\ pass' = NoPass
        /\ finishedIds' = {} /\ preemptedIds' = {}
        /\ \A r \in Reqs : req'[r].status = req[r].status
        /\ flight' = Append(flight, out)
        /\ \A i \in DOMAIN out.results : /\ out.results[i].id \in Reqs
                                         /\ req'[out.results[i].id].status = "running"
  BY EmitKeeps
<1>2. CapInv'
  <2>1. Active(req') = Active(req)
    BY <1>1 DEF Active
  <2> QED BY <1>1, <2>1 DEF SlotInv, CapInv
<1>3. HoldInv'
  <2>1. DOMAIN slots' = (DOMAIN slots \ Released)
          \cup {pass.items[i].id : i \in {j \in DOMAIN pass.items : pass.items[j].new}}
    BY SlotsEmitted
  <2>2. Held' = DOMAIN slots'
    BY <1>1 DEF Held
  <2>3. PICK R : Lists(running, R) /\ R = {q \in Reqs : req[q].status = "running"}
    BY DEF QueueInv, ListInv, Places
  <2>4. \A i \in DOMAIN pass.items : pass.items[i].id \in R
    BY <2>3 DEF QueueInv, PassInv, Lists, ToSet
  <2>5. \A r \in DOMAIN slots' :
          /\ r \in Reqs
          /\ \/ req'[r].status \in {"running", "stream"}
             \/ req'[r].status = "waiting" /\ r \in conf.sessions
    BY <1>1, <2>1, <2>3, <2>4 DEF SlotInv, HoldInv
  <2>6. \A r \in Reqs : req'[r].status = "running" => r \in DOMAIN slots'
    BY <1>1, <2>1 DEF SlotInv, HoldInv, Held, Released
  <2> QED BY <1>1, <2>2, <2>5, <2>6 DEF HoldInv
<1>4. SyncInv'
  <2>1. CASE conf.concurrent # 1
    BY <1>1, <2>1 DEF SyncInv
  <2>2. CASE conf.concurrent = 1
    <3>1. flight = <<>>
      BY <2>2 DEF Emit, FinishSchedule, SlotInv, SyncInv
    <3>2. Len(flight') = 1 /\ flight'[1] = out
      BY <1>1, <3>1
    <3>3. pass'.pc = "idle"
      BY <1>1 DEF NoPass
    <3> QED BY <1>1, <3>2, <3>3 DEF SyncInv
  <2> QED BY <2>1, <2>2
<1> QED BY <1>1, <1>2, <1>3, <1>4

LEMMA ProcessKeepsSlots ==
  ASSUME QueueInv, SlotInv, IsFiniteSet(Reqs), Process
  PROVE  CapInv' /\ HoldInv' /\ SyncInv' /\ conf' = conf
<1>1. Moved
  BY ProcessKeeps DEF SlotInv
<1>2. CapInv' /\ HoldInv'
  BY <1>1, MovedKeepsSlots DEF SlotInv
<1>3. SyncInv'
  <2>1. CASE conf.concurrent # 1
    BY <1>1, <2>1 DEF SyncInv, Moved
  <2>2. CASE conf.concurrent = 1
    <3>1. Len(flight) = 1 /\ flight' = Tail(flight)
      BY <2>2 DEF Process, SlotInv, SyncInv
    <3>2. PICK X : flight \in Seq(X)
      BY DEF QueueInv, FlightInv
    <3>3. flight' = <<>>
      BY <3>1, <3>2
    <3> QED BY <3>3 DEF SyncInv
  <2> QED BY <2>1, <2>2
<1> QED BY <1>1, <1>2, <1>3 DEF Moved

-----------------------------------------------------------------------------
(* The engine. *)

LEMMA QueuesKept == QueueInv /\ SlotInv /\ [Next]_vars => QueueInv'
<1> SUFFICES ASSUME QueueInv, SlotInv, [Next]_vars PROVE QueueInv'
  OBVIOUS
<1>1. IsFiniteSet(Reqs)
  BY ReqsAssumption
<1>2. CASE Schedule
  BY <1>2, LookKeeps DEF Schedule
<1>3. CASE Pass
  <2>1. UNCHANGED <<runnerVars, left>> /\ SchedulePass
    BY <1>3 DEF Pass
  <2>2. CASE \/ PassOverRunning \/ RunningDone \/ StopAdmitting
             \/ \E n \in 1 .. MaxModelLen : RefuseLoad(n)
    BY <2>1, <2>2, LookKeeps
  <2>3. CASE ScheduleRunning
    BY <2>1, <2>3, ScheduleRunningKeeps
  <2>4. CASE PreemptLast
    BY <2>1, <2>4, PreemptLastKeeps
  <2>5. CASE SkipWaiting
    BY <2>1, <2>5, SkipWaitingKeeps
  <2>6. CASE Promote
    BY <2>1, <2>6, PromoteKeeps
  <2>7. CASE \E n \in 1 .. MaxModelLen : StartLoad(n)
    BY <2>1, <2>7, StartLoadKeeps
  <2>8. CASE Admit
    BY <2>1, <2>8, AdmitKeeps
  <2> QED BY <2>1, <2>2, <2>3, <2>4, <2>5, <2>6, <2>7, <2>8 DEF SchedulePass
<1>4. CASE Emit
  BY <1>4, EmitKeeps
<1>5. CASE Process
  BY <1>1, <1>5, ProcessKeeps DEF SlotInv
<1>6. CASE Environment
  <2>1. CASE Reset
    BY <2>1, ResetKeeps
  <2>2. CASE \/ Pause \/ Resume \/ \E r \in Reqs : LoadDone(r) \/ StoreDone(r)
    BY <2>2, OutsideKeeps
  <2>3. CASE \E r \in Reqs : Arrive(r)
    BY <2>3, ArriveKeeps
  <2>4. CASE \E r \in Reqs : Compile(r)
    BY <2>4, CompileKeeps
  <2>5. CASE \E r \in Reqs : NextInput(r)
    BY <1>1, <2>5, NextInputKeeps
  <2>6. CASE \E r \in Reqs : \E send \in BOOLEAN : Abort(r, send)
    BY <1>1, <2>6, AbortKeeps
  <2> QED BY <1>6, <2>1, <2>2, <2>3, <2>4, <2>5, <2>6 DEF Environment
<1>7. CASE UNCHANGED vars
  <2>1. UNCHANGED <<conf, req, queues, numStreaming, grammarErrors, flight, stores, pass>>
    BY <1>7 DEF vars, schedVars, ids, runnerVars
  <2>2. DOMAIN stores' = Reqs /\ \A r \in Reqs : stores'[r] # "none" => stores[r] # "none"
    BY <2>1 DEF QueueInv, FlightInv
  <2> QED BY <2>1, <2>2, QuietKeeps
<1> QED BY <1>2, <1>3, <1>4, <1>5, <1>6, <1>7 DEF Next, Loop

(* Sessions, where there are any, run with one batch in flight and without  *)
(* a KV connector.                                                          *)
SessionsAlone ==
  \A c \in Confs : c.seqs \in Nat /\ (c.sessions # {} => c.concurrent = 1 /\ ~c.connector)

LEMMA InitSlots == SessionsAlone /\ EngineInit => SlotInv
<1> SUFFICES ASSUME SessionsAlone, EngineInit PROVE SlotInv
  OBVIOUS
<1>1. /\ conf \in Confs /\ req = [r \in Reqs |-> NewRequest(r)]
      /\ slots = <<>> /\ flight = <<>>
  BY DEF EngineInit, Init
<1>2. Alone /\ conf.seqs \in Nat
  BY <1>1 DEF SessionsAlone, Alone
<1>3. \A r \in Reqs : req[r].status = "none"
  BY <1>1 DEF NewRequest
<1>4. Active(req) = {}
  BY <1>3 DEF Active
<1>5. CapInv
  BY <1>2, <1>4, FS_EmptySet DEF CapInv
<1>6. HoldInv
  BY <1>1, <1>3 DEF HoldInv
<1> QED BY <1>1, <1>2, <1>5, <1>6 DEF SlotInv, SyncInv

LEMMA SlotsKept == QueueInv /\ SlotInv /\ [Next]_vars => SlotInv'
<1> SUFFICES ASSUME QueueInv, SlotInv, [Next]_vars PROVE SlotInv'
  OBVIOUS
<1>1. IsFiniteSet(Reqs) /\ Alone /\ CapInv /\ SyncInv /\ HoldInv
  BY ReqsAssumption DEF SlotInv
<1>2. conf' = conf /\ CapInv' /\ HoldInv' /\ SyncInv' => SlotInv'
  BY <1>1 DEF SlotInv, Alone
<1>3. ASSUME Moved, flight' = flight,
             conf.concurrent # 1 \/ flight = <<>> \/ (pass' = pass /\ Steady)
      PROVE  SlotInv'
  <2>1. conf' = conf
    BY <1>3 DEF Moved
  <2> QED BY <1>1, <1>2, <1>3, <2>1, MovedKeepsSlots, SyncKept
<1>4. CASE Schedule
  <2>1. Moved /\ flight' = flight /\ Len(flight) < conf.concurrent
    BY <1>4, LookKeeps DEF Schedule, runnerVars
  <2>2. PICK X : flight \in Seq(X)
    BY DEF QueueInv, FlightInv
  <2>3. conf.concurrent = 1 => flight = <<>>
    BY <2>1, <2>2
  <2> QED BY <1>3, <2>1, <2>3
<1>5. CASE Pass
  <2>1. UNCHANGED <<runnerVars, left>> /\ SchedulePass /\ flight' = flight /\ slots' = slots
    BY <1>5 DEF Pass, runnerVars
  <2>2. pass.pc # "idle"
    BY <2>1 DEF SchedulePass, PassOverRunning, ScheduleRunning, PreemptLast, RunningDone,
                SkipWaiting, Promote, Admit, StopAdmitting, StartLoad, RefuseLoad, MayLoad,
                Admissible, InRunningPass, InWaitingPass
  <2>3. conf.concurrent # 1 \/ flight = <<>>
    BY <1>1, <2>2 DEF SyncInv
  <2>4. CASE Admit
    <3>1. CapInv' /\ HoldInv' /\ conf' = conf
      BY <1>1, <2>1, <2>4, AdmitKeepsSlots
    <3>2. SyncInv'
      BY <1>1, <2>1, <2>3, <3>1, SyncKept
    <3> QED BY <1>2, <3>1, <3>2
  <2>5. CASE ~Admit
    <3>1. CASE \/ PassOverRunning \/ RunningDone \/ StopAdmitting
               \/ \E n \in 1 .. MaxModelLen : RefuseLoad(n)
      BY <1>3, <2>1, <2>3, <3>1, LookKeeps
    <3>2. CASE ScheduleRunning
      BY <1>3, <2>1, <2>3, <3>2, ScheduleRunningKeeps
    <3>3. CASE PreemptLast
      BY <1>3, <2>1, <2>3, <3>3, PreemptLastKeeps
    <3>4. CASE SkipWaiting
      BY <1>3, <2>1, <2>3, <3>4, SkipWaitingKeeps
    <3>5. CASE Promote
      BY <1>3, <2>1, <2>3, <3>5, PromoteKeeps
    <3>6. CASE \E n \in 1 .. MaxModelLen : StartLoad(n)
      BY <1>1, <1>3, <2>1, <2>3, <3>6, StartLoadKeeps
    <3> QED BY <2>1, <2>5, <3>1, <3>2, <3>3, <3>4, <3>5, <3>6 DEF SchedulePass
  <2> QED BY <2>4, <2>5
<1>6. CASE Emit
  BY <1>2, <1>6, EmitKeepsSlots
<1>7. CASE Process
  BY <1>1, <1>2, <1>7, ProcessKeepsSlots
<1>8. CASE Environment
  <2>1. CASE Reset
    <3>1. Moved /\ flight' = flight /\ (conf.concurrent # 1 \/ flight = <<>>)
      BY <2>1, ResetKeeps DEF Reset, runnerVars, BetweenSteps, Async
    <3> QED BY <1>3, <3>1
  <2>2. CASE \/ Pause \/ Resume \/ \E r \in Reqs : LoadDone(r) \/ StoreDone(r)
    <3>1. flight' = flight /\ pass' = pass
      BY <2>2 DEF Pause, Resume, SetPauseState, LoadDone, StoreDone, schedVars, runnerVars
    <3> QED BY <1>3, <2>2, <3>1, OutsideKeeps
  <2>3. CASE \E r \in Reqs : Arrive(r)
    <3>1. flight' = flight /\ pass' = pass
      BY <2>3 DEF Arrive, AddRequest, runnerVars
    <3> QED BY <1>3, <2>3, <3>1, ArriveKeeps
  <2>4. CASE \E r \in Reqs : Compile(r)
    <3>1. flight' = flight /\ pass' = pass
      BY <2>4 DEF Compile, GrammarCompiled, runnerVars
    <3> QED BY <1>3, <2>4, <3>1, CompileKeeps
  <2>5. CASE \E r \in Reqs : NextInput(r)
    <3>1. flight' = flight /\ (conf.concurrent # 1 \/ flight = <<>>)
      BY <2>5 DEF NextInput, runnerVars, BetweenSteps, Async
    <3> QED BY <1>1, <1>3, <2>5, <3>1, NextInputKeeps
  <2>6. CASE \E r \in Reqs : \E send \in BOOLEAN : Abort(r, send)
    <3>1. flight' = flight /\ pass' = pass
      BY <2>6 DEF Abort, FinishRequests
    <3> QED BY <1>1, <1>3, <2>6, <3>1, AbortKeeps
  <2> QED BY <1>8, <2>1, <2>2, <2>3, <2>4, <2>5, <2>6 DEF Environment
<1>9. CASE UNCHANGED vars
  <2>1. UNCHANGED <<conf, req, finishedIds, preemptedIds, pass, flight, slots>>
    BY <1>9 DEF vars, schedVars, ids, runnerVars
  <2>2. Moved /\ Steady
    BY <2>1 DEF Moved, Move, Released, Steady
  <2> QED BY <1>3, <2>1, <2>2
<1> QED BY <1>4, <1>5, <1>6, <1>7, <1>8, <1>9 DEF Next, Loop

(* A request is in exactly one queue until it is over, in the one its       *)
(* status names, and the counter of paused sessions is right, for any       *)
(* requests and limits, whatever is preempted, aborted, reset or fails      *)
(* meanwhile. It takes SessionsAlone: with two batches in flight a session  *)
(* that is stopped after it was preempted drops out of the queues.          *)
THEOREM OneQueueCorrect ==
  ASSUME SessionsAlone
  PROVE  Spec => []OneQueue
<1>1. EngineInit => QueueInv /\ SlotInv
  BY InitQueues, InitSlots
<1>2. QueueInv /\ SlotInv /\ [Next]_vars => (QueueInv /\ SlotInv)'
  BY QueuesKept, SlotsKept
<1>3. QueueInv => OneQueue
  BY QueueInvIsOneQueue
<1> QED BY <1>1, <1>2, <1>3, PTL DEF Spec

(* The runner has a slot for every request of the step, and but for the     *)
(* sessions that go on never more of them in use than max_num_seqs, paused  *)
(* sessions included, for any requests and limits.                          *)
THEOREM SlotsSufficeCorrect ==
  ASSUME SessionsAlone
  PROVE  Spec => []SlotsSuffice
<1>1. EngineInit => QueueInv /\ SlotInv
  BY InitQueues, InitSlots
<1>2. QueueInv /\ SlotInv /\ [Next]_vars => (QueueInv /\ SlotInv)'
  BY QueuesKept, SlotsKept
<1>3. QueueInv /\ SlotInv => SlotsSuffice
  BY SlotsAreEnough, ReqsAssumption
<1> QED BY <1>1, <1>2, <1>3, PTL DEF Spec
-----------------------------------------------------------------------------
(* What the splits of a prefill promise for every configuration and every  *)
(* request: a chunk never grows, it ends where the recurrent state can be  *)
(* saved, it runs past no mandatory stop, and it is not cut to nothing.    *)

Configs ==
    [block : Nat \ {0}, hash : Nat \ {0}, partial : BOOLEAN, eagle : BOOLEAN,
     maxTokens : Nat, long : Nat, lookahead : Nat]
Requests == [prompt : Nat, tokens : Nat, shared : Nat]

Aligned(e, size) == \E k \in Int : e = k * size

-----------------------------------------------------------------------------
(* Integers. *)

LEMMA DivFact ==
  ASSUME NEW n \in Int, NEW b \in Nat \ {0}
  PROVE  /\ n \div b \in Int
         /\ FloorTo(n, b) \in Int
         /\ FloorTo(n, b) <= n
         /\ n < FloorTo(n, b) + b
BY DEF FloorTo

LEMMA AlignedFloor ==
  ASSUME NEW n \in Int, NEW b \in Nat \ {0}
  PROVE  Aligned(FloorTo(n, b), b)
<1> n \div b \in Int
  BY DivFact
<1> QED
  BY DEF Aligned, FloorTo

LEMMA AlignedSum ==
  ASSUME NEW x \in Int, NEW y \in Int, NEW b \in Nat \ {0},
         Aligned(x, b), Aligned(y, b)
  PROVE  Aligned(x + y, b)
<1>1. PICK k \in Int : x = k * b
  BY DEF Aligned
<1>2. PICK l \in Int : y = l * b
  BY DEF Aligned
<1>3. (k + l) * b = k * b + l * b
  OBVIOUS
<1>4. k + l \in Int /\ x + y = (k + l) * b
  BY <1>1, <1>2, <1>3
<1> QED
  BY <1>4 DEF Aligned

LEMMA AlignedNeighbours ==
  ASSUME NEW x \in Int, NEW b \in Nat \ {0}, Aligned(x, b)
  PROVE  Aligned(x + b, b) /\ Aligned(x - b, b)
<1>1. PICK k \in Int : x = k * b
  BY DEF Aligned
<1>2. (k + 1) * b = k * b + b /\ (k - 1) * b = k * b - b
  OBVIOUS
<1>3. /\ k + 1 \in Int /\ x + b = (k + 1) * b
      /\ k - 1 \in Int /\ x - b = (k - 1) * b
  BY <1>1, <1>2
<1> QED
  BY <1>3 DEF Aligned

LEMMA PositiveMultiple ==
  ASSUME NEW x \in Int, NEW b \in Nat \ {0}, Aligned(x, b), x > 0
  PROVE  x >= b
<1>1. PICK m \in Int : x = m * b
  BY DEF Aligned
<1>2. m <= 0 => m * b <= 0
  OBVIOUS
<1>3. m >= 1
  BY <1>1, <1>2
<1>4. m >= 1 => m * b >= b
  OBVIOUS
<1> QED BY <1>1, <1>3, <1>4

LEMMA AlignedZeroMod ==
  ASSUME NEW n \in Int, NEW b \in Nat \ {0}, n % b = 0
  PROVE  Aligned(n, b)
<1>1. n = (n \div b) * b /\ n \div b \in Int
  OBVIOUS
<1> QED
  BY <1>1 DEF Aligned

-----------------------------------------------------------------------------
(* Chunks. *)

LEMMA SplitTypes ==
  ASSUME NEW c \in Configs, NEW q \in Requests, NEW start \in Nat, NEW n \in Nat
  PROVE  /\ PrefillEnd(q) \in Int
         /\ LastCachePosition(c, q) \in Int
         /\ Aligned(LastCachePosition(c, q), c.block)
         /\ WidestChunk(c) \in Int
         /\ AlignedEnd(c, q, start, n) \in Int
         /\ AlignedEnd(c, q, start, n) <= start + n
<1> USE DEF Configs, Requests
<1>1. c.block \in Nat \ {0} /\ c.block \in Int
  OBVIOUS
<1>2. PrefillEnd(q) \in Int
  BY MaxOfTwo DEF PrefillEnd
<1>3. LastCachePosition(c, q) \in Int /\ Aligned(LastCachePosition(c, q), c.block)
  <2> DEFINE last == FloorTo(q.tokens, c.block)
  <2>1. last \in Int /\ Aligned(last, c.block)
    <3>1. q.tokens \in Int
      OBVIOUS
    <3> QED BY <1>1, <3>1, DivFact, AlignedFloor
  <2> HIDE DEF last
  <2>2. last - c.block \in Int /\ Aligned(last - c.block, c.block)
    BY <1>1, <2>1, AlignedNeighbours
  <2>3. Aligned(0, c.block)
    <3>1. 0 = 0 * c.block
      OBVIOUS
    <3> QED BY <3>1 DEF Aligned
  <2>4. Max({last - c.block, 0}) \in {last - c.block, 0}
    BY <2>2, MaxOfTwo
  <2> QED BY <2>1, <2>2, <2>3, <2>4 DEF LastCachePosition, last
<1>4. WidestChunk(c) \in Int
  BY MinOfTwo DEF WidestChunk
<1>5. /\ AlignedEnd(c, q, start, n) \in Int
      /\ AlignedEnd(c, q, start, n) <= start + n
  <2>1. FloorTo(start + n, c.block) \in Int /\ FloorTo(start + n, c.block) <= start + n
    <3>1. start + n \in Int
      OBVIOUS
    <3> QED BY <1>1, <3>1, DivFact
  <2> QED BY <2>1 DEF AlignedEnd
<1> QED BY <1>2, <1>3, <1>4, <1>5

LEMMA LastIsNat ==
  ASSUME NEW c \in Configs, NEW q \in Requests
  PROVE  LastCachePosition(c, q) \in Nat
<1> DEFINE last == FloorTo(q.tokens, c.block)
<1>1. c.block \in Nat \ {0} /\ q.tokens \in Nat
  BY DEF Configs, Requests
<1>2. last \in Nat
  <2>1. q.tokens \div c.block \in Nat
    BY <1>1
  <2>2. (q.tokens \div c.block) * c.block \in Nat
    BY <1>1, <2>1
  <2> QED BY <2>2 DEF FloorTo
<1> HIDE DEF last
<1>3. Max({last - c.block, 0}) \in Nat
  BY <1>1, <1>2, MaxOfTwo
<1> QED BY <1>2, <1>3 DEF LastCachePosition, last

(* The stops a chunk from start to end would run past. *)
Inside(c, q, start, end) == {s \in Stops(c, q, start, end) : start < s /\ s < end}

LEMMA StopTypes ==
  ASSUME NEW c \in Configs, NEW q \in Requests, NEW start \in Nat, NEW end \in Int
  PROVE  /\ Stops(c, q, start, end) \in SUBSET Int
         /\ Inside(c, q, start, end) \in SUBSET Nat
<1> USE DEF Configs, Requests
<1>1. LastCachePosition(c, q) \in Int
  BY SplitTypes
<1>2. c.block \in Nat \ {0} /\ c.block \in Int /\ start \in Int
  OBVIOUS
<1>3. FloorTo(start, c.block) + c.block \in Int
  <2>1. FloorTo(start, c.block) \in Int
    BY <1>2, DivFact
  <2> QED BY <2>1, <1>2
<1>4. FloorTo(q.prompt, c.hash) \in Int
  <2>1. q.prompt \in Int /\ c.hash \in Nat \ {0}
    OBVIOUS
  <2> QED BY <2>1, DivFact
<1>5. start + FloorTo(q.shared - start, c.block) \in Int
  <2>1. q.shared - start \in Int
    OBVIOUS
  <2>2. FloorTo(q.shared - start, c.block) \in Int
    BY <1>2, <2>1, DivFact
  <2> QED BY <2>2
<1>6. Stops(c, q, start, end) \in SUBSET Int
  BY <1>1, <1>3, <1>4, <1>5 DEF Stops
<1> QED BY <1>6 DEF Inside

(* The two ways a chunk of a prefill ends. *)
LEMMA SplitCases ==
  ASSUME NEW c \in Configs, NEW q \in Requests, NEW start \in Nat, NEW n \in Nat,
         start < PrefillEnd(q),
         NEW end, end = AlignedEnd(c, q, start, n)
  PROVE  LET inside == Inside(c, q, start, end)
             k == MambaBlockAlignedSplit(c, q, start, n)
         IN  \/ /\ inside = {}
                /\ k = IF end >= start THEN end - start ELSE 0
             \/ /\ start + k \in inside
                /\ k \in Nat
                /\ \A s \in inside : start + k <= s
<1> DEFINE inside == Inside(c, q, start, end)
           k == MambaBlockAlignedSplit(c, q, start, n)
<1>1. end \in Int /\ PrefillEnd(q) \in Int
  BY SplitTypes
<1>2. inside \in SUBSET Nat
  BY <1>1, StopTypes
<1>3. k = Max({(IF inside = {} THEN end ELSE Min(inside)) - start, 0})
  BY <1>1 DEF MambaBlockAlignedSplit, Inside
<1>4. CASE inside = {}
  <2>1. k = Max({end - start, 0})
    BY <1>3, <1>4
  <2>2. end - start \in Int
    BY <1>1
  <2>3. k = IF end - start >= 0 THEN end - start ELSE 0
    BY <2>1, <2>2, MaxOfTwo
  <2>4. k = IF end >= start THEN end - start ELSE 0
    BY <1>1, <2>3
  <2> QED BY <1>4, <2>4
<1>5. CASE inside # {}
  <2>1. Min(inside) \in inside /\ \A s \in inside : Min(inside) <= s
    BY <1>2, <1>5, MinFact
  <2>2. Min(inside) \in Nat /\ start < Min(inside)
    BY <1>2, <2>1 DEF Inside
  <2>3. Min(inside) - start \in Int /\ Min(inside) - start >= 0
    BY <2>2
  <2>4. k = Max({Min(inside) - start, 0})
    BY <1>3, <1>5
  <2>5. k = Min(inside) - start
    BY <2>3, <2>4, MaxOfTwo
  <2>6. k \in Nat /\ start + k = Min(inside)
    BY <2>2, <2>5
  <2> QED BY <2>1, <2>6
<1> HIDE DEF inside, k
<1> QED BY <1>4, <1>5 DEF inside, k

-----------------------------------------------------------------------------
(* A split gives a request a part of the chunk the budget allows and never *)
(* more (scheduler.py 382-457: end only ever moves down).                  *)
THEOREM SplitBounds ==
  ASSUME NEW c \in Configs, NEW q \in Requests, NEW start \in Nat, NEW n \in Nat
  PROVE  MambaBlockAlignedSplit(c, q, start, n) \in 0 .. n
<1> DEFINE k == MambaBlockAlignedSplit(c, q, start, n)
           end == AlignedEnd(c, q, start, n)
           inside == Inside(c, q, start, end)
<1>1. CASE start >= PrefillEnd(q)
  BY <1>1 DEF MambaBlockAlignedSplit
<1>2. CASE ~ (start >= PrefillEnd(q))
  <2>1. /\ PrefillEnd(q) \in Int
        /\ end \in Int
        /\ end <= start + n
    BY SplitTypes
  <2>2. start < PrefillEnd(q)
    BY <1>2, <2>1
  <2>3. \/ k = IF end >= start THEN end - start ELSE 0
        \/ start + k \in inside /\ k \in Nat
    BY <2>2, SplitCases
  <2>4. start + k \in inside => start + k < end
    BY DEF Inside
  <2> HIDE DEF k, end, inside
  <2>5. k \in 0 .. n
    BY <2>1, <2>3, <2>4
  <2> QED BY <2>5 DEF k
<1> QED BY <1>1, <1>2

(* A chunk of a prefill runs past no mandatory position: the next block    *)
(* boundary, the last cacheable one, the partial tail and the junction     *)
(* with a shared prefix all lie at its end or beyond (431-456).            *)
THEOREM NoStopCrossed ==
  ASSUME NEW c \in Configs, NEW q \in Requests, NEW start \in Nat, NEW n \in Nat,
         start < PrefillEnd(q),
         NEW s \in Stops(c, q, start, AlignedEnd(c, q, start, n)), start < s
  PROVE  start + MambaBlockAlignedSplit(c, q, start, n) <= s
<1> DEFINE k == MambaBlockAlignedSplit(c, q, start, n)
           end == AlignedEnd(c, q, start, n)
           inside == Inside(c, q, start, end)
<1>1. end \in Int
  BY SplitTypes
<1>2. s \in Int
  BY <1>1, StopTypes
<1>3. \/ inside = {} /\ k = IF end >= start THEN end - start ELSE 0
      \/ start + k \in inside /\ k \in Nat /\ \A x \in inside : start + k <= x
  BY SplitCases
<1>4. s < end => s \in inside
  BY DEF Inside
<1>5. start + k \in inside => start + k < end
  BY DEF Inside
<1> HIDE DEF k, end, inside
<1>6. start + k <= s
  BY <1>1, <1>2, <1>3, <1>4, <1>5
<1> QED BY <1>6 DEF k

(* Where a stop inside the chunk lies: a block boundary or the partial     *)
(* tail.  The junction is counted in blocks from the start of the chunk;   *)
(* when that start is inside a block the next boundary comes before it.    *)
LEMMA FirstStop ==
  ASSUME NEW c \in Configs, NEW q \in Requests, NEW start \in Nat, NEW end \in Int,
         NEW e \in Inside(c, q, start, end),
         \A s \in Inside(c, q, start, end) : e <= s
  PROVE  Aligned(e, c.block) \/ e = FloorTo(q.prompt, c.hash)
<1>1. c.block \in Nat \ {0} /\ c.block \in Int /\ start \in Int
  BY DEF Configs
<1> DEFINE next == FloorTo(start, c.block) + c.block
           junction == start + FloorTo(q.shared - start, c.block)
           tail == FloorTo(q.prompt, c.hash)
<1>2. e \in Int /\ start < e /\ e < end
  BY StopTypes DEF Inside
<1>3. e \in Stops(c, q, start, end)
  BY DEF Inside
<1>4. /\ FloorTo(start, c.block) \in Int
      /\ FloorTo(start, c.block) <= start
      /\ start < next
      /\ next \in Int
      /\ next <= start + c.block
  <2>1. /\ FloorTo(start, c.block) \in Int
        /\ FloorTo(start, c.block) <= start
        /\ start < FloorTo(start, c.block) + c.block
    BY <1>1, DivFact
  <2> QED BY <2>1, <1>1
<1>5. Aligned(next, c.block)
  <2>1. Aligned(FloorTo(start, c.block), c.block)
    BY <1>1, AlignedFloor
  <2> QED BY <1>1, <1>4, <2>1, AlignedNeighbours
<1>6. q.shared - start \in Int
  BY DEF Requests
<1>7. CASE e = next
  BY <1>5, <1>7
<1>8. CASE e = LastCachePosition(c, q)
  <2>1. Aligned(LastCachePosition(c, q), c.block)
    BY SplitTypes
  <2> QED BY <2>1, <1>8
<1>9. CASE e = tail
  BY <1>9
<1>10. CASE e = junction
  <2> DEFINE step == FloorTo(q.shared - start, c.block)
  <2>1. step \in Int /\ Aligned(step, c.block)
    BY <1>1, <1>6, DivFact, AlignedFloor
  <2>2. e = start + step
    BY <1>10
  <2> HIDE DEF step
  <2>3. CASE start % c.block = 0
    <3>1. Aligned(start, c.block)
      BY <1>1, <2>3, AlignedZeroMod
    <3>2. Aligned(start + step, c.block)
      BY <1>1, <2>1, <3>1, AlignedSum
    <3> QED BY <3>2, <2>2
  <2>4. CASE start % c.block # 0
    <3>1. step > 0
      BY <1>2, <2>2, <2>1, <1>1
    <3>2. step >= c.block
      BY <1>1, <2>1, <3>1, PositiveMultiple
    <3>3. next <= e
      BY <1>4, <2>2, <2>1, <3>2, <1>1
    <3>4. next \in Stops(c, q, start, end)
      BY <2>4 DEF Stops
    <3>5. next \in Inside(c, q, start, end)
      BY <1>2, <1>4, <3>3, <3>4 DEF Inside
    <3>6. e <= next
      BY <3>5
    <3>7. e = next
      BY <1>2, <1>4, <3>3, <3>6
    <3> QED BY <1>5, <3>7
  <2> QED BY <2>3, <2>4
<1>11. e = next \/ e = LastCachePosition(c, q) \/ e = tail \/ e = junction
  <2> DEFINE cached == LastCachePosition(c, q)
             partial == IF c.partial THEN tail ELSE 0
  <2>1. cached >= 0 /\ cached \in Int
    BY SplitTypes, LastIsNat
  <2>2. e = next \/ e = cached \/ (e = partial /\ cached < partial) \/ e = junction
    BY <1>3 DEF Stops
  <2>3. partial = tail \/ partial = 0
    OBVIOUS
  <2> HIDE DEF next, junction, tail, cached, partial
  <2>4. e = next \/ e = cached \/ e = tail \/ e = junction
    BY <2>1, <2>2, <2>3
  <2> QED BY <2>4 DEF cached
<1> HIDE DEF next, junction, tail
<1> QED BY <1>7, <1>8, <1>9, <1>10, <1>11 DEF tail

(* "State is written at chunk ends, so chunk ends must be block aligned"   *)
(* (416-420): a chunk that is not empty ends at a block boundary, at the   *)
(* partial tail of the prompt or with the prefill.  The exemption is a     *)
(* block wider than the longest chunk.                                     *)
THEOREM ChunkEndsWhereStateIsSaved ==
  ASSUME NEW c \in Configs, NEW q \in Requests, NEW start \in Nat, NEW n \in Nat,
         start < PrefillEnd(q), c.block <= WidestChunk(c),
         MambaBlockAlignedSplit(c, q, start, n) > 0
  PROVE  LET e == start + MambaBlockAlignedSplit(c, q, start, n)
         IN  \/ Aligned(e, c.block)
             \/ e = FloorTo(q.prompt, c.hash)
             \/ e >= PrefillEnd(q)
<1> DEFINE k == MambaBlockAlignedSplit(c, q, start, n)
           end == AlignedEnd(c, q, start, n)
           inside == Inside(c, q, start, end)
<1>1. end \in Int /\ PrefillEnd(q) \in Int
  BY SplitTypes
<1>2. \/ inside = {} /\ k = IF end >= start THEN end - start ELSE 0
      \/ start + k \in inside /\ k \in Nat /\ \A x \in inside : start + k <= x
  BY SplitCases
<1>3. CASE start + k \in inside /\ \A x \in inside : start + k <= x
  BY <1>1, <1>3, FirstStop
<1>4. CASE inside = {} /\ k = IF end >= start THEN end - start ELSE 0
  <2>1. start + k = end
    <3> HIDE DEF k, end
    <3>1. k > 0
      BY DEF k
    <3> QED BY <3>1, <1>1, <1>4
  <2>2. CASE start + n < PrefillEnd(q)
    <3>1. end = FloorTo(start + n, c.block)
      BY <2>2 DEF AlignedEnd
    <3>2. c.block \in Nat \ {0} /\ start + n \in Int
      BY DEF Configs
    <3>3. Aligned(end, c.block)
      BY <3>1, <3>2, AlignedFloor
    <3> QED BY <3>3, <2>1
  <2>3. CASE ~ (start + n < PrefillEnd(q))
    <3>1. end = start + n
      BY <2>3 DEF AlignedEnd
    <3>2. end >= PrefillEnd(q)
      BY <3>1, <2>3, <1>1
    <3> QED BY <3>2, <2>1
  <2> QED BY <2>2, <2>3
<1> QED BY <1>2, <1>3, <1>4

(* The split never blocks a prefill: it leaves something of a chunk that   *)
(* reaches the end of the prefill, holds a block boundary beyond its       *)
(* start, or belongs to a block wider than any chunk (423-429).            *)
THEOREM SplitProgress ==
  ASSUME NEW c \in Configs, NEW q \in Requests, NEW start \in Nat, NEW n \in Nat \ {0},
         \/ start + n >= PrefillEnd(q)
         \/ FloorTo(start + n, c.block) > start
         \/ c.block > WidestChunk(c)
  PROVE  MambaBlockAlignedSplit(c, q, start, n) > 0
<1> DEFINE k == MambaBlockAlignedSplit(c, q, start, n)
           end == AlignedEnd(c, q, start, n)
           inside == Inside(c, q, start, end)
<1>1. PrefillEnd(q) \in Int
  BY SplitTypes
<1>2. CASE start >= PrefillEnd(q)
  BY <1>2 DEF MambaBlockAlignedSplit
<1>3. CASE start < PrefillEnd(q)
  <2>1. end \in Int
    BY SplitTypes
  <2>2. end > start
    <3>1. c.block \in Int /\ WidestChunk(c) \in Int
      BY SplitTypes DEF Configs
    <3>2. CASE end = start + n
      BY <3>2
    <3>3. CASE end # start + n
      <4>1. /\ end = FloorTo(start + n, c.block)
            /\ start + n < PrefillEnd(q)
            /\ FloorTo(start + n, c.block) > start \/ c.block <= WidestChunk(c)
        BY <3>3 DEF AlignedEnd
      <4>2. FloorTo(start + n, c.block) > start
        BY <4>1, <3>1, <1>1
      <4> QED BY <4>1, <4>2
    <3> QED BY <3>2, <3>3
  <2>3. \/ k = IF end >= start THEN end - start ELSE 0
        \/ start + k \in inside /\ k \in Nat
    BY <1>3, SplitCases
  <2>4. start + k \in inside => start < start + k
    BY DEF Inside
  <2> HIDE DEF k, end, inside
  <2>5. k > 0
    BY <2>1, <2>2, <2>3, <2>4
  <2> QED BY <2>5 DEF k
<1> QED BY <1>1, <1>2, <1>3

(* "Either finish the prefill or leave at least num_prefill_lookahead for  *)
(* the next chunk" (471-490); with a lookahead of one it changes nothing.  *)
THEOREM LookaheadIsKept ==
  ASSUME NEW c \in Configs, NEW q \in Requests, NEW computed \in Nat, NEW n \in Nat
  PROVE  LET k == ReserveLookahead(c, q, computed, n)
             rest == q.tokens - computed - k
         IN  /\ k \in 0 .. n
             /\ k > 0 => rest <= 0 \/ rest >= c.lookahead
             /\ c.lookahead <= 1 => k = n
<1> DEFINE remaining == q.tokens - computed - n
           cut == IF 0 < remaining /\ remaining < c.lookahead
                    THEN n - (c.lookahead - remaining) ELSE n
           k == ReserveLookahead(c, q, computed, n)
<1>1. q.tokens \in Nat /\ c.lookahead \in Nat
  BY DEF Requests, Configs
<1>2. remaining \in Int /\ cut \in Int
  BY <1>1
<1>3. k = Max({cut, 0})
  BY DEF ReserveLookahead
<1>4. k = IF cut >= 0 THEN cut ELSE 0
  BY <1>2, <1>3, MaxOfTwo
<1> HIDE DEF k
<1>5. /\ k \in 0 .. n
      /\ k > 0 => q.tokens - computed - k <= 0 \/ q.tokens - computed - k >= c.lookahead
      /\ c.lookahead <= 1 => k = n
  BY <1>1, <1>4
<1> QED BY <1>5 DEF k

-----------------------------------------------------------------------------
(* The KV blocks: what the counters, the steps in flight, the transfers and *)
(* the fences of the deferred frees have to agree on.                      *)

(* The numbers of a request are numbers. *)
Numbers(q) ==
  /\ q.prompt \in Int /\ q.tokens \in Int /\ q.computed \in Int
  /\ q.inFlight \in Int /\ q.stale \in Int /\ q.placeholders \in Int
  /\ q.specs \in Int /\ q.lastSeq \in Int
  /\ q.blocks \in Seq(1 .. NumBlocks)

(* So are those of the step being put together, and of the steps in flight; *)
(* every item of a step has tokens.                                         *)
ItemInv ==
  /\ pass.budget \in Int
  /\ \A i \in DOMAIN pass.items : pass.items[i].n \in Nat \ {0} /\ pass.items[i].specs \in Nat
SentInv ==
  \A k \in DOMAIN flight :
    /\ \A i \in DOMAIN flight[k].results :
         LET x == flight[k].results[i]
         IN  x.n \in Nat \ {0} /\ x.specs \in Nat /\ x.gen \in 0 .. 1 + x.specs
    /\ \A x \in flight[k].recv : x.valid \in Int
NumInv ==
  /\ \A r \in Reqs : Numbers(req[r])
  /\ ItemInv /\ SentInv
  /\ \A r \in Reqs : loads[r].valid \in Int
  /\ inflightPrefills \in SUBSET Reqs

(* The tokens of r in the k-th step in flight. *)
Share(k, r) == IF k \in DOMAIN flight THEN ResultIn(k, r).n ELSE 0

(* The tokens in flight are those of the results, and all of them are stale *)
(* while the request does not run.                                          *)
ShareInv ==
  /\ conf \in Confs
  /\ Len(flight) <= conf.concurrent
  /\ pass.pc # "idle" => Len(flight) < conf.concurrent
  /\ \A r \in Reqs :
       /\ req[r].status # "gone" => req[r].inFlight = Share(1, r) + Share(2, r)
       /\ conf.sessions = {} /\ req[r].status \notin {"running"} \cup Past
             => req[r].stale = req[r].inFlight
       /\ req[r].status = "remote" /\ req[r].stale > 0 => req[r].drop

(* Where the load and the store of a request are. *)
RecvBy(k) == {x.id : x \in flight[k].recv}
Loading(r) ==
  \/ r \in pass.loads \/ loads[r].st # "none"
  \/ \E k \in DOMAIN flight : r \in RecvBy(k)
Storing(r) == stores[r] # "none" \/ \E k \in DOMAIN flight : r \in flight[k].sent

TransferInv ==
  /\ DOMAIN loads = Reqs /\ pass.loads \in SUBSET Reqs
  /\ pass.pc = "idle" => pass.loads = {}
  /\ finishedRecv \in SUBSET {r \in Reqs : req[r].status = "remote"}
  /\ \A r \in Reqs :
       /\ r \in pass.loads => loads[r].st = "none"
       /\ r \in pass.loads \/ loads[r].st # "none" => \A k \in DOMAIN flight : r \notin RecvBy(k)
       /\ stores[r] # "none" => \A k \in DOMAIN flight : r \notin flight[k].sent
       /\ \A j, k \in DOMAIN flight : j # k =>
            /\ r \notin RecvBy(j) \cap RecvBy(k)
            /\ r \notin flight[j].sent \cap flight[k].sent
       /\ ~(Loading(r) /\ Storing(r))
       /\ Loading(r) => req[r].status \in {"remote", "finished"} /\ r \notin finishedRecv
       /\ Storing(r) => req[r].status = "finished"
       /\ ~conf.connector => ~Loading(r) /\ ~Storing(r) /\ req[r].status # "remote"
  /\ \A k \in DOMAIN flight : \A x, y \in flight[k].recv : x.id = y.id => x = y

(* The steps with results among the first k in flight. *)
Steps(k) ==
  (IF k >= 1 /\ 1 \in DOMAIN flight /\ flight[1].results # <<>> THEN 1 ELSE 0) +
  (IF k >= 2 /\ 2 \in DOMAIN flight /\ flight[2].results # <<>> THEN 1 ELSE 0)

FenceInv ==
  DeferBlockFree =>
    /\ pool.ahead = Steps(Len(flight))
    /\ \A k \in DOMAIN flight : \A i \in DOMAIN flight[k].results :
         LET q == req[flight[k].results[i].id] IN q.status # "gone" => q.lastSeq >= Steps(k)

Owned(r) == ToSet(req[r].blocks)
WriteInv ==
  conf.connector =>
    \A k \in DOMAIN flight : \A i \in DOMAIN flight[k].results :
      LET x == flight[k].results[i] IN
      \A b \in x.writes :
        IF Async
          THEN \/ b \in Owned(x.id) /\ req[x.id].status \in {"running", "finished"} /\ ~Loading(x.id)
               \/ \E d \in DOMAIN pool.deferred :
                    b \in pool.deferred[d].blocks /\ pool.deferred[d].fence >= Steps(k)
          ELSE \A r \in Reqs : Loading(r) => b \notin Owned(r)

(* The parts of the pool. *)
Pools(p) ==
  /\ DOMAIN p = {"free", "deferred", "ahead"}
  /\ p.free \in SUBSET (1 .. NumBlocks) /\ p.ahead \in Int
  /\ \E X : p.deferred \in Seq(X)
  /\ \A i \in DOMAIN p.deferred :
       /\ DOMAIN p.deferred[i] = {"fence", "blocks"}
       /\ p.deferred[i].fence \in Int /\ p.deferred[i].blocks \in SUBSET (1 .. NumBlocks)

PoolInv == Pools(pool)
-----------------------------------------------------------------------------
(* Taking blocks from the pool. *)

LEMMA ToSetIs ==
  ASSUME NEW T, NEW s \in Seq(T)
  PROVE  /\ Len(s) \in Nat /\ DOMAIN s = 1 .. Len(s)
         /\ \A i \in 1 .. Len(s) : s[i] \in T /\ s[i] \in ToSet(s)
         /\ ToSet(s) \in SUBSET T
         /\ \A b \in ToSet(s) : \E i \in 1 .. Len(s) : s[i] = b
<1>1. /\ Len(s) \in Nat /\ DOMAIN s = 1 .. Len(s)
      /\ \A i \in 1 .. Len(s) : s[i] \in T
  OBVIOUS
<1> QED BY <1>1 DEF ToSet

LEMMA ConcatIs ==
  ASSUME NEW T, NEW p \in Seq(T), NEW q \in Seq(T), NEW c, c = p \o q
  PROVE  /\ c \in Seq(T) /\ Len(p) \in Nat /\ Len(q) \in Nat
         /\ DOMAIN c = 1 .. Len(p) + Len(q)
         /\ \A i \in 1 .. Len(p) : c[i] = p[i]
         /\ \A i \in 1 .. Len(q) : c[Len(p) + i] = q[i]
OBVIOUS

LEMMA AllocatedIs ==
  ASSUME PoolInv, NEW r, NEW n, NEW k \in Nat, Lacking(r, n) = k,
         k <= Cardinality(pool.free)
  PROVE  /\ Allocated(r, n) \in Seq(1 .. NumBlocks) /\ Len(Allocated(r, n)) = k
         /\ ToSet(Allocated(r, n)) \in SUBSET pool.free
         /\ IsInjective(Allocated(r, n))
<1>1. PICK S : S = pool.free
  OBVIOUS
<1>2. S \in SUBSET Int /\ S \in SUBSET (1 .. NumBlocks) /\ IsFiniteSet(S)
  <2>1. 1 \in Int /\ NumBlocks \in Int
    BY LimitsAssumption
  <2>2. IsFiniteSet(1 .. NumBlocks) /\ 1 .. NumBlocks \in SUBSET Int
    BY <2>1, FS_Interval
  <2>3. S \in SUBSET (1 .. NumBlocks)
    BY <1>1 DEF PoolInv, Pools
  <2> QED BY <2>2, <2>3, FS_Subset
<1>3. PICK c \in Nat : c = Cardinality(S)
  BY <1>2, FS_CardinalityType
<1>4. Below(S) \in Bijection(S, 0 .. c - 1)
  BY <1>2, <1>3, BelowIsBijection
<1>5. /\ \A b \in S : Below(S)[b] = Cardinality({x \in S : x < b})
      /\ \A a, b \in S : Below(S)[a] = Below(S)[b] => a = b
      /\ \A i \in 0 .. c - 1 : \E b \in S : Below(S)[b] = i
  BY <1>4 DEF Below, Bijection, Injection, Surjection, IsInjective
<1> DEFINE pick(i) == CHOOSE b \in S : Cardinality({x \in S : x < b}) = i - 1
<1>6. ASSUME NEW i \in 1 .. k
      PROVE  pick(i) \in S /\ Below(S)[pick(i)] = i - 1
  <2>1. i - 1 \in 0 .. c - 1
    BY <1>1, <1>3
  <2>2. \E b \in S : Cardinality({x \in S : x < b}) = i - 1
    BY <1>5, <2>1
  <2>3. pick(i) \in S /\ Cardinality({x \in S : x < pick(i)}) = i - 1
    BY <2>2
  <2> QED BY <1>5, <2>3
<1>7. PICK w : w = Allocated(r, n)
  OBVIOUS
<1>8. w = [i \in 1 .. k |-> pick(i)]
  BY <1>1, <1>7 DEF Allocated
<1> HIDE DEF pick
<1>9. w \in Seq(1 .. NumBlocks) /\ Len(w) = k /\ DOMAIN w = 1 .. k
  <2>1. \A i \in 1 .. k : w[i] \in 1 .. NumBlocks
    BY <1>2, <1>6, <1>8
  <2>2. w \in Seq(1 .. NumBlocks) /\ DOMAIN w = 1 .. k
    BY <1>8, <2>1
  <2>3. Len(w) \in Nat /\ DOMAIN w = 1 .. Len(w)
    BY <2>2
  <2>4. Len(w) = k
    BY <2>2, <2>3
  <2> QED BY <2>2, <2>4
<1>10. ToSet(w) \in SUBSET S
  BY <1>6, <1>8, <1>9 DEF ToSet
<1>11. IsInjective(w)
  <2> SUFFICES ASSUME NEW i \in 1 .. k, NEW j \in 1 .. k, w[i] = w[j]
               PROVE  i = j
    BY <1>9 DEF IsInjective
  <2>1. Below(S)[w[i]] = i - 1 /\ Below(S)[w[j]] = j - 1
    BY <1>6, <1>8
  <2> QED BY <2>1
<1> QED BY <1>1, <1>7, <1>9, <1>10, <1>11

(* Every block is in one place: free, in an entry of the deferred frees, or *)
(* in the list of one request.                                              *)
Apart(p, B) ==
  /\ \A b \in 1 .. NumBlocks :
       \/ b \in p.free
       \/ \E d \in DOMAIN p.deferred : b \in p.deferred[d].blocks
       \/ \E r \in Reqs : b \in ToSet(B[r])
  /\ \A d \in DOMAIN p.deferred : \A b \in p.deferred[d].blocks :
       /\ b \notin p.free
       /\ \A e \in DOMAIN p.deferred : b \in p.deferred[e].blocks => e = d
  /\ \A r \in Reqs : \A b \in ToSet(B[r]) :
       /\ b \notin p.free
       /\ \A d \in DOMAIN p.deferred : b \notin p.deferred[d].blocks
       /\ \A q \in Reqs : b \in ToSet(B[q]) => q = r
  /\ \A r \in Reqs : IsInjective(B[r])

BlockLists == [Reqs -> Seq(1 .. NumBlocks)]
Blocks(rq) == [r \in Reqs |-> rq[r].blocks]

LEMMA ApartIsPartition ==
  ASSUME PoolInv, \A r \in Reqs : req[r].blocks \in Seq(1 .. NumBlocks),
         Apart(pool, Blocks(req))
  PROVE  BlocksPartitioned
<1> DEFINE deferred == {pool.deferred[i].blocks : i \in DOMAIN pool.deferred}
           owned == [r \in Reqs |-> ToSet(req[r].blocks)]
<1>1. \A r \in Reqs : owned[r] = ToSet(Blocks(req)[r]) /\ owned[r] \in SUBSET (1 .. NumBlocks)
  <2> TAKE r \in Reqs
  <2>1. Blocks(req)[r] = req[r].blocks /\ req[r].blocks \in Seq(1 .. NumBlocks)
    BY DEF Blocks
  <2> QED BY <2>1, ToSetIs
<1>2. \A b : b \in UNION deferred <=> \E d \in DOMAIN pool.deferred : b \in pool.deferred[d].blocks
  OBVIOUS
<1>3. \A b : b \in UNION Range(owned) <=> \E r \in Reqs : b \in owned[r]
  BY DEF Range
<1>4. /\ UNION deferred \in SUBSET (1 .. NumBlocks) /\ pool.free \in SUBSET (1 .. NumBlocks)
      /\ UNION Range(owned) \in SUBSET (1 .. NumBlocks)
  BY <1>1, <1>2, <1>3 DEF PoolInv, Pools
<1>5. pool.free \cup (UNION deferred) \cup (UNION Range(owned)) = 1 .. NumBlocks
  BY <1>1, <1>2, <1>3, <1>4 DEF Apart
<1>6. pool.free \cap (UNION deferred) = {}
  BY <1>2 DEF Apart
<1>7. \A i, j \in DOMAIN pool.deferred :
        i # j => pool.deferred[i].blocks \cap pool.deferred[j].blocks = {}
  BY DEF Apart
<1>8. \A r \in Reqs : /\ owned[r] \cap (pool.free \cup (UNION deferred)) = {}
                      /\ \A q \in Reqs \ {r} : owned[q] \cap owned[r] = {}
  <2> HIDE DEF deferred, owned
  <2> TAKE r \in Reqs
  <2>1. \A b \in owned[r] : b \notin pool.free
    BY <1>1 DEF Apart
  <2>2. \A b \in owned[r] : b \notin UNION deferred
    <3> TAKE b \in owned[r]
    <3>1. \A d \in DOMAIN pool.deferred : b \notin pool.deferred[d].blocks
      BY <1>1 DEF Apart
    <3> QED BY <1>2, <3>1
  <2>3. ASSUME NEW q \in Reqs \ {r}, NEW b \in owned[r], b \in owned[q]
        PROVE  FALSE
    BY <1>1, <2>3 DEF Apart
  <2> QED BY <2>1, <2>2, <2>3
<1>9. \A r \in Reqs : IsInjective(req[r].blocks)
  BY DEF Apart, Blocks
<1> QED BY <1>5, <1>6, <1>7, <1>8, <1>9 DEF BlocksPartitioned

(* C is B with w added to the list of r. *)
Adds(C, B, r, w) == C[r] = B[r] \o w /\ \A q \in Reqs \ {r} : C[q] = B[q]

LEMMA TakeApart ==
  ASSUME NEW p, NEW B \in BlockLists, Apart(p, B),
         NEW w \in Seq(1 .. NumBlocks), ToSet(w) \in SUBSET p.free, IsInjective(w),
         NEW r \in Reqs, NEW f, f.free = p.free \ ToSet(w), f.deferred = p.deferred,
         NEW C, Adds(C, B, r, w)
  PROVE  Apart(f, C)
<1>1. PICK a, c : a = B[r] /\ c = C[r]
  OBVIOUS
<1>2. /\ a \in Seq(1 .. NumBlocks) /\ c = a \o w
      /\ \A q \in Reqs \ {r} : C[q] = B[q]
  BY <1>1 DEF BlockLists, Adds
<1>3. PICK n \in Nat, m \in Nat : n = Len(a) /\ m = Len(w)
  BY <1>2
<1>4. /\ DOMAIN a = 1 .. n /\ DOMAIN w = 1 .. m /\ DOMAIN c = 1 .. n + m
      /\ c \in Seq(1 .. NumBlocks)
      /\ \A i \in 1 .. n : c[i] = a[i]
      /\ \A i \in 1 .. m : c[n + i] = w[i]
  BY <1>2, <1>3, ConcatIs
<1>5. \A i \in 1 .. n + m : i \in 1 .. n \/ (i - n \in 1 .. m /\ n + (i - n) = i)
  BY <1>3, <1>4
<1>6. \A i \in 1 .. n + m : \/ i \in 1 .. n /\ c[i] = a[i]
                            \/ i - n \in 1 .. m /\ c[i] = w[i - n]
  BY <1>3, <1>4, <1>5
<1>7. ToSet(c) = ToSet(a) \cup ToSet(w)
  <2>1. \A i \in 1 .. n : i \in 1 .. n + m
    BY <1>3, <1>4
  <2>2. \A i \in 1 .. m : n + i \in 1 .. n + m
    BY <1>3, <1>4
  <2>3. \A b : b \in ToSet(c) <=> \E i \in 1 .. n + m : c[i] = b
    BY <1>3, <1>4 DEF ToSet
  <2>4. \A b : b \in ToSet(a) <=> \E i \in 1 .. n : a[i] = b
    BY <1>3, <1>4 DEF ToSet
  <2>5. \A b : b \in ToSet(w) <=> \E i \in 1 .. m : w[i] = b
    BY <1>3, <1>4 DEF ToSet
  <2>6. \A b : b \in ToSet(c) => b \in ToSet(a) \/ b \in ToSet(w)
    BY <1>6, <2>3, <2>4, <2>5
  <2>7. \A b : b \in ToSet(a) => b \in ToSet(c)
    BY <1>3, <1>4, <2>1, <2>3, <2>4
  <2>8. \A b : b \in ToSet(w) => b \in ToSet(c)
    <3> TAKE b
    <3> HAVE b \in ToSet(w)
    <3>1. PICK i \in 1 .. m : w[i] = b
      BY <2>5
    <3>2. n + i \in 1 .. n + m /\ c[n + i] = b
      BY <1>3, <1>4, <2>2, <3>1
    <3> QED BY <2>3, <3>2
  <2> QED BY <1>2, <2>6, <2>7, <2>8
<1>8. \A i \in 1 .. n : a[i] \in ToSet(a) /\ a[i] \notin p.free
  <2>1. \A i \in 1 .. n : a[i] \in ToSet(a)
    BY <1>4 DEF ToSet
  <2> QED BY <1>1, <2>1 DEF Apart
<1>9. \A i \in 1 .. m : w[i] \in ToSet(w) /\ w[i] \in p.free
  BY <1>3, <1>4 DEF ToSet
<1>10. IsInjective(c)
  <2> SUFFICES ASSUME NEW i \in 1 .. n + m, NEW j \in 1 .. n + m, c[i] = c[j]
               PROVE  i = j
    BY <1>3, <1>4 DEF IsInjective
  <2>1. CASE i \in 1 .. n /\ j \in 1 .. n
    <3>1. IsInjective(a)
      BY <1>1 DEF Apart
    <3>2. a[i] = a[j]
      BY <1>3, <1>4, <1>6, <2>1
    <3> QED BY <1>3, <1>4, <2>1, <3>1, <3>2 DEF IsInjective
  <2>2. CASE i - n \in 1 .. m /\ j - n \in 1 .. m
    <3>1. w[i - n] = w[j - n]
      BY <1>3, <1>4, <1>6, <2>2
    <3>2. i - n = j - n
      BY <1>3, <1>4, <2>2, <3>1 DEF IsInjective
    <3> QED BY <1>3, <1>4, <3>2
  <2>3. CASE i \in 1 .. n /\ j - n \in 1 .. m
    BY <1>3, <1>4, <1>6, <1>8, <1>9, <2>3
  <2>4. CASE j \in 1 .. n /\ i - n \in 1 .. m
    BY <1>3, <1>4, <1>6, <1>8, <1>9, <2>4
  <2> QED BY <1>5, <2>1, <2>2, <2>3, <2>4
<1>11. \A q \in Reqs : ToSet(C[q]) = IF q = r THEN ToSet(B[r]) \cup ToSet(w) ELSE ToSet(B[q])
  BY <1>1, <1>2, <1>7
<1>12. \A b \in 1 .. NumBlocks :
         \/ b \in f.free
         \/ \E d \in DOMAIN f.deferred : b \in f.deferred[d].blocks
         \/ \E q \in Reqs : b \in ToSet(C[q])
  BY <1>11 DEF Apart
<1>13. \A d \in DOMAIN f.deferred : \A b \in f.deferred[d].blocks :
         /\ b \notin f.free
         /\ \A e \in DOMAIN f.deferred : b \in f.deferred[e].blocks => e = d
  BY DEF Apart
<1>14. ASSUME NEW q \in Reqs, NEW b \in ToSet(C[q])
       PROVE  /\ b \notin f.free
              /\ \A d \in DOMAIN f.deferred : b \notin f.deferred[d].blocks
              /\ \A s \in Reqs : b \in ToSet(C[s]) => s = q
  <2>1. CASE b \in ToSet(w)
    <3>1. b \in p.free /\ b \notin f.free
      BY <2>1
    <3>2. \A s \in Reqs : b \notin ToSet(B[s])
      BY <3>1 DEF Apart
    <3>3. \A s \in Reqs : b \in ToSet(C[s]) => s = r
      BY <1>11, <3>2
    <3>4. \A d \in DOMAIN f.deferred : b \notin f.deferred[d].blocks
      BY <3>1 DEF Apart
    <3> QED BY <1>14, <3>1, <3>3, <3>4
  <2>2. CASE b \notin ToSet(w)
    <3>1. \A s \in Reqs : b \in ToSet(C[s]) <=> b \in ToSet(B[s])
      BY <1>11, <2>2
    <3>2. b \in ToSet(B[q])
      BY <1>14, <3>1
    <3> QED BY <3>1, <3>2 DEF Apart
  <2> QED BY <2>1, <2>2
<1>15. \A q \in Reqs : IsInjective(C[q])
  BY <1>1, <1>2, <1>10 DEF Apart
<1> QED BY <1>12, <1>13, <1>14, <1>15 DEF Apart

(* Giving blocks back. *)

(* Those of X whose blocks are deferred, and those whose blocks are free.   *)
Later(X, rq) == {r \in X : Fenced(rq[r]) /\ rq[r].blocks # <<>>}
Now(X, rq) == {r \in X : ~Fenced(rq[r])}

(* f is p with the blocks of the requests of X given back: l lists those    *)
(* whose blocks wait for the steps in flight.                               *)
Freed(f, p, rq, X, l) ==
  LET n == Len(p.deferred)
      m == Len(l)
  IN  /\ Lists(l, Later(X, rq)) /\ n \in Nat /\ m \in Nat
      /\ DOMAIN p.deferred = 1 .. n /\ DOMAIN l = 1 .. m
      /\ f.ahead = p.ahead
      /\ \A b : b \in f.free <=> b \in p.free \/ \E r \in Now(X, rq) : b \in ToSet(rq[r].blocks)
      /\ DOMAIN f.deferred = 1 .. n + m
      /\ \A i \in 1 .. n : f.deferred[i] = p.deferred[i]
      /\ \A i \in 1 .. m :
           /\ f.deferred[n + i].fence = p.ahead
           /\ f.deferred[n + i].blocks = ToSet(rq[l[i]].blocks)

LEMMA FreedIs ==
  ASSUME NEW p, Pools(p), NEW rq, Blocks(rq) \in BlockLists,
         NEW rs, NEW X \in SUBSET Reqs, Lists(rs, X)
  PROVE  LET f == FreeRequestBlocks(p, rq, rs)
         IN  Pools(f) /\ \E l : Freed(f, p, rq, X, l)
<1> DEFINE fenced == {r \in ToSet(rs) : Fenced(rq[r])}
           now == Without(rs, fenced)
           later == Within(rs, {r \in fenced : rq[r].blocks # <<>>})
           Entry(r) == [fence |-> p.ahead, blocks |-> ToSet(rq[r].blocks)]
           more == [i \in DOMAIN later |-> Entry(later[i])]
<1>1. PICK f : f = FreeRequestBlocks(p, rq, rs)
  OBVIOUS
<1>2. ToSet(rs) = X /\ Lists(now, X \ fenced)
      /\ Lists(later, X \cap {r \in fenced : rq[r].blocks # <<>>})
  BY WithinIs, WithoutIs DEF Lists
<1>3. X \ fenced = Now(X, rq) /\ X \cap {r \in fenced : rq[r].blocks # <<>>} = Later(X, rq)
  BY <1>2 DEF Now, Later
<1>4. Lists(now, Now(X, rq)) /\ Lists(later, Later(X, rq))
  BY <1>2, <1>3
<1>5. PICK l, d : l = later /\ d = more
  OBVIOUS
<1>6. f = [p EXCEPT !.free = @ \cup (UNION {ToSet(rq[r].blocks) : r \in ToSet(now)}),
                    !.deferred = @ \o d]
  BY <1>1, <1>5 DEF FreeRequestBlocks
<1>7. ToSet(now) = Now(X, rq)
  BY <1>4 DEF Lists
<1> HIDE DEF now, later
<1>8. /\ l \in Seq(Reqs) /\ Len(l) \in Nat /\ DOMAIN l = 1 .. Len(l)
      /\ \A i \in 1 .. Len(l) : l[i] \in Reqs
  BY <1>4, <1>5 DEF Lists
<1>9. d = [i \in 1 .. Len(l) |-> Entry(l[i])]
  BY <1>5, <1>8
<1>10. PICK Y : p.deferred \in Seq(Y)
  BY DEF Pools
<1>11. PICK n \in Nat, m \in Nat : n = Len(p.deferred) /\ m = Len(l)
  <2>1. Len(p.deferred) \in Nat
    BY <1>10
  <2> QED BY <1>8, <2>1
<1>12. PICK Z : Z = Y \cup {Entry(r) : r \in Reqs}
  OBVIOUS
<1>13. d \in Seq(Z) /\ DOMAIN d = 1 .. m /\ \A i \in 1 .. m : d[i] = Entry(l[i])
  <2>1. \A i \in 1 .. m : d[i] = Entry(l[i]) /\ d[i] \in Z
    BY <1>8, <1>9, <1>11, <1>12
  <2> HIDE DEF Entry
  <2> QED BY <1>9, <1>11, <2>1
<1>14. /\ DOMAIN f = DOMAIN p /\ f.ahead = p.ahead
       /\ f.free = p.free \cup (UNION {ToSet(rq[r].blocks) : r \in Now(X, rq)})
       /\ f.deferred = p.deferred \o d
  BY <1>6, <1>7 DEF Pools
<1>15. /\ p.deferred \in Seq(Z) /\ DOMAIN p.deferred = 1 .. n /\ Len(d) = m
  BY <1>10, <1>11, <1>12, <1>13
<1>16. /\ f.deferred \in Seq(Z) /\ DOMAIN f.deferred = 1 .. n + m
       /\ \A i \in 1 .. n : f.deferred[i] = p.deferred[i]
       /\ \A i \in 1 .. m : f.deferred[n + i] = d[i]
  <2>1. PICK a, c : a = p.deferred /\ c = f.deferred
    OBVIOUS
  <2>2. c = a \o d /\ a \in Seq(Z) /\ Len(a) = n
    BY <1>11, <1>14, <1>15, <2>1
  <2>3. c \in Seq(Z) /\ DOMAIN c = 1 .. n + m
        /\ (\A i \in 1 .. n : c[i] = a[i]) /\ (\A i \in 1 .. m : c[n + i] = d[i])
    <3>1. d \in Seq(Z) /\ a \in Seq(Z) /\ c = a \o d
      BY <1>13, <2>2
    <3>2. /\ c \in Seq(Z) /\ DOMAIN c = 1 .. Len(a) + Len(d)
          /\ \A i \in 1 .. Len(a) : c[i] = a[i]
          /\ \A i \in 1 .. Len(d) : c[Len(a) + i] = d[i]
      BY <3>1, ConcatIs
    <3> QED BY <1>15, <2>2, <3>2
  <2> QED BY <2>1, <2>3
<1>17. \A i \in 1 .. m : f.deferred[n + i].fence = p.ahead
                         /\ f.deferred[n + i].blocks = ToSet(rq[l[i]].blocks)
                         /\ DOMAIN f.deferred[n + i] = {"fence", "blocks"}
  <2> TAKE i \in 1 .. m
  <2>1. f.deferred[n + i] = [fence |-> p.ahead, blocks |-> ToSet(rq[l[i]].blocks)]
    BY <1>13, <1>16
  <2> QED BY <2>1
<1>18. \A r \in Reqs : ToSet(rq[r].blocks) \in SUBSET (1 .. NumBlocks)
  <2>1. \A r \in Reqs : rq[r].blocks \in Seq(1 .. NumBlocks)
    BY DEF Blocks, BlockLists
  <2> QED BY <2>1, ToSetIs
<1>19. \A b : b \in f.free <=> b \in p.free \/ \E r \in Now(X, rq) : b \in ToSet(rq[r].blocks)
  BY <1>14
<1>20. Freed(f, p, rq, X, l)
  BY <1>4, <1>5, <1>8, <1>11, <1>14, <1>15, <1>16, <1>17, <1>19 DEF Freed
<1>21. f.free \in SUBSET (1 .. NumBlocks)
  BY <1>18, <1>19 DEF Pools, Now
<1>22. ASSUME NEW i \in 1 .. n + m
       PROVE  /\ DOMAIN f.deferred[i] = {"fence", "blocks"}
              /\ f.deferred[i].fence \in Int /\ f.deferred[i].blocks \in SUBSET (1 .. NumBlocks)
  <2>1. CASE i \in 1 .. n
    BY <1>15, <1>16, <2>1 DEF Pools
  <2>2. CASE i \notin 1 .. n
    <3>1. PICK j \in 1 .. m : i = n + j
      <4>1. i - n \in 1 .. m /\ i = n + (i - n)
        BY <2>2
      <4> QED BY <4>1
    <3> QED BY <1>8, <1>11, <1>17, <1>18, <3>1 DEF Pools
  <2> QED BY <2>1, <2>2
<1>23. Pools(f)
  BY <1>14, <1>16, <1>21, <1>22 DEF Pools
<1> QED BY <1>1, <1>20, <1>23

LEMMA NoneOf == ToSet(<<>>) = {} /\ IsInjective(<<>>) /\ <<>> \in Seq(1 .. NumBlocks)
<1>1. DOMAIN <<>> = {} /\ <<>> \in Seq(1 .. NumBlocks)
  OBVIOUS
<1> QED BY <1>1 DEF ToSet, IsInjective

LEMMA GiveApart ==
  ASSUME NEW p, NEW rq, Apart(p, Blocks(rq)),
         NEW X \in SUBSET Reqs, NEW f, NEW l, Freed(f, p, rq, X, l),
         NEW C, C = [r \in Reqs |-> IF r \in X THEN <<>> ELSE rq[r].blocks]
  PROVE  Apart(f, C)
<1> DEFINE B(r) == ToSet(rq[r].blocks)
<1>1. \A r \in Reqs : Blocks(rq)[r] = rq[r].blocks
  BY DEF Blocks
<1>2. PICK n \in Nat, m \in Nat : n = Len(p.deferred) /\ m = Len(l)
  BY DEF Freed
<1>3. /\ DOMAIN p.deferred = 1 .. n /\ DOMAIN l = 1 .. m /\ DOMAIN f.deferred = 1 .. n + m
      /\ \A i \in 1 .. n : f.deferred[i] = p.deferred[i]
      /\ \A i \in 1 .. m : f.deferred[n + i].blocks = B(l[i])
      /\ \A b : b \in f.free <=> b \in p.free \/ \E r \in Now(X, rq) : b \in B(r)
      /\ Lists(l, Later(X, rq))
  BY <1>2 DEF Freed
<1>4. /\ \A i \in 1 .. m : l[i] \in Later(X, rq)
      /\ \A r \in Later(X, rq) : \E i \in 1 .. m : l[i] = r
      /\ \A i, j \in 1 .. m : l[i] = l[j] => i = j
  BY <1>3 DEF Lists, ToSet, IsInjective
<1>5. \A i \in 1 .. n + m : i \in 1 .. n \/ \E j \in 1 .. m : i = n + j
  <2> TAKE i \in 1 .. n + m
  <2>1. i \in 1 .. n \/ (i - n \in 1 .. m /\ i = n + (i - n))
    OBVIOUS
  <2> QED BY <2>1
<1>6. /\ \A i \in 1 .. n : i \in 1 .. n + m
      /\ \A i \in 1 .. m : n + i \in 1 .. n + m /\ n + i \notin 1 .. n
      /\ \A i, j \in 1 .. m : n + i = n + j => i = j
  OBVIOUS
<1>7. \A r \in Reqs : ToSet(C[r]) = IF r \in X THEN {} ELSE B(r)
  BY NoneOf
<1>8. /\ \A b \in 1 .. NumBlocks :
           \/ b \in p.free
           \/ \E d \in 1 .. n : b \in p.deferred[d].blocks
           \/ \E r \in Reqs : b \in B(r)
      /\ \A d \in 1 .. n : \A b \in p.deferred[d].blocks :
           /\ b \notin p.free
           /\ \A e \in 1 .. n : b \in p.deferred[e].blocks => e = d
      /\ \A r \in Reqs : \A b \in B(r) :
           /\ b \notin p.free
           /\ \A d \in 1 .. n : b \notin p.deferred[d].blocks
           /\ \A q \in Reqs : b \in B(q) => q = r
      /\ \A r \in Reqs : IsInjective(rq[r].blocks)
  <2>1. \A r \in Reqs : ToSet(Blocks(rq)[r]) = B(r)
    BY <1>1
  <2>2. PICK U : U = Blocks(rq)
    OBVIOUS
  <2>3. \A r \in Reqs : U[r] = rq[r].blocks /\ ToSet(U[r]) = B(r)
    BY <1>1, <2>1, <2>2
  <2>4. Apart(p, U)
    BY <2>2
  <2> HIDE DEF B
  <2>5. \A b \in 1 .. NumBlocks :
           \/ b \in p.free
           \/ \E d \in 1 .. n : b \in p.deferred[d].blocks
           \/ \E r \in Reqs : b \in B(r)
    <3> TAKE b \in 1 .. NumBlocks
    <3>1. \/ b \in p.free
          \/ \E d \in DOMAIN p.deferred : b \in p.deferred[d].blocks
          \/ \E r \in Reqs : b \in ToSet(U[r])
      BY <2>4 DEF Apart
    <3>2. CASE \E r \in Reqs : b \in ToSet(U[r])
      <4>1. PICK r \in Reqs : b \in ToSet(U[r])
        BY <3>2
      <4>2. b \in B(r)
        BY <2>3, <4>1
      <4> QED BY <4>2
    <3> QED BY <1>3, <3>1, <3>2
  <2>6. \A d \in 1 .. n : \A b \in p.deferred[d].blocks :
           /\ b \notin p.free
           /\ \A e \in 1 .. n : b \in p.deferred[e].blocks => e = d
    BY <1>3, <2>4 DEF Apart
  <2>7. \A r \in Reqs : \A b \in B(r) :
           /\ b \notin p.free
           /\ \A d \in 1 .. n : b \notin p.deferred[d].blocks
           /\ \A q \in Reqs : b \in B(q) => q = r
    <3> TAKE r \in Reqs
    <3> TAKE b \in B(r)
    <3>1. b \in ToSet(U[r])
      BY <2>3
    <3>2. /\ b \notin p.free
          /\ \A d \in DOMAIN p.deferred : b \notin p.deferred[d].blocks
          /\ \A q \in Reqs : b \in ToSet(U[q]) => q = r
      BY <2>4, <3>1 DEF Apart
    <3>3. ASSUME NEW q \in Reqs, b \in B(q)
          PROVE  q = r
      <4>1. b \in ToSet(U[q])
        BY <2>3, <3>3
      <4> QED BY <3>2, <4>1
    <3> QED BY <1>3, <3>2, <3>3
  <2>8. \A r \in Reqs : IsInjective(rq[r].blocks)
    BY <2>3, <2>4 DEF Apart
  <2> QED BY <2>5, <2>6, <2>7, <2>8
<1>9. \A r \in X : B(r) = {} \/ r \in Now(X, rq) \/ r \in Later(X, rq)
  BY NoneOf DEF Now, Later
<1>10. Now(X, rq) \in SUBSET X /\ Later(X, rq) \in SUBSET X /\ Now(X, rq) \cap Later(X, rq) = {}
  BY DEF Now, Later
<1>11. ASSUME NEW b \in 1 .. NumBlocks
       PROVE  \/ b \in f.free
              \/ \E d \in DOMAIN f.deferred : b \in f.deferred[d].blocks
              \/ \E r \in Reqs : b \in ToSet(C[r])
  <2>1. CASE b \in p.free
    BY <1>3, <2>1
  <2>2. CASE \E d \in 1 .. n : b \in p.deferred[d].blocks
    BY <1>3, <1>6, <2>2
  <2>3. CASE \E r \in Reqs : b \in B(r)
    <3>1. PICK r \in Reqs : b \in B(r)
      BY <2>3
    <3>2. CASE r \notin X
      BY <1>7, <3>1, <3>2
    <3>3. CASE r \in Now(X, rq)
      BY <1>3, <3>1, <3>3
    <3>4. CASE r \in Later(X, rq)
      <4>1. PICK i \in 1 .. m : l[i] = r
        BY <1>4, <3>4
      <4>2. n + i \in DOMAIN f.deferred /\ f.deferred[n + i].blocks = B(r)
        BY <1>3, <1>6, <4>1
      <4> QED BY <3>1, <4>2
    <3> QED BY <1>9, <3>1, <3>2, <3>3, <3>4
  <2> QED BY <1>8, <2>1, <2>2, <2>3
<1>12. ASSUME NEW d \in DOMAIN f.deferred, NEW b \in f.deferred[d].blocks
       PROVE  /\ b \notin f.free
              /\ \A e \in DOMAIN f.deferred : b \in f.deferred[e].blocks => e = d
              /\ \A r \in Reqs : b \notin ToSet(C[r])
  <2>1. CASE d \in 1 .. n
    <3>1. b \in p.deferred[d].blocks
      BY <1>3, <2>1
    <3>2. \A r \in Reqs : b \notin B(r)
      BY <1>8, <2>1, <3>1
    <3>3. b \notin f.free
      BY <1>3, <1>8, <1>10, <2>1, <3>1, <3>2
    <3>4. ASSUME NEW e \in DOMAIN f.deferred, b \in f.deferred[e].blocks
          PROVE  e = d
      <4>1. CASE e \in 1 .. n
        BY <1>3, <1>8, <2>1, <3>1, <3>4, <4>1
      <4>2. CASE \E j \in 1 .. m : e = n + j
        <5>1. PICK j \in 1 .. m : e = n + j
          BY <4>2
        <5>2. b \in B(l[j])
          BY <1>3, <3>4, <5>1
        <5>3. l[j] \in Reqs
          BY <1>4, <1>10
        <5> QED BY <3>2, <5>2, <5>3
      <4> QED BY <1>3, <1>5, <4>1, <4>2
    <3> QED BY <1>7, <3>2, <3>3, <3>4
  <2>2. CASE \E j \in 1 .. m : d = n + j
    <3>1. PICK j \in 1 .. m : d = n + j
      BY <2>2
    <3>2. PICK r \in Later(X, rq) : r = l[j]
      BY <1>4
    <3>3. b \in B(r) /\ r \in Reqs /\ r \in X
      BY <1>3, <1>10, <1>12, <3>1, <3>2
    <3>4. \A q \in Reqs : b \in B(q) => q = r
      BY <1>8, <3>3
    <3>5. b \notin f.free
      <4>1. b \notin p.free
        BY <1>8, <3>3
      <4>2. ASSUME NEW q \in Now(X, rq), b \in B(q)
            PROVE  FALSE
        <5>1. q = r
          BY <1>10, <3>4, <4>2
        <5> QED BY <1>10, <5>1
      <4> QED BY <1>3, <4>1, <4>2
    <3>6. ASSUME NEW e \in DOMAIN f.deferred, b \in f.deferred[e].blocks
          PROVE  e = d
      <4>1. CASE e \in 1 .. n
        BY <1>3, <1>8, <3>3, <3>6, <4>1
      <4>2. CASE \E i \in 1 .. m : e = n + i
        <5>1. PICK i \in 1 .. m : e = n + i
          BY <4>2
        <5>2. l[i] \in Reqs /\ b \in B(l[i])
          BY <1>3, <1>4, <1>10, <3>6, <5>1
        <5>3. i = j
          BY <1>4, <3>2, <3>4, <5>2
        <5> QED BY <3>1, <5>1, <5>3
      <4> QED BY <1>3, <1>5, <4>1, <4>2
    <3> QED BY <1>7, <3>3, <3>4, <3>5, <3>6
  <2> QED BY <1>3, <1>5, <2>1, <2>2
<1>13. ASSUME NEW r \in Reqs, NEW b \in ToSet(C[r])
       PROVE  /\ b \notin f.free
              /\ \A q \in Reqs : b \in ToSet(C[q]) => q = r
  <2>1. r \notin X /\ b \in B(r)
    BY <1>7, <1>13
  <2>2. \A q \in Reqs : b \in B(q) => q = r
    BY <1>8, <2>1
  <2>3. b \notin f.free
    BY <1>3, <1>8, <1>10, <2>1, <2>2
  <2> QED BY <1>7, <2>2, <2>3
<1>14. \A r \in Reqs : IsInjective(C[r])
  BY <1>8, NoneOf
<1> QED BY <1>11, <1>12, <1>13, <1>14 DEF Apart

(* The entries before the first that waits for a step are taken.           *)
Drains(f, p, first) ==
  LET n == Len(p.deferred)
  IN  /\ n \in Nat /\ first \in 1 .. n + 1 /\ DOMAIN p.deferred = 1 .. n
      /\ f.ahead = p.ahead - 1
      /\ \A b : b \in f.free <=> b \in p.free \/ \E i \in 1 .. first - 1 : b \in p.deferred[i].blocks
      /\ DOMAIN f.deferred = 1 .. n + 1 - first
      /\ \A i \in 1 .. n + 1 - first :
           /\ f.deferred[i].fence = p.deferred[i + first - 1].fence - 1
           /\ f.deferred[i].blocks = p.deferred[i + first - 1].blocks
      /\ \A i \in 1 .. first - 1 : p.deferred[i].fence <= 1

LEMMA DrainIs ==
  ASSUME NEW p, Pools(p), NEW f, f = DrainDeferredFrees(p)
  PROVE  Pools(f) /\ \E first : Drains(f, p, first)
<1> DEFINE aged == [i \in DOMAIN p.deferred |-> [p.deferred[i] EXCEPT !.fence = @ - 1]]
           pending == {i \in DOMAIN aged : aged[i].fence > 0}
           first == IF pending = {} THEN Len(aged) + 1 ELSE Min(pending)
<1>1. PICK X : p.deferred \in Seq(X)
  BY DEF Pools
<1>2. PICK n \in Nat : n = Len(p.deferred) /\ DOMAIN p.deferred = 1 .. n
  BY <1>1
<1>3. PICK w, t : w = aged /\ t = first
  OBVIOUS
<1>4. PICK E : E = {w[i] : i \in 1 .. n}
  OBVIOUS
<1>5. w = [i \in 1 .. n |-> [p.deferred[i] EXCEPT !.fence = @ - 1]]
  BY <1>2, <1>3
<1>6. w \in Seq(E) /\ Len(w) = n /\ DOMAIN w = 1 .. n
  <2>1. DOMAIN w = 1 .. n /\ \A i \in 1 .. n : w[i] \in E
    BY <1>4, <1>5
  <2>2. w = [i \in 1 .. n |-> w[i]]
    BY <1>5, <2>1
  <2>3. w \in Seq(E)
    BY <2>1, <2>2
  <2>4. Len(w) \in Nat /\ DOMAIN w = 1 .. Len(w)
    BY <2>3
  <2>5. Len(w) = n
    BY <2>1, <2>4
  <2> QED BY <2>1, <2>3, <2>5
<1>7. /\ f.free = p.free \cup (UNION {w[i].blocks : i \in 1 .. t - 1})
      /\ f.deferred = SubSeq(w, t, Len(w)) /\ f.ahead = p.ahead - 1
      /\ DOMAIN f = {"free", "deferred", "ahead"}
  <2>1. f = [free |-> p.free \cup (UNION {aged[i].blocks : i \in 1 .. first - 1}),
             deferred |-> SubSeq(aged, first, Len(aged)),
             ahead |-> p.ahead - 1]
    BY DEF DrainDeferredFrees
  <2> HIDE DEF aged, first
  <2>2. f = [free |-> p.free \cup (UNION {w[i].blocks : i \in 1 .. t - 1}),
             deferred |-> SubSeq(w, t, Len(w)),
             ahead |-> p.ahead - 1]
    BY <1>3, <2>1
  <2>3. PICK z : z = UNION {w[i].blocks : i \in 1 .. t - 1}
    OBVIOUS
  <2>4. PICK y : y = SubSeq(w, t, Len(w))
    OBVIOUS
  <2>5. f = [free |-> p.free \cup z, deferred |-> y, ahead |-> p.ahead - 1]
    BY <2>2, <2>3, <2>4
  <2>6. f.free = p.free \cup z /\ f.deferred = y /\ f.ahead = p.ahead - 1
        /\ DOMAIN f = {"free", "deferred", "ahead"}
    BY <2>5
  <2> QED BY <2>3, <2>4, <2>6
<1>8. PICK Q : Q = pending
  OBVIOUS
<1>9. /\ Q = {i \in 1 .. n : w[i].fence > 0}
      /\ t = IF Q = {} THEN n + 1 ELSE Min(Q)
  BY <1>3, <1>6, <1>8
<1> HIDE DEF aged, pending, first
<1>10. t \in 1 .. n + 1 /\ \A i \in 1 .. t - 1 : i \in 1 .. n /\ i \notin Q
  <2>1. CASE Q = {}
    BY <1>9, <2>1
  <2>2. CASE Q # {}
    <3>1. Q \in SUBSET Nat
      BY <1>9
    <3>2. t \in Q /\ \A x \in Q : t <= x
      BY <1>9, <2>2, <3>1, MinFact
    <3>3. t \in 1 .. n
      BY <1>9, <3>2
    <3>4. \A i \in 1 .. t - 1 : i \in 1 .. n /\ ~(t <= i)
      BY <3>3
    <3> QED BY <3>2, <3>3, <3>4
  <2> QED BY <2>1, <2>2
<1>11. \A i \in 1 .. n : /\ p.deferred[i].fence \in Int
                         /\ p.deferred[i].blocks \in SUBSET (1 .. NumBlocks)
  BY <1>2 DEF Pools
<1>12. PICK k \in Nat : k = n + 1 - t
  BY <1>10
<1>13. /\ \E U : f.deferred \in Seq(U)
       /\ DOMAIN f.deferred = 1 .. k
       /\ \A i \in 1 .. k : f.deferred[i] = w[i + t - 1] /\ i + t - 1 \in 1 .. n
  <2>1. f.deferred = SubSeq(w, t, n) /\ Len(w) = n /\ w \in Seq(E)
    BY <1>6, <1>7
  <2>2. \A i \in 1 .. k : i + t - 1 \in 1 .. n
    BY <1>10, <1>12
  <2>3. k = 1 + n - t
    BY <1>10, <1>12
  <2>4. SubSeq(w, t, n) \in Seq(E) /\ Len(SubSeq(w, t, n)) = k
        /\ \A i \in 1 .. k : SubSeq(w, t, n)[i] = w[i + t - 1]
    <3>1. t \in 1 .. Len(w) + 1 /\ n \in t - 1 .. Len(w)
      BY <1>10, <2>1
    <3>2. /\ SubSeq(w, t, n) \in Seq(E)
          /\ Len(SubSeq(w, t, n)) = IF t <= n THEN n - t + 1 ELSE 0
          /\ \A i \in 1 .. n - t + 1 : SubSeq(w, t, n)[i] = w[t + i - 1]
      BY <2>1, <3>1, SubSeqProperties
    <3>3. k = n - t + 1 /\ t \in Int
      BY <1>10, <1>12
    <3>4. \A i \in 1 .. k : t + i - 1 = i + t - 1
      BY <3>3
    <3> QED BY <1>10, <3>2, <3>3, <3>4
  <2>5. PICK v : v = SubSeq(w, t, n)
    OBVIOUS
  <2>6. f.deferred = v /\ v \in Seq(E) /\ Len(v) = k
        /\ \A i \in 1 .. k : v[i] = w[i + t - 1]
    BY <2>1, <2>4, <2>5
  <2>7. DOMAIN v = 1 .. k
    BY <2>6
  <2> QED BY <2>2, <2>6, <2>7
<1>14. ASSUME NEW i \in 1 .. n
       PROVE  /\ w[i].fence = p.deferred[i].fence - 1 /\ w[i].blocks = p.deferred[i].blocks
              /\ DOMAIN w[i] = {"fence", "blocks"}
              /\ p.deferred[i].fence \in Int /\ p.deferred[i].blocks \in SUBSET (1 .. NumBlocks)
  <2>1. DOMAIN p.deferred[i] = {"fence", "blocks"}
        /\ p.deferred[i].fence \in Int /\ p.deferred[i].blocks \in SUBSET (1 .. NumBlocks)
    BY <1>2 DEF Pools
  <2>2. w[i] = [p.deferred[i] EXCEPT !.fence = @ - 1]
    BY <1>5
  <2> QED BY <2>1, <2>2
<1>15. \A b : b \in f.free <=> b \in p.free \/ \E i \in 1 .. t - 1 : b \in p.deferred[i].blocks
  <2>1. \A i \in 1 .. t - 1 : w[i].blocks = p.deferred[i].blocks
    BY <1>10, <1>14
  <2> QED BY <1>7, <2>1
<1>16. \A i \in 1 .. t - 1 : p.deferred[i].fence <= 1
  <2> TAKE i \in 1 .. t - 1
  <2>1. i \in 1 .. n /\ ~(w[i].fence > 0)
    BY <1>9, <1>10
  <2> QED BY <1>14, <2>1
<1>17. Drains(f, p, t)
  BY <1>2, <1>7, <1>10, <1>12, <1>13, <1>14, <1>15, <1>16 DEF Drains
<1>18. Pools(f)
  <2>1. f.free \in SUBSET (1 .. NumBlocks)
    BY <1>10, <1>14, <1>15 DEF Pools
  <2>2. f.ahead \in Int
    BY <1>7 DEF Pools
  <2>3. \A i \in DOMAIN f.deferred :
          /\ DOMAIN f.deferred[i] = {"fence", "blocks"}
          /\ f.deferred[i].fence \in Int /\ f.deferred[i].blocks \in SUBSET (1 .. NumBlocks)
    <3> TAKE i \in DOMAIN f.deferred
    <3>1. PICK j \in 1 .. n : f.deferred[i] = w[j]
      BY <1>13
    <3>2. w[j].fence = p.deferred[j].fence - 1 /\ p.deferred[j].fence \in Int
      BY <1>14
    <3> QED BY <1>14, <3>1, <3>2
  <2> QED BY <1>7, <1>13, <2>1, <2>2, <2>3 DEF Pools
<1> QED BY <1>17, <1>18

LEMMA DrainApart ==
  ASSUME NEW p, NEW B, Apart(p, B), NEW f, NEW first, Drains(f, p, first)
  PROVE  Apart(f, B)
<1>1. PICK n \in Nat, k \in Nat : n = Len(p.deferred) /\ k = n + 1 - first
  BY DEF Drains
<1>2. /\ first \in 1 .. n + 1 /\ DOMAIN p.deferred = 1 .. n /\ DOMAIN f.deferred = 1 .. k
      /\ \A b : b \in f.free <=> b \in p.free \/ \E i \in 1 .. first - 1 : b \in p.deferred[i].blocks
      /\ \A i \in 1 .. k : f.deferred[i].blocks = p.deferred[i + first - 1].blocks
  BY <1>1 DEF Drains
<1>3. /\ \A i \in 1 .. k : i + first - 1 \in 1 .. n /\ i + first - 1 \notin 1 .. first - 1
      /\ \A i \in 1 .. first - 1 : i \in 1 .. n
      /\ \A i, j \in 1 .. k : i + first - 1 = j + first - 1 => i = j
  <2>1. first \in 1 .. n + 1 /\ k = n + 1 - first
    BY <1>1, <1>2
  <2> QED BY <2>1
<1>4. \A i \in 1 .. n : i \in 1 .. first - 1 \/ \E j \in 1 .. k : i = j + first - 1
  <2> TAKE i \in 1 .. n
  <2>1. i \in 1 .. first - 1 \/ (i - first + 1 \in 1 .. k /\ i = (i - first + 1) + first - 1)
    BY <1>1, <1>2
  <2> QED BY <2>1
<1>5. ASSUME NEW b \in 1 .. NumBlocks
      PROVE  \/ b \in f.free
             \/ \E d \in DOMAIN f.deferred : b \in f.deferred[d].blocks
             \/ \E r \in Reqs : b \in ToSet(B[r])
  <2>1. CASE b \in p.free \/ \E r \in Reqs : b \in ToSet(B[r])
    BY <1>2, <2>1
  <2>2. CASE \E d \in DOMAIN p.deferred : b \in p.deferred[d].blocks
    <3>1. PICK d \in 1 .. n : b \in p.deferred[d].blocks
      BY <1>2, <2>2
    <3> QED BY <1>2, <1>4, <3>1
  <2> QED BY <2>1, <2>2 DEF Apart
<1>6. ASSUME NEW d \in DOMAIN f.deferred, NEW b \in f.deferred[d].blocks
      PROVE  /\ b \notin f.free
             /\ \A e \in DOMAIN f.deferred : b \in f.deferred[e].blocks => e = d
  <2>1. b \in p.deferred[d + first - 1].blocks /\ d + first - 1 \in DOMAIN p.deferred
    BY <1>2, <1>3
  <2>2. b \notin p.free
        /\ \A e \in DOMAIN p.deferred : b \in p.deferred[e].blocks => e = d + first - 1
    BY <2>1 DEF Apart
  <2>3. b \notin f.free
    <3>1. ASSUME NEW i \in 1 .. first - 1, b \in p.deferred[i].blocks
          PROVE  FALSE
      <4>1. i = d + first - 1
        BY <1>2, <1>3, <2>2, <3>1
      <4> QED BY <1>2, <1>3, <4>1
    <3> QED BY <1>2, <2>2, <3>1
  <2>4. \A e \in DOMAIN f.deferred : b \in f.deferred[e].blocks => e = d
    BY <1>2, <1>3, <2>2
  <2> QED BY <2>3, <2>4
<1>7. ASSUME NEW r \in Reqs, NEW b \in ToSet(B[r])
      PROVE  /\ b \notin f.free
             /\ \A d \in DOMAIN f.deferred : b \notin f.deferred[d].blocks
             /\ \A q \in Reqs : b \in ToSet(B[q]) => q = r
  <2>1. b \notin p.free /\ \A d \in DOMAIN p.deferred : b \notin p.deferred[d].blocks
    BY DEF Apart
  <2> QED BY <1>2, <1>3, <2>1 DEF Apart
<1>8. \A r \in Reqs : IsInjective(B[r])
  BY DEF Apart
<1> QED BY <1>5, <1>6, <1>7, <1>8 DEF Apart
-----------------------------------------------------------------------------
(* How many tokens a request gets, whatever the numbers are. *)

LEMMA MinAbove ==
  ASSUME NEW a \in Int, NEW S \in SUBSET Int, S # {}, \A x \in S : a <= x
  PROVE  Min(S) \in S /\ \A x \in S : Min(S) <= x
<1> DEFINE R == {x - a : x \in S}
<1>1. R \in SUBSET Nat /\ R # {}
  <2>1. \A x \in S : x - a \in Nat
    OBVIOUS
  <2> QED BY <2>1
<1>2. PICK m \in R : \A y \in R : m <= y
  BY <1>1, MinFact
<1>3. PICK x \in S : m = x - a
  BY <1>2
<1>4. \A y \in S : x <= y
  <2> TAKE y \in S
  <2>1. x - a <= y - a
    BY <1>2, <1>3
  <2> QED BY <2>1
<1>5. \E z \in S : \A y \in S : z <= y
  BY <1>4
<1> QED BY <1>5 DEF Min

LEMMA MinOfThree ==
  ASSUME NEW x \in Int, NEW y \in Int, NEW z \in Int, NEW m, m = Min({x, y, z})
  PROVE  m \in Int /\ m <= x /\ m <= y /\ m <= z
<1>1. PICK a \in Int : a <= x /\ a <= y /\ a <= z
  <2>1. CASE x <= y /\ x <= z
    BY <2>1
  <2>2. CASE y <= x /\ y <= z
    BY <2>2
  <2>3. CASE z <= x /\ z <= y
    BY <2>3
  <2> QED BY <2>1, <2>2, <2>3
<1>2. {x, y, z} \in SUBSET Int /\ {x, y, z} # {} /\ \A w \in {x, y, z} : a <= w
  BY <1>1
<1>3. Min({x, y, z}) \in {x, y, z} /\ \A w \in {x, y, z} : Min({x, y, z}) <= w
  BY <1>2, MinAbove
<1> QED BY <1>3

LEMMA SplitIs ==
  ASSUME NEW c, NEW q, c.block \in Nat \ {0}, c.hash \in Nat \ {0},
         q.prompt \in Int, q.tokens \in Int, q.shared \in Int,
         NEW start \in Int, NEW n \in Int,
         NEW k, k = MambaBlockAlignedSplit(c, q, start, n)
  PROVE  k \in Int /\ (k <= n \/ k = 0)
<1> DEFINE end == AlignedEnd(c, q, start, n)
           inside == {s \in Stops(c, q, start, end) : start < s /\ s < end}
<1>1. LastCachePosition(c, q) \in Int
  <2>1. PICK last : last = FloorTo(q.tokens, c.block)
    OBVIOUS
  <2>2. last \in Int /\ c.block \in Int
    <3>1. PICK b \in Nat \ {0}, t \in Int : b = c.block /\ t = q.tokens
      OBVIOUS
    <3>2. FloorTo(t, b) \in Int
      BY DivFact
    <3> QED BY <2>1, <3>1, <3>2
  <2>3. Max({last - c.block, 0}) \in Int
    BY <2>2, MaxOfTwo
  <2> QED BY <2>1, <2>2, <2>3 DEF LastCachePosition
<1>2. PICK e : e = end
  OBVIOUS
<1>3. e \in Int /\ e <= start + n
  <2>1. FloorTo(start + n, c.block) \in Int /\ FloorTo(start + n, c.block) <= start + n
    <3>1. start + n \in Int
      OBVIOUS
    <3> QED BY <3>1, DivFact
  <2> QED BY <1>2, <2>1 DEF AlignedEnd
<1>4. Stops(c, q, start, e) \in SUBSET Int
  <2>1. FloorTo(start, c.block) \in Int /\ FloorTo(q.prompt, c.hash) \in Int
    BY DivFact
  <2>2. FloorTo(q.shared - start, c.block) \in Int
    <3>1. q.shared - start \in Int
      OBVIOUS
    <3> QED BY <3>1, DivFact
  <2> QED BY <1>1, <2>1, <2>2 DEF Stops
<1>5. PICK I : I = inside
  OBVIOUS
<1>6. I \in SUBSET Int /\ \A s \in I : start <= s /\ s < e
  BY <1>2, <1>4, <1>5
<1>7. PICK z : z = IF I = {} THEN e ELSE Min(I)
  OBVIOUS
<1>8. z \in Int /\ z <= e
  <2>1. CASE I = {}
    BY <1>3, <1>7, <2>1
  <2>2. CASE I # {}
    <3>1. Min(I) \in I
      BY <1>6, <2>2, MinAbove
    <3> QED BY <1>3, <1>6, <1>7, <2>2, <3>1
  <2> QED BY <2>1, <2>2
<1>9. k = n \/ k = Max({z - start, 0})
  BY <1>2, <1>5, <1>7 DEF MambaBlockAlignedSplit
<1>10. z - start \in Int /\ z - start <= n
  BY <1>3, <1>8
<1> QED BY <1>9, <1>10, MaxOfTwo

LEMMA LookaheadIs ==
  ASSUME NEW c, NEW q, c.lookahead \in Int, q.tokens \in Int, NEW computed \in Int,
         NEW n \in Int, NEW k, k = ReserveLookahead(c, q, computed, n)
  PROVE  k \in Nat /\ (k <= n \/ k = 0)
<1>1. PICK m : m = q.tokens - computed - n
  OBVIOUS
<1>2. PICK x : x = IF 0 < m /\ m < c.lookahead THEN n - (c.lookahead - m) ELSE n
  OBVIOUS
<1>3. k = Max({x, 0})
  BY <1>1, <1>2 DEF ReserveLookahead
<1>4. x \in Int /\ x <= n
  BY <1>1, <1>2
<1> QED BY <1>3, <1>4, MaxOfTwo

LEMMA ChunkIs ==
  ASSUME NEW r \in Reqs, Numbers(req[r]), NEW start \in Int, NEW n \in Int
  PROVE  /\ Clipped(r, start, n) \in Int /\ (Clipped(r, start, n) <= n \/ Clipped(r, start, n) = 0)
         /\ Reserved(r, start, n) \in Nat
         /\ (Reserved(r, start, n) <= n \/ Reserved(r, start, n) = 0)
<1>1. PICK c : c = SplitConf
  OBVIOUS
<1>2. PICK q : q = SplitReq(r)
  OBVIOUS
<1>3. /\ c.block \in Nat \ {0} /\ c.hash \in Nat \ {0} /\ c.lookahead \in Int
      /\ q.prompt \in Int /\ q.tokens \in Int /\ q.shared \in Int
  BY <1>1, <1>2, LimitsAssumption DEF SplitConf, SplitReq, Numbers
<1>4. PICK k, l : k = MambaBlockAlignedSplit(c, q, start, n) /\ l = ReserveLookahead(c, q, start, n)
  OBVIOUS
<1>5. k \in Int /\ (k <= n \/ k = 0)
  BY <1>3, <1>4, SplitIs
<1>6. l \in Nat /\ (l <= n \/ l = 0)
  BY <1>3, <1>4, LookaheadIs
<1>7. Clipped(r, start, n) = IF Align THEN k ELSE n
  BY <1>1, <1>2, <1>4 DEF Clipped
<1>8. Reserved(r, start, n) = l
  BY <1>1, <1>2, <1>4 DEF Reserved
<1> QED BY <1>5, <1>6, <1>7, <1>8

LEMMA RunningTokensIs ==
  ASSUME NEW r \in Reqs, Numbers(req[r]), pass.budget \in Int, NEW n, n = RunningTokens(r)
  PROVE  /\ n \in Nat
         /\ n = 0 \/ /\ n <= req[r].tokens + req[r].specs + req[r].placeholders - req[r].computed
                     /\ n <= pass.budget /\ n <= MaxModelLen - req[r].computed - 1
<1>1. PICK x, y, z : /\ x = req[r].tokens + req[r].specs + req[r].placeholders - req[r].computed
                     /\ y = pass.budget /\ z = MaxModelLen - req[r].computed - 1
  OBVIOUS
<1>2. x \in Int /\ y \in Int /\ z \in Int /\ req[r].computed \in Int
  <2>1. PICK a, b, d, e : a = req[r].tokens /\ b = req[r].specs /\ d = req[r].placeholders
                          /\ e = req[r].computed
    OBVIOUS
  <2>2. a \in Int /\ b \in Int /\ d \in Int /\ e \in Int
    BY <2>1 DEF Numbers
  <2>3. MaxModelLen \in Int
    BY LimitsAssumption
  <2>4. x = a + b + d - e /\ z = MaxModelLen - e - 1
    BY <1>1, <2>1
  <2> QED BY <1>1, <2>1, <2>2, <2>3, <2>4
<1>3. PICK m : m = Min({x, y, z})
  OBVIOUS
<1>4. m \in Int /\ m <= x /\ m <= y /\ m <= z
  BY <1>2, <1>3, MinOfThree
<1>5. PICK k : k = Clipped(r, req[r].computed, m)
  OBVIOUS
<1>6. k \in Int /\ (k <= m \/ k = 0)
  BY <1>2, <1>4, <1>5, ChunkIs
<1>7. PICK l : l = Reserved(r, req[r].computed, k)
  OBVIOUS
<1>8. l \in Nat /\ (l <= k \/ l = 0)
  BY <1>2, <1>6, <1>7, ChunkIs
<1>9. n = 0 \/ n = l
  BY <1>1, <1>3, <1>5, <1>7 DEF RunningTokens
<1>10. n \in Nat /\ (n = 0 \/ n <= m)
  BY <1>4, <1>6, <1>8, <1>9
<1> QED BY <1>1, <1>2, <1>4, <1>10

LEMMA AdmissionIs ==
  ASSUME NEW r \in Reqs, Numbers(req[r]), pass.budget \in Int, NEW a, a = Admission(r)
  PROVE  /\ a.n \in Nat /\ a.specs \in Nat
         /\ Padded(r) => a.n <= 1 + NumSpec
         /\ ~Padded(r) => a.specs = 0 /\ (a.n = 0 \/ (/\ a.n <= req[r].tokens - req[r].computed
                                                     /\ a.n <= pass.budget))
<1>1. PICK start : start = req[r].computed
  OBVIOUS
<1>2. PICK m : m = IF Padded(r) THEN 1 + NumSpec ELSE Min({req[r].tokens - start, pass.budget})
  OBVIOUS
<1>3. /\ start \in Int /\ m \in Int
      /\ ~Padded(r) => m <= req[r].tokens - start /\ m <= pass.budget
      /\ NumSpec \in Nat
  <2>1. req[r].tokens - start \in Int /\ start \in Int
    BY <1>1 DEF Numbers
  <2> QED BY <1>2, <2>1, MinOfTwo, LimitsAssumption
<1>4. PICK c : c = Clipped(r, start, m)
  OBVIOUS
<1>5. c \in Int /\ (c <= m \/ c = 0)
  BY <1>3, <1>4, ChunkIs
<1>6. PICK u : u = IF Padded(r) /\ c # m THEN Min({c, 1}) ELSE c
  OBVIOUS
<1>7. u \in Int /\ u <= c
  BY <1>5, <1>6, MinOfTwo
<1>8. PICK k : k = Reserved(r, start, u)
  OBVIOUS
<1>9. k \in Nat /\ (k <= u \/ k = 0)
  BY <1>3, <1>7, <1>8, ChunkIs
<1>10. a = [n |-> k, specs |-> IF Padded(r) /\ ~(Padded(r) /\ c # m) THEN NumSpec ELSE 0]
  BY <1>1, <1>2, <1>4, <1>6, <1>8 DEF Admission
<1>11. a.n = k /\ a.specs \in {NumSpec, 0} /\ (~Padded(r) => a.specs = 0)
  BY <1>10
<1>12. Padded(r) => k <= 1 + NumSpec
  BY <1>2, <1>3, <1>5, <1>7, <1>9
<1>13. ~Padded(r) => k = 0 \/ (k <= req[r].tokens - start /\ k <= pass.budget)
  BY <1>1, <1>3, <1>5, <1>7, <1>9 DEF Numbers
<1> QED BY <1>1, <1>3, <1>9, <1>11, <1>12, <1>13

-----------------------------------------------------------------------------
(* The blocks a request lacks, and those that are reserved. *)

LEMMA LackingIs ==
  ASSUME NEW r \in Reqs, req[r].blocks \in Seq(1 .. NumBlocks), NEW n \in Int
  PROVE  Lacking(r, n) \in Nat
<1>1. PICK m : m = Min({n, MaxModelLen})
  OBVIOUS
<1>2. m \in Int
  BY <1>1, MinOfTwo, LimitsAssumption
<1>3. BlockSize \in Nat \ {0} /\ m + BlockSize - 1 \in Int
  BY <1>2, LimitsAssumption
<1>4. BlocksFor(m) \in Int
  BY <1>3, DivFact DEF BlocksFor
<1>5. Len(req[r].blocks) \in Nat
  OBVIOUS
<1>6. PICK x : x = BlocksFor(m) - Len(req[r].blocks)
  OBVIOUS
<1>7. x \in Int /\ Lacking(r, n) = Max({x, 0})
  BY <1>1, <1>4, <1>5, <1>6 DEF Lacking
<1> QED BY <1>7, MaxOfTwo

LEMMA FreeIsFinite ==
  ASSUME PoolInv
  PROVE  IsFiniteSet(pool.free) /\ Cardinality(pool.free) \in Nat
<1>1. 1 \in Int /\ NumBlocks \in Int
  BY LimitsAssumption
<1>2. IsFiniteSet(1 .. NumBlocks)
  BY <1>1, FS_Interval
<1>3. pool.free \in SUBSET (1 .. NumBlocks)
  BY DEF PoolInv, Pools
<1> QED BY <1>2, <1>3, FS_Subset, FS_CardinalityType

LEMMA ReservedIsNat ==
  ASSUME \A r \in Reqs : Numbers(req[r]), inflightPrefills \in SUBSET Reqs, IsFiniteSet(Reqs)
  PROVE  ReservedBlocks \in Nat
<1> DEFINE S == {{r} \X (1 .. Lacking(r, req[r].tokens)) : r \in inflightPrefills}
<1>1. IsFiniteSet(inflightPrefills)
  BY FS_Subset
<1>2. IsFiniteSet(S)
  <2> DEFINE F == [r \in inflightPrefills |-> {r} \X (1 .. Lacking(r, req[r].tokens))]
  <2>1. F \in Surjection(inflightPrefills, S)
    BY DEF Surjection
  <2> HIDE DEF F, S
  <2> QED BY <1>1, <2>1, FS_Surjection
<1>3. ASSUME NEW s \in S PROVE IsFiniteSet(s)
  <2>1. PICK r \in inflightPrefills : s = {r} \X (1 .. Lacking(r, req[r].tokens))
    OBVIOUS
  <2>2. Lacking(r, req[r].tokens) \in Nat
    BY LackingIs DEF Numbers
  <2>3. IsFiniteSet(1 .. Lacking(r, req[r].tokens))
    <3>1. 1 \in Int /\ Lacking(r, req[r].tokens) \in Int
      BY <2>2
    <3> QED BY <3>1, FS_Interval
  <2>4. IsFiniteSet({r})
    BY FS_Singleton
  <2> QED BY <2>1, <2>3, <2>4, FS_Product
<1> HIDE DEF S
<1>4. IsFiniteSet(UNION S)
  BY <1>2, <1>3, FS_UNION
<1>5. ReservedBlocks = Cardinality(UNION S)
  BY DEF ReservedBlocks, S
<1> QED BY <1>4, <1>5, FS_CardinalityType

(* What fits can be taken. *)
LEMMA TakeIs ==
  ASSUME PoolInv, NEW B \in BlockLists, B = Blocks(req), Apart(pool, B),
         NEW r \in Reqs, NEW n \in Int, NEW x \in Nat, Fits(r, n, x),
         NEW w, w = Allocated(r, n),
         NEW f, DOMAIN f = DOMAIN pool, f.free = pool.free \ ToSet(w),
         f.deferred = pool.deferred, f.ahead = pool.ahead,
         NEW C, Adds(C, B, r, w)
  PROVE  /\ Pools(f) /\ f.ahead = pool.ahead /\ f.deferred = pool.deferred /\ Apart(f, C)
         /\ \A q \in Reqs : C[q] \in Seq(1 .. NumBlocks)
         /\ ToSet(B[r]) \in SUBSET ToSet(C[r])
<1>1. PICK k \in Nat : k = Lacking(r, n)
  <2>1. req[r].blocks \in Seq(1 .. NumBlocks)
    BY DEF Blocks, BlockLists
  <2> QED BY <2>1, LackingIs
<1>2. k <= Cardinality(pool.free)
  BY <1>1, FreeIsFinite DEF Fits
<1>3. w \in Seq(1 .. NumBlocks) /\ ToSet(w) \in SUBSET pool.free /\ IsInjective(w)
  BY <1>1, <1>2, AllocatedIs
<1>4. Pools(f) /\ f.ahead = pool.ahead /\ f.deferred = pool.deferred
      /\ f.free = pool.free \ ToSet(w)
  BY DEF PoolInv, Pools
<1>5. Apart(f, C)
  BY <1>3, <1>4, TakeApart
<1>6. PICK p, c : p = B[r] /\ c = C[r]
  OBVIOUS
<1>7. p \in Seq(1 .. NumBlocks) /\ c = p \o w /\ \A q \in Reqs \ {r} : C[q] = B[q]
  BY <1>6 DEF BlockLists, Adds
<1>8. /\ c \in Seq(1 .. NumBlocks) /\ Len(p) \in Nat /\ Len(w) \in Nat
      /\ DOMAIN c = 1 .. Len(p) + Len(w) /\ DOMAIN p = 1 .. Len(p)
      /\ \A i \in 1 .. Len(p) : c[i] = p[i]
  BY <1>3, <1>7, ConcatIs
<1>9. \A i \in 1 .. Len(p) : i \in 1 .. Len(p) + Len(w)
  BY <1>8
<1>10. \A b \in ToSet(p) : b \in ToSet(c)
  BY <1>8, <1>9 DEF ToSet
<1>11. \A q \in Reqs : C[q] \in Seq(1 .. NumBlocks)
  BY <1>6, <1>7, <1>8 DEF BlockLists
<1> QED BY <1>4, <1>5, <1>6, <1>10, <1>11
-----------------------------------------------------------------------------
(* Steps that send out no step and apply no output. *)

(* What such a step does to a request.                                      *)
CalmFor(r) ==
  LET q == req[r]
      p == req'[r]
  IN  /\ Numbers(p)
      /\ p.inFlight = q.inFlight /\ p.lastSeq = q.lastSeq
      /\ q.status = "gone" => p.status = "gone"
      /\ q.status = "finished" => p.status = "finished"
      /\ q.status = "remote" => p.status \in {"remote", "finished"} \/ r \in finishedRecv
      /\ p.status = "remote" => q.status = "remote" \/ conf.connector
      /\ p.status = "remote" /\ p.stale > 0 => p.drop
      /\ \/ p.status \in {"running"} \cup Past
         \/ p.stale = p.inFlight
         \/ q.status \notin {"running"} \cup Past /\ p.stale = q.stale
      /\ r \in finishedRecv' => r \in finishedRecv /\ p.status = "remote"

Calm ==
  /\ conf' = conf /\ flight' = flight
  /\ inflightPrefills' \in SUBSET Reqs /\ finishedRecv' \in SUBSET finishedRecv
  /\ pass'.pc # "idle" => Len(flight) < conf.concurrent
  /\ \A r \in Reqs : CalmFor(r)

(* What it does to the blocks of a request: they are still its own, or wait *)
(* for the steps in flight where that matters.                              *)
PlacedFor(r) ==
  \/ /\ Owned(r) \in SUBSET ToSet(req'[r].blocks)
     /\ req[r].status \in {"running", "finished"} => req'[r].status \in {"running", "finished"}
  \/ \A b \in Owned(r) : Fenced(req[r]) =>
        \E d \in DOMAIN pool'.deferred :
          b \in pool'.deferred[d].blocks /\ pool'.deferred[d].fence = pool.ahead
  \/ req[r].status \notin {"running", "finished"}

Placed ==
  /\ Pools(pool') /\ Apart(pool', Blocks(req'))
  /\ pool'.ahead = pool.ahead
  /\ \A d \in DOMAIN pool.deferred :
       d \in DOMAIN pool'.deferred /\ pool'.deferred[d] = pool.deferred[d]
  /\ \A r \in Reqs : PlacedFor(r)
  /\ pass.pc = "idle" => \A r \in Reqs : ToSet(req'[r].blocks) \in SUBSET Owned(r)

BlockInv == NumInv /\ ShareInv /\ TransferInv /\ PoolInv /\ Apart(pool, Blocks(req))

LEMMA SameIsCalm ==
  ASSUME BlockInv, RequestInv, UNCHANGED <<conf, req, pool, flight, finishedRecv>>,
         pass'.pc # "idle" => Len(flight) < conf.concurrent,
         inflightPrefills' = inflightPrefills
  PROVE  Calm /\ Placed
<1>1. \A r \in Reqs : CalmFor(r)
  <2> TAKE r \in Reqs
  <2>1. Numbers(req'[r])
    BY DEF BlockInv, NumInv
  <2>2. /\ req[r].status = "remote" /\ req[r].stale > 0 => req[r].drop
        /\ r \in finishedRecv => req[r].status = "remote"
    BY DEF BlockInv, ShareInv, TransferInv
  <2> QED BY <2>1, <2>2 DEF CalmFor
<1>2. \A r \in Reqs : PlacedFor(r)
  BY DEF PlacedFor, Owned
<1>3. inflightPrefills' \in SUBSET Reqs
  BY DEF BlockInv, NumInv
<1>4. Pools(pool') /\ Apart(pool', Blocks(req'))
  BY DEF BlockInv, PoolInv
<1>5. Calm
  BY <1>1, <1>3 DEF Calm
<1> QED BY <1>2, <1>4, <1>5 DEF Placed, Owned

(* The requests that such a step leaves alone. *)
LEMMA OthersAreCalm ==
  ASSUME BlockInv, NEW r \in Reqs, req'[r] = req[r],
         finishedRecv' \in SUBSET finishedRecv
  PROVE  CalmFor(r) /\ PlacedFor(r)
<1>1. Numbers(req'[r])
  BY DEF BlockInv, NumInv
<1>2. /\ req[r].status = "remote" /\ req[r].stale > 0 => req[r].drop
      /\ r \in finishedRecv => req[r].status = "remote"
  BY DEF BlockInv, ShareInv, TransferInv
<1>3. CalmFor(r)
  BY <1>1, <1>2 DEF CalmFor
<1> QED BY <1>3 DEF PlacedFor, Owned

LEMMA BlocksAreLists ==
  ASSUME BlockInv
  PROVE  Blocks(req) \in BlockLists
BY DEF BlockInv, NumInv, Numbers, Blocks, BlockLists

(* r takes the blocks it lacks for n tokens, and no other request changes. *)
Takes(r, n) ==
  /\ pool' = [pool EXCEPT !.free = @ \ ToSet(Allocated(r, n))]
  /\ req'[r].blocks = req[r].blocks \o Allocated(r, n)
  /\ \A q \in Reqs \ {r} : req'[q] = req[q]

LEMMA GrowPlaced ==
  ASSUME BlockInv, NEW r \in Reqs, NEW n \in Int, NEW x \in Nat, Fits(r, n, x), Takes(r, n)
  PROVE  /\ Pools(pool') /\ pool'.ahead = pool.ahead /\ pool'.deferred = pool.deferred
         /\ Apart(pool', Blocks(req'))
         /\ req'[r].blocks \in Seq(1 .. NumBlocks) /\ Owned(r) \in SUBSET ToSet(req'[r].blocks)
<1>1. PICK w, B, C, f : w = Allocated(r, n) /\ B = Blocks(req) /\ C = Blocks(req') /\ f = pool'
  OBVIOUS
<1>2. B \in BlockLists /\ Adds(C, B, r, w)
  <2>1. C[r] = B[r] \o w
    BY <1>1 DEF Blocks, Takes
  <2>2. \A s \in Reqs \ {r} : C[s] = B[s]
    BY <1>1 DEF Blocks, Takes
  <2> QED BY <1>1, <2>1, <2>2, BlocksAreLists DEF Adds
<1>3. PoolInv /\ Apart(pool, B)
  BY <1>1 DEF BlockInv
<1>4. /\ DOMAIN f = DOMAIN pool /\ f.free = pool.free \ ToSet(w)
      /\ f.deferred = pool.deferred /\ f.ahead = pool.ahead
  BY <1>1 DEF BlockInv, PoolInv, Pools, Takes
<1>5. /\ Pools(f) /\ f.ahead = pool.ahead /\ f.deferred = pool.deferred
      /\ Apart(f, C)
      /\ C[r] \in Seq(1 .. NumBlocks) /\ ToSet(B[r]) \in SUBSET ToSet(C[r])
  <2>1. Fits(r, n, x) /\ w = Allocated(r, n) /\ B = Blocks(req)
    BY <1>1
  <2> QED BY <1>2, <1>3, <1>4, <2>1, TakeIs
<1>6. C[r] = req'[r].blocks /\ B[r] = req[r].blocks
  BY <1>1 DEF Blocks
<1> QED BY <1>1, <1>5, <1>6 DEF Owned

LEMMA GivePlaced ==
  ASSUME BlockInv, NEW rq, Blocks(rq) = Blocks(req),
         \A r \in Reqs : rq[r].lastSeq = req[r].lastSeq,
         NEW rs, NEW X \in SUBSET Reqs, Lists(rs, X), pool' = FreeRequestBlocks(pool, rq, rs),
         \A r \in Reqs : req'[r].blocks = IF r \in X THEN <<>> ELSE req[r].blocks
  PROVE  /\ Pools(pool') /\ pool'.ahead = pool.ahead /\ Apart(pool', Blocks(req'))
         /\ \A d \in DOMAIN pool.deferred :
              d \in DOMAIN pool'.deferred /\ pool'.deferred[d] = pool.deferred[d]
         /\ \A r \in X : \A b \in Owned(r) : Fenced(req[r]) =>
              \E d \in DOMAIN pool'.deferred :
                b \in pool'.deferred[d].blocks /\ pool'.deferred[d].fence = pool.ahead
<1>1. PICK f, p : f = pool' /\ p = pool
  OBVIOUS
<1>2. Pools(p) /\ Blocks(rq) \in BlockLists /\ Apart(p, Blocks(rq))
  BY <1>1, BlocksAreLists DEF BlockInv, PoolInv
<1>3. f = FreeRequestBlocks(p, rq, rs)
  BY <1>1
<1>4. Pools(f) /\ \E l : Freed(f, p, rq, X, l)
  BY <1>2, <1>3, FreedIs
<1>5. PICK l : Freed(f, p, rq, X, l)
  BY <1>4
<1>6. \A r \in Reqs : rq[r].blocks = req[r].blocks
  <2> TAKE r \in Reqs
  <2>1. Blocks(rq)[r] = rq[r].blocks /\ Blocks(req)[r] = req[r].blocks
    BY DEF Blocks
  <2> QED BY <2>1
<1>7. PICK C : C = [r \in Reqs |-> IF r \in X THEN <<>> ELSE rq[r].blocks]
  OBVIOUS
<1>8. C = Blocks(req')
  BY <1>6, <1>7 DEF Blocks
<1>9. Apart(f, C)
  BY <1>2, <1>5, <1>7, GiveApart
<1>10. PICK n \in Nat, m \in Nat : n = Len(p.deferred) /\ m = Len(l)
  BY <1>5 DEF Freed
<1>11. /\ DOMAIN p.deferred = 1 .. n /\ DOMAIN l = 1 .. m /\ DOMAIN f.deferred = 1 .. n + m
       /\ \A i \in 1 .. n : f.deferred[i] = p.deferred[i]
       /\ \A i \in 1 .. m : f.deferred[n + i].blocks = ToSet(rq[l[i]].blocks)
                            /\ f.deferred[n + i].fence = p.ahead
       /\ Lists(l, Later(X, rq)) /\ f.ahead = p.ahead
  BY <1>5, <1>10 DEF Freed
<1>12. \A d \in DOMAIN p.deferred : d \in DOMAIN f.deferred /\ f.deferred[d] = p.deferred[d]
  BY <1>11
<1>13. ASSUME NEW r \in X, NEW b \in Owned(r), Fenced(req[r])
       PROVE  \E d \in DOMAIN f.deferred :
                b \in f.deferred[d].blocks /\ f.deferred[d].fence = p.ahead
  <2>1. Fenced(rq[r]) /\ b \in ToSet(rq[r].blocks)
    BY <1>6, <1>13 DEF Fenced, Owned
  <2>2. rq[r].blocks # <<>>
    BY <2>1, NoneOf
  <2>3. r \in ToSet(l)
    BY <1>11, <2>1, <2>2 DEF Later, Lists
  <2>4. PICK i \in 1 .. m : l[i] = r
    BY <1>11, <2>3 DEF ToSet
  <2>5. n + i \in 1 .. n + m
    OBVIOUS
  <2> QED BY <1>11, <2>1, <2>4, <2>5
<1> QED BY <1>1, <1>4, <1>8, <1>9, <1>11, <1>12, <1>13

LEMMA ScheduleRunningCalm ==
  ASSUME QueueInv, BlockInv, ScheduleRunning, UNCHANGED <<runnerVars, left>>
  PROVE  Calm /\ Placed /\ ItemInv'
<1>1. PICK r, n, upto, w :
        r = running[pass.idx] /\ n = RunningTokens(r) /\ upto = req[r].computed + n + NumSpec
        /\ w = Allocated(r, upto)
  OBVIOUS
<1>2. PICK R : Lists(running, R) /\ R = {q \in Reqs : req[q].status = "running"}
  BY DEF QueueInv, ListInv, Places
<1>3. r \in Reqs /\ req[r].status = "running"
  <2>1. pass.idx \in Nat \ {0} /\ pass.idx <= Len(running)
    BY DEF ScheduleRunning, InRunningPass, QueueInv, PassInv
  <2>2. Len(running) \in Nat /\ DOMAIN running = 1 .. Len(running)
    BY <1>2 DEF Lists
  <2>3. pass.idx \in DOMAIN running
    BY <2>1, <2>2
  <2>4. r \in ToSet(running)
    BY <1>1, <2>3 DEF ToSet
  <2> QED BY <1>2, <2>4 DEF Lists
<1>4. Numbers(req[r]) /\ pass.budget \in Int /\ DOMAIN req = Reqs /\ DOMAIN req[r] = Fields
  BY <1>3 DEF BlockInv, NumInv, ItemInv, QueueInv, RequestInv
<1>5. n \in Nat
  BY <1>1, <1>3, <1>4, RunningTokensIs
<1>6. /\ n > 0 /\ Fits(r, upto, 0)
      /\ pool' = [pool EXCEPT !.free = @ \ ToSet(w)]
      /\ req' = [req EXCEPT ![r].blocks = @ \o w, ![r].specs = 0]
      /\ pass' = [pass EXCEPT !.idx = @ + 1, !.budget = @ - n,
                     !.prefill = @ \/ req[r].chunk,
                     !.items = Append(@, Scheduled(r, n, DraftsAmong(req[r], n), FALSE))]
      /\ UNCHANGED <<conf, queues, ids, kv, pause>>
  BY <1>1 DEF ScheduleRunning
<1>7. upto \in Int
  BY <1>1, <1>4, <1>5, LimitsAssumption DEF Numbers
<1>8. /\ req'[r] = [req[r] EXCEPT !.blocks = @ \o w, !.specs = 0]
      /\ \A q \in Reqs \ {r} : req'[q] = req[q]
  BY <1>3, <1>4, <1>6
<1>9. PICK p, q : p = req'[r] /\ q = req[r]
  OBVIOUS
<1>10. /\ p.status = q.status /\ p.inFlight = q.inFlight /\ p.lastSeq = q.lastSeq
       /\ p.prompt = q.prompt /\ p.tokens = q.tokens /\ p.computed = q.computed
       /\ p.stale = q.stale /\ p.placeholders = q.placeholders /\ p.specs = 0
       /\ p.blocks = q.blocks \o w
  BY <1>4, <1>8, <1>9, FieldsAre
<1>11. /\ Pools(pool') /\ pool'.ahead = pool.ahead /\ pool'.deferred = pool.deferred
       /\ Apart(pool', Blocks(req'))
       /\ p.blocks \in Seq(1 .. NumBlocks) /\ ToSet(q.blocks) \in SUBSET ToSet(p.blocks)
  <2>1. Fits(r, upto, 0) /\ 0 \in Nat
    BY <1>6
  <2>2. Takes(r, upto)
    BY <1>1, <1>6, <1>8, <1>9, <1>10 DEF Takes
  <2> QED BY <1>3, <1>7, <1>9, <2>1, <2>2, GrowPlaced DEF Owned
<1>12. Numbers(p)
  BY <1>4, <1>9, <1>10, <1>11 DEF Numbers
<1>13. CalmFor(r) /\ PlacedFor(r)
  <2>1. /\ p.status = "running" /\ q.status = "running"
        /\ ToSet(q.blocks) \in SUBSET ToSet(p.blocks)
    BY <1>3, <1>9, <1>10, <1>11
  <2>2. r \notin finishedRecv'
    BY <1>3, <1>6 DEF BlockInv, TransferInv, kv
  <2> QED BY <1>9, <1>10, <1>12, <2>1, <2>2 DEF CalmFor, PlacedFor, Owned
<1>14. finishedRecv' = finishedRecv /\ inflightPrefills' = inflightPrefills
       /\ conf' = conf /\ flight' = flight
  BY <1>6 DEF kv, runnerVars
<1>15. \A s \in Reqs : CalmFor(s) /\ PlacedFor(s)
  BY <1>8, <1>13, <1>14, OthersAreCalm
<1>16. DraftsAmong(req[r], n) \in Nat
  <2>1. PICK x : x = n + q.computed - q.tokens - q.placeholders
    OBVIOUS
  <2>2. x \in Int /\ q.specs \in Int
    BY <1>4, <1>5, <1>9, <2>1 DEF Numbers
  <2>3. Min({q.specs, x}) \in Int
    BY <2>2, MinOfTwo
  <2>4. Max({Min({q.specs, x}), 0}) \in Nat
    BY <2>3, MaxOfTwo
  <2> QED BY <1>9, <2>1, <2>4 DEF DraftsAmong
<1>17. ItemInv'
  <2>1. PICK item : item = Scheduled(r, n, DraftsAmong(req[r], n), FALSE)
    OBVIOUS
  <2>2. item.n = n /\ item.specs \in Nat
    BY <1>16, <2>1 DEF Scheduled
  <2>3. PICK X : pass.items \in Seq(X)
    BY DEF QueueInv, PassInv
  <2>4. DOMAIN pass = DOMAIN NoPass
    BY DEF QueueInv, PassInv
  <2>5. pass'.budget = pass.budget - n /\ pass'.items = Append(pass.items, item)
    BY <1>6, <2>1, <2>4, FieldsAre
  <2>6. \A i \in DOMAIN pass'.items :
           \/ i \in DOMAIN pass.items /\ pass'.items[i] = pass.items[i]
           \/ pass'.items[i] = item
    BY <2>3, <2>5
  <2>7. \A i \in DOMAIN pass.items : pass.items[i].n \in Nat \ {0} /\ pass.items[i].specs \in Nat
    BY DEF BlockInv, NumInv, ItemInv
  <2>8. n \in Nat \ {0} /\ pass'.budget \in Int
    BY <1>4, <1>5, <1>6, <2>5
  <2> QED BY <2>2, <2>6, <2>7, <2>8 DEF ItemInv
<1>18. Calm
  <2>1. Len(flight) < conf.concurrent
    BY DEF BlockInv, ShareInv, ScheduleRunning, InRunningPass
  <2> QED BY <1>14, <1>15, <2>1 DEF Calm, BlockInv, NumInv
<1>19. Placed
  BY <1>11, <1>15 DEF Placed, ScheduleRunning, InRunningPass
<1> QED BY <1>17, <1>18, <1>19
-----------------------------------------------------------------------------
(* Steps that move blocks of one request, or of none. *)

LEMMA KeptPlaced ==
  ASSUME BlockInv, pool' = pool, \A r \in Reqs : req'[r].blocks = req[r].blocks,
         \A r \in Reqs : req[r].status \in {"running", "finished"} =>
            req'[r].status \in {"running", "finished"}
  PROVE  Placed
<1>1. Blocks(req') = Blocks(req)
  BY DEF Blocks
<1>2. Pools(pool') /\ Apart(pool', Blocks(req'))
  BY <1>1 DEF BlockInv, PoolInv
<1>3. \A r \in Reqs : PlacedFor(r)
  BY DEF PlacedFor, Owned
<1> QED BY <1>2, <1>3 DEF Placed, Owned

LEMMA ItemsKept ==
  ASSUME BlockInv, pass'.budget = pass.budget, pass'.items = pass.items
  PROVE  ItemInv'
BY DEF BlockInv, NumInv, ItemInv

LEMMA NumbersAre ==
  ASSUME BlockInv, RequestInv, NEW r \in Reqs
  PROVE  Numbers(req[r]) /\ DOMAIN req = Reqs /\ DOMAIN req[r] = Fields
BY DEF BlockInv, NumInv, RequestInv

LEMMA ArriveCalm ==
  ASSUME QueueInv, BlockInv, NEW r \in Reqs, Arrive(r)
  PROVE  Calm /\ Placed /\ ItemInv'
<1>1. PICK st \in {"waiting", "grammar"} : req' = [req EXCEPT ![r].status = st]
  BY DEF Arrive, AddRequest
<1>2. /\ Numbers(req[r]) /\ DOMAIN req = Reqs /\ DOMAIN req[r] = Fields
      /\ req[r].status = "none" /\ r \notin finishedRecv
  BY NumbersAre DEF QueueInv, Arrive, AddRequest, BlockInv, TransferInv
<1>3. req'[r] = [req[r] EXCEPT !.status = st] /\ \A q \in Reqs \ {r} : req'[q] = req[q]
  BY <1>1, <1>2
<1>4. /\ pool' = pool /\ conf' = conf /\ flight' = flight /\ finishedRecv' = finishedRecv
      /\ inflightPrefills' = inflightPrefills /\ pass' = pass /\ pass.pc = "idle"
  BY DEF Arrive, AddRequest, runnerVars, kv
<1>5. PICK p, q : p = req'[r] /\ q = req[r]
  OBVIOUS
<1>6. /\ p.status = st /\ p.prompt = q.prompt /\ p.tokens = q.tokens
      /\ p.computed = q.computed /\ p.inFlight = q.inFlight /\ p.stale = q.stale
      /\ p.placeholders = q.placeholders /\ p.specs = q.specs /\ p.lastSeq = q.lastSeq
      /\ p.blocks = q.blocks
  BY <1>2, <1>3, <1>5, FieldsAre
<1>7. CalmFor(r)
  <2>1. Numbers(p)
    BY <1>2, <1>5, <1>6 DEF Numbers
  <2>2. q.status \notin {"running"} \cup Past /\ q.status # "remote" /\ p.status # "remote"
    BY <1>2, <1>5, <1>6 DEF Past
  <2> QED BY <1>2, <1>4, <1>5, <1>6, <2>1, <2>2 DEF CalmFor
<1>8. \A s \in Reqs : CalmFor(s)
  BY <1>3, <1>4, <1>7, OthersAreCalm
<1>9. Calm
  BY <1>4, <1>8 DEF Calm, BlockInv, NumInv
<1>10. Placed
  <2>1. \A s \in Reqs : req'[s].blocks = req[s].blocks
    BY <1>3, <1>5, <1>6
  <2>2. \A s \in Reqs : req[s].status \in {"running", "finished"} => req'[s].status = req[s].status
    BY <1>2, <1>3
  <2> QED BY <1>4, <2>1, <2>2, KeptPlaced
<1> QED BY <1>4, <1>9, <1>10, ItemsKept

LEMMA CompileCalm ==
  ASSUME QueueInv, BlockInv, NEW r \in Reqs, Compile(r)
  PROVE  Calm /\ Placed /\ ItemInv'
<1>1. PICK g : req' = [req EXCEPT ![r].grammar = g]
  BY DEF Compile, GrammarCompiled
<1>2. /\ Numbers(req[r]) /\ DOMAIN req = Reqs /\ DOMAIN req[r] = Fields
      /\ req[r].status = "grammar" /\ r \notin finishedRecv
  BY NumbersAre DEF QueueInv, Compile, GrammarCompiled, BlockInv, TransferInv
<1>3. req'[r] = [req[r] EXCEPT !.grammar = g] /\ \A q \in Reqs \ {r} : req'[q] = req[q]
  BY <1>1, <1>2
<1>4. /\ pool' = pool /\ conf' = conf /\ flight' = flight /\ finishedRecv' = finishedRecv
      /\ inflightPrefills' = inflightPrefills /\ pass' = pass
  BY DEF Compile, GrammarCompiled, runnerVars, kv
<1>5. PICK p, q : p = req'[r] /\ q = req[r]
  OBVIOUS
<1>6. /\ p.status = q.status /\ p.prompt = q.prompt /\ p.tokens = q.tokens
      /\ p.computed = q.computed /\ p.inFlight = q.inFlight /\ p.stale = q.stale
      /\ p.placeholders = q.placeholders /\ p.specs = q.specs /\ p.lastSeq = q.lastSeq
      /\ p.blocks = q.blocks
  BY <1>2, <1>3, <1>5, FieldsAre
<1>7. CalmFor(r)
  <2>1. Numbers(p)
    BY <1>2, <1>5, <1>6 DEF Numbers
  <2> QED BY <1>2, <1>4, <1>5, <1>6, <2>1 DEF CalmFor
<1>8. \A s \in Reqs : CalmFor(s)
  BY <1>3, <1>4, <1>7, OthersAreCalm
<1>9. Calm
  <2>1. pass.pc # "idle" => Len(flight) < conf.concurrent
    BY DEF BlockInv, ShareInv
  <2> QED BY <1>4, <1>8, <2>1 DEF Calm, BlockInv, NumInv
<1>10. Placed
  <2>1. \A s \in Reqs : req'[s].blocks = req[s].blocks
    BY <1>3, <1>5, <1>6
  <2>2. \A s \in Reqs : req[s].status \in {"running", "finished"} => req'[s].status = req[s].status
    BY <1>2, <1>3
  <2> QED BY <1>4, <2>1, <2>2, KeptPlaced
<1> QED BY <1>4, <1>9, <1>10, ItemsKept

LEMMA PreemptionIs ==
  ASSUME NEW q, NEW d, DOMAIN q = Fields, Numbers(q), NEW p, p = Preempted(q, d)
  PROVE  /\ Numbers(p) /\ p.status = "preempted" /\ p.inFlight = q.inFlight
         /\ p.stale = q.inFlight /\ p.lastSeq = q.lastSeq /\ p.blocks = <<>>
<1>1. p = [q EXCEPT !.status = "preempted", !.computed = 0, !.specs = 0,
              !.drop = d \/ (@ /\ q.stale > 0), !.stale = q.inFlight,
              !.placeholders = 0, !.preempted = TRUE, !.blocks = <<>>]
  BY DEF Preempted
<1>2. /\ p.status = "preempted" /\ p.inFlight = q.inFlight /\ p.stale = q.inFlight
      /\ p.lastSeq = q.lastSeq /\ p.blocks = <<>> /\ p.prompt = q.prompt /\ p.tokens = q.tokens
      /\ p.computed = 0 /\ p.specs = 0 /\ p.placeholders = 0
  BY <1>1, FieldsAre
<1> QED BY <1>2, NoneOf DEF Numbers

(* Running requests that are preempted. *)
LEMMA PreemptedCalm ==
  ASSUME QueueInv, BlockInv, NEW X \in SUBSET {r \in Reqs : req[r].status = "running"},
         NEW d, NEW rs, Lists(rs, X), pool' = FreeRequestBlocks(pool, req, rs),
         \A r \in Reqs : req'[r] = IF r \in X THEN Preempted(req[r], d) ELSE req[r],
         finishedRecv' = finishedRecv
  PROVE  Placed /\ \A r \in Reqs : CalmFor(r)
<1>1. ASSUME NEW r \in X
      PROVE  /\ Numbers(req'[r]) /\ req'[r].status = "preempted"
             /\ req'[r].inFlight = req[r].inFlight /\ req'[r].stale = req[r].inFlight
             /\ req'[r].lastSeq = req[r].lastSeq /\ req'[r].blocks = <<>>
             /\ req[r].status = "running" /\ r \notin finishedRecv
  <2>1. DOMAIN req[r] = Fields /\ Numbers(req[r]) /\ req'[r] = Preempted(req[r], d)
    BY NumbersAre DEF QueueInv
  <2>2. r \notin finishedRecv
    BY DEF BlockInv, TransferInv
  <2> QED BY <2>1, <2>2, PreemptionIs
<1>2. \A r \in Reqs \ X : req'[r] = req[r]
  OBVIOUS
<1>3. ASSUME NEW r \in Reqs
      PROVE  CalmFor(r)
  <2>1. CASE r \in X
    <3>1. PICK p, q : p = req'[r] /\ q = req[r]
      OBVIOUS
    <3> QED BY <1>1, <2>1, <3>1 DEF CalmFor
  <2>2. CASE r \notin X
    BY <1>2, <2>2, OthersAreCalm
  <2> QED BY <2>1, <2>2
<1>4. \A r \in Reqs : req'[r].blocks = IF r \in X THEN <<>> ELSE req[r].blocks
  BY <1>1, <1>2
<1>5. X \in SUBSET Reqs /\ Blocks(req) = Blocks(req)
  OBVIOUS
<1>6. /\ Pools(pool') /\ pool'.ahead = pool.ahead /\ Apart(pool', Blocks(req'))
      /\ \A e \in DOMAIN pool.deferred :
           e \in DOMAIN pool'.deferred /\ pool'.deferred[e] = pool.deferred[e]
      /\ \A r \in X : \A b \in Owned(r) : Fenced(req[r]) =>
           \E e \in DOMAIN pool'.deferred :
             b \in pool'.deferred[e].blocks /\ pool'.deferred[e].fence = pool.ahead
  BY <1>4, <1>5, GivePlaced
<1>7. \A r \in Reqs : PlacedFor(r)
  <2> TAKE r \in Reqs
  <2>1. CASE r \in X
    BY <1>6, <2>1 DEF PlacedFor
  <2>2. CASE r \notin X
    BY <1>2, <2>2 DEF PlacedFor, Owned
  <2> QED BY <2>1, <2>2
<1>8. \A r \in Reqs : ToSet(req'[r].blocks) \in SUBSET Owned(r)
  BY <1>4, NoneOf DEF Owned
<1> QED BY <1>3, <1>6, <1>7, <1>8 DEF Placed

LEMMA PreemptLastCalm ==
  ASSUME QueueInv, BlockInv, PreemptLast, UNCHANGED <<runnerVars, left>>
  PROVE  Calm /\ Placed /\ ItemInv'
<1>1. PICK v : v = Last(running)
  OBVIOUS
<1>2. /\ pool' = FreeRequestBlocks(pool, req, <<v>>)
      /\ req' = [req EXCEPT ![v] = Preempted(@, conf.delivery)]
      /\ inflightPrefills' = inflightPrefills \ {v}
      /\ finishedRecv' = finishedRecv /\ conf' = conf
      /\ \E pc : pass' = [pass EXCEPT !.preempted = TRUE, !.pc = pc]
  BY <1>1 DEF PreemptLast
<1>3. flight' = flight
  BY DEF runnerVars
<1>4. PICK R : Lists(running, R) /\ R = {q \in Reqs : req[q].status = "running"}
  BY DEF QueueInv, ListInv, Places
<1>5. running # <<>>
  BY <1>4 DEF PreemptLast, InRunningPass, QueueInv, PassInv, Lists
<1>6. v \in Reqs /\ req[v].status = "running"
  <2>1. v \in R
    BY <1>1, <1>4, <1>5, ListPart
  <2> QED BY <1>4, <2>1
<1>7. Lists(<<v>>, {v}) /\ {v} \in SUBSET {r \in Reqs : req[r].status = "running"}
  BY <1>6, ListSingle
<1>8. \A r \in Reqs : req'[r] = IF r \in {v} THEN Preempted(req[r], conf.delivery) ELSE req[r]
  BY <1>2, <1>6 DEF QueueInv, RequestInv
<1>9. Placed /\ \A r \in Reqs : CalmFor(r)
  BY <1>2, <1>7, <1>8, PreemptedCalm
<1>10. Calm
  <2>1. Len(flight) < conf.concurrent
    BY DEF BlockInv, ShareInv, PreemptLast, InRunningPass
  <2> QED BY <1>2, <1>3, <1>9, <2>1 DEF Calm, BlockInv, NumInv
<1>11. ItemInv'
  <2>1. pass'.budget = pass.budget /\ pass'.items = pass.items
    BY <1>2, FieldsAre DEF QueueInv, PassInv
  <2> QED BY <2>1, ItemsKept
<1> QED BY <1>9, <1>10, <1>11
-----------------------------------------------------------------------------
(* The calls from outside that move blocks. *)

LEMMA ListReverse ==
  ASSUME NEW q, NEW X, Lists(q, X)
  PROVE  Lists(Reverse(q), X)
<1>1. PICK p, n : p = Reverse(q) /\ n = Len(q) /\ n \in Nat
  BY DEF Lists
<1>2. /\ X = {q[i] : i \in 1 .. n} /\ q \in Seq(Reqs)
      /\ \A i, j \in 1 .. n : q[i] = q[j] => i = j
  BY <1>1, ListIs
<1>3. p = [i \in 1 .. n |-> q[(n - i) + 1]]
  BY <1>1 DEF Reverse
<1>4. \A i \in 1 .. n : q[i] \in Reqs /\ (n - i) + 1 \in 1 .. n /\ n - ((n - i) + 1) + 1 = i
  BY <1>1, <1>2
<1>5. p \in Seq(Reqs) /\ Len(p) = n
  <2>1. \A i \in 1 .. n : p[i] \in Reqs
    BY <1>3, <1>4
  <2> QED BY <1>1, <1>3, <2>1
<1>6. \A x : x \in X <=> \E i \in 1 .. n : x = p[i]
  <2>1. ASSUME NEW i \in 1 .. n
        PROVE  /\ \E j \in 1 .. n : p[j] = q[i]
               /\ \E j \in 1 .. n : q[j] = p[i]
    <3>1. p[(n - i) + 1] = q[i] /\ p[i] = q[(n - i) + 1] /\ (n - i) + 1 \in 1 .. n
      BY <1>3, <1>4
    <3> QED BY <3>1
  <2>2. \A x : x \in X <=> \E i \in 1 .. n : x = q[i]
    BY <1>2
  <2> QED BY <2>1, <2>2
<1>7. \A i, j \in 1 .. n : p[i] = p[j] => i = j
  BY <1>2, <1>3, <1>4
<1>8. X = {p[i] : i \in 1 .. n}
  BY <1>6
<1> QED BY <1>1, <1>5, <1>7, <1>8, ListIs

LEMMA ResetCalm ==
  ASSUME QueueInv, BlockInv, Reset
  PROVE  Calm /\ Placed /\ ItemInv'
<1>1. PICK R : Lists(running, R) /\ R = {q \in Reqs : req[q].status = "running"}
  BY DEF QueueInv, ListInv, Places
<1>2. PICK rs : rs = Reverse(running)
  OBVIOUS
<1>3. Lists(rs, R)
  BY <1>1, <1>2, ListReverse
<1>4. /\ pass.pc = "idle" /\ pool' = FreeRequestBlocks(pool, req, rs)
      /\ req' = [r \in Reqs |-> IF r \in ToSet(running) THEN Preempted(req[r], TRUE) ELSE req[r]]
      /\ inflightPrefills' = inflightPrefills \ ToSet(running)
      /\ finishedRecv' = finishedRecv /\ conf' = conf /\ pass' = pass /\ flight' = flight
  BY <1>2 DEF Reset, ResetPrefixCache, runnerVars
<1>5. ToSet(running) = R
  BY <1>1 DEF Lists
<1>6. \A r \in Reqs : req'[r] = IF r \in R THEN Preempted(req[r], TRUE) ELSE req[r]
  BY <1>4, <1>5
<1>7. Placed /\ \A r \in Reqs : CalmFor(r)
  BY <1>1, <1>3, <1>4, <1>6, PreemptedCalm
<1>8. Calm
  BY <1>4, <1>7 DEF Calm, BlockInv, NumInv
<1> QED BY <1>4, <1>7, <1>8, ItemsKept

LEMMA AbortCalm ==
  ASSUME QueueInv, BlockInv, NEW r \in Reqs, NEW send, FinishRequests(r, send), flight' = flight
  PROVE  Calm /\ Placed /\ ItemInv'
<1>1. PICK marked, gone, X :
        /\ marked = [req EXCEPT ![r].status = "finished"]
        /\ gone = (IF (req[r].status = "remote" /\ r \notin finishedRecv) \/ send
                     THEN <<>> ELSE <<r>>)
        /\ X = ToSet(gone)
  OBVIOUS
<1>2. /\ pass.pc = "idle" /\ pass' = pass /\ conf' = conf /\ req[r].status \notin Over
      /\ pool' = FreeRequestBlocks(pool, marked, gone)
      /\ req' = Deleted(marked, X)
      /\ finishedRecv' = finishedRecv \ {r}
      /\ inflightPrefills' = inflightPrefills \ {r}
      /\ send => ~(req[r].status = "remote" /\ r \notin finishedRecv)
  BY <1>1 DEF FinishRequests
<1>3. Lists(gone, X) /\ X \in SUBSET {r}
  <2>1. Lists(<<>>, {}) /\ Lists(<<r>>, {r})
    BY ListOfNone, ListSingle
  <2>2. \A Y : Lists(gone, Y) => Y = X
    BY <1>1 DEF Lists
  <2>3. CASE gone = <<>>
    <3>1. Lists(gone, {})
      BY <2>1, <2>3
    <3> QED BY <2>2, <3>1
  <2>4. CASE gone = <<r>>
    <3>1. Lists(gone, {r})
      BY <2>1, <2>4
    <3> QED BY <2>2, <3>1
  <2> QED BY <1>1, <2>3, <2>4
<1>4. Numbers(req[r]) /\ DOMAIN req = Reqs /\ DOMAIN req[r] = Fields
  BY NumbersAre DEF QueueInv
<1>5. /\ marked[r] = [req[r] EXCEPT !.status = "finished"]
      /\ \A q \in Reqs \ {r} : marked[q] = req[q]
  BY <1>1, <1>4
<1>6. \A q \in Reqs : req'[q] = IF q \in X THEN [marked[q] EXCEPT !.status = "gone", !.blocks = <<>>]
                                ELSE marked[q]
  BY <1>2 DEF Deleted
<1>7. PICK p, q, m : p = req'[r] /\ q = req[r] /\ m = marked[r]
  OBVIOUS
<1>8. /\ DOMAIN m = Fields /\ m.status = "finished" /\ m.prompt = q.prompt /\ m.tokens = q.tokens
      /\ m.computed = q.computed /\ m.inFlight = q.inFlight /\ m.stale = q.stale
      /\ m.placeholders = q.placeholders /\ m.specs = q.specs /\ m.lastSeq = q.lastSeq
      /\ m.blocks = q.blocks
  BY <1>4, <1>5, <1>7, FieldsAre
<1>9. p = IF r \in X THEN [m EXCEPT !.status = "gone", !.blocks = <<>>] ELSE m
  BY <1>6, <1>7
<1>10. /\ p.status \in Past /\ (p.status = "finished" \/ r \in X) /\ p.prompt = q.prompt
       /\ p.tokens = q.tokens
       /\ p.computed = q.computed /\ p.inFlight = q.inFlight /\ p.stale = q.stale
       /\ p.placeholders = q.placeholders /\ p.specs = q.specs /\ p.lastSeq = q.lastSeq
       /\ p.blocks = IF r \in X THEN <<>> ELSE q.blocks
       /\ r \notin X => p.status = "finished"
  BY <1>8, <1>9, FieldsAre DEF Past
<1>11. \A s \in Reqs \ {r} : req'[s] = req[s]
  BY <1>3, <1>5, <1>6
<1>12. r \in X => ~(req[r].status = "remote" /\ r \notin finishedRecv)
  <2>1. CASE gone = <<>>
    BY <1>1, <2>1, NoneOf
  <2> QED BY <1>1, <2>1
<1>13. CalmFor(r)
  <2>1. Numbers(p)
    BY <1>4, <1>7, <1>10, NoneOf DEF Numbers
  <2>2. q.status \notin {"gone", "finished"} /\ p.status # "remote"
    BY <1>2, <1>7, <1>10 DEF Over, Past
  <2>3. q.status = "remote" => p.status = "finished" \/ r \in finishedRecv
    BY <1>7, <1>10, <1>12
  <2> QED BY <1>2, <1>7, <1>10, <2>1, <2>2, <2>3 DEF CalmFor
<1>14. \A s \in Reqs : CalmFor(s)
  BY <1>2, <1>11, <1>13, OthersAreCalm
<1>15. Calm
  BY <1>2, <1>14 DEF Calm, BlockInv, NumInv
<1>16. Placed
  <2>1. Blocks(marked) = Blocks(req) /\ \A s \in Reqs : marked[s].lastSeq = req[s].lastSeq
    <3>1. \A s \in Reqs : marked[s].blocks = req[s].blocks /\ marked[s].lastSeq = req[s].lastSeq
      BY <1>5, <1>7, <1>8
    <3> QED BY <3>1 DEF Blocks
  <2>2. \A s \in Reqs : req'[s].blocks = IF s \in X THEN <<>> ELSE req[s].blocks
    BY <1>3, <1>7, <1>10, <1>11
  <2>3. X \in SUBSET Reqs
    BY <1>3
  <2>4. /\ Pools(pool') /\ pool'.ahead = pool.ahead /\ Apart(pool', Blocks(req'))
        /\ \A e \in DOMAIN pool.deferred :
             e \in DOMAIN pool'.deferred /\ pool'.deferred[e] = pool.deferred[e]
        /\ \A s \in X : \A b \in Owned(s) : Fenced(req[s]) =>
             \E e \in DOMAIN pool'.deferred :
               b \in pool'.deferred[e].blocks /\ pool'.deferred[e].fence = pool.ahead
    BY <1>2, <1>3, <2>1, <2>2, <2>3, GivePlaced
  <2>5. \A s \in Reqs : PlacedFor(s)
    <3> TAKE s \in Reqs
    <3>1. CASE s \in X
      BY <2>4, <3>1 DEF PlacedFor
    <3>2. CASE s # r
      BY <1>11, <3>2 DEF PlacedFor, Owned
    <3>3. CASE s = r /\ s \notin X
      BY <1>7, <1>10, <3>3 DEF PlacedFor, Owned
    <3> QED BY <3>1, <3>2, <3>3
  <2>6. \A s \in Reqs : ToSet(req'[s].blocks) \in SUBSET Owned(s)
    BY <2>2, NoneOf DEF Owned
  <2> QED BY <2>4, <2>5, <2>6 DEF Placed
<1> QED BY <1>2, <1>15, <1>16, ItemsKept

LEMMA SessionIs ==
  ASSUME NEW q, DOMAIN q = Fields, Numbers(q), NEW p, p = AsSession(q)
  PROVE  /\ Numbers(p) /\ p.status = "waiting" /\ p.inFlight = q.inFlight
         /\ p.stale = q.stale /\ p.lastSeq = q.lastSeq /\ p.blocks = q.blocks
<1>1. PICK n : n = Min({q.tokens, q.computed}) + UpdateTokens
  OBVIOUS
<1>2. n \in Int
  <2>1. q.tokens \in Int /\ q.computed \in Int
    BY DEF Numbers
  <2> QED BY <1>1, <2>1, MinOfTwo, LimitsAssumption
<1>3. p = [q EXCEPT !.status = "waiting", !.tokens = n, !.prompt = n]
  BY <1>1 DEF AsSession
<1>4. /\ p.status = "waiting" /\ p.tokens = n /\ p.prompt = n
      /\ p.computed = q.computed /\ p.inFlight = q.inFlight /\ p.stale = q.stale
      /\ p.placeholders = q.placeholders /\ p.specs = q.specs /\ p.lastSeq = q.lastSeq
      /\ p.blocks = q.blocks
  BY <1>3, FieldsAre
<1> QED BY <1>2, <1>4 DEF Numbers

LEMMA NextInputCalm ==
  ASSUME QueueInv, BlockInv, NEW r \in Reqs, NextInput(r)
  PROVE  Calm /\ Placed /\ ItemInv'
<1>1. flight' = flight
  BY DEF NextInput, runnerVars
<1>2. CASE FinishRequests(r, FALSE)
  BY <1>1, <1>2, AbortCalm
<1>3. CASE ~FinishRequests(r, FALSE)
  <2>1. /\ pass.pc = "idle" /\ pass' = pass /\ conf' = conf /\ pool' = pool
        /\ finishedRecv' = finishedRecv /\ inflightPrefills' = inflightPrefills
        /\ \/ req[r].status = "stream" /\ req' = [req EXCEPT ![r] = AsSession(@)]
           \/ \E u : req' = [req EXCEPT ![r].updates = u]
    BY <1>3 DEF NextInput, AddUpdate, EndSession, kv
  <2>2. Numbers(req[r]) /\ DOMAIN req = Reqs /\ DOMAIN req[r] = Fields
    BY NumbersAre DEF QueueInv
  <2>3. PICK p, q : p = req'[r] /\ q = req[r]
    OBVIOUS
  <2>4. \A s \in Reqs \ {r} : req'[s] = req[s]
    BY <2>1, <2>2
  <2>5. /\ Numbers(p) /\ p.inFlight = q.inFlight /\ p.stale = q.stale
        /\ p.lastSeq = q.lastSeq /\ p.blocks = q.blocks
        /\ \/ p.status = q.status /\ p.drop = q.drop
           \/ p.status = "waiting" /\ q.status = "stream"
    <3>1. CASE req[r].status = "stream" /\ req' = [req EXCEPT ![r] = AsSession(@)]
      <4>1. p = AsSession(q)
        BY <2>2, <2>3, <3>1
      <4> QED BY <2>2, <2>3, <3>1, <4>1, SessionIs
    <3>2. ASSUME NEW u, req' = [req EXCEPT ![r].updates = u]
          PROVE  /\ Numbers(p) /\ p.inFlight = q.inFlight /\ p.stale = q.stale
                 /\ p.lastSeq = q.lastSeq /\ p.blocks = q.blocks
                 /\ p.status = q.status /\ p.drop = q.drop
      <4>1. p = [q EXCEPT !.updates = u]
        BY <2>2, <2>3, <3>2
      <4>2. /\ p.status = q.status /\ p.prompt = q.prompt /\ p.tokens = q.tokens
            /\ p.computed = q.computed /\ p.inFlight = q.inFlight /\ p.stale = q.stale
            /\ p.placeholders = q.placeholders /\ p.specs = q.specs /\ p.lastSeq = q.lastSeq
            /\ p.blocks = q.blocks /\ p.drop = q.drop
        BY <2>2, <2>3, <4>1, FieldsAre
      <4> QED BY <2>2, <2>3, <4>2 DEF Numbers
    <3> QED BY <2>1, <3>1, <3>2
  <2>6. /\ q.status = "remote" /\ q.stale > 0 => q.drop
        /\ r \in finishedRecv => q.status = "remote"
    BY <2>3 DEF BlockInv, ShareInv, TransferInv
  <2>7. CalmFor(r)
    BY <2>1, <2>3, <2>5, <2>6 DEF CalmFor, Past
  <2>8. \A s \in Reqs : CalmFor(s)
    BY <2>1, <2>4, <2>7, OthersAreCalm
  <2>9. Calm
    BY <1>1, <2>1, <2>8 DEF Calm, BlockInv, NumInv
  <2>10. Placed
    <3>1. \A s \in Reqs : req'[s].blocks = req[s].blocks
      BY <2>3, <2>4, <2>5
    <3>2. \A s \in Reqs : req[s].status \in {"running", "finished"} => req'[s].status = req[s].status
      BY <2>3, <2>4, <2>5
    <3> QED BY <2>1, <3>1, <3>2, KeptPlaced
  <2> QED BY <2>1, <2>9, <2>10, ItemsKept
<1> QED BY <1>2, <1>3
-----------------------------------------------------------------------------
(* The steps of the scheduling pass that move blocks. *)

LEMMA CandidateStands ==
  ASSUME QueueInv, BlockInv, InWaitingPass
  PROVE  /\ Candidate \in Reqs /\ Numbers(req[Candidate])
         /\ DOMAIN req = Reqs /\ DOMAIN req[Candidate] = Fields
         /\ req[Candidate].status \notin {"running"} \cup Over \cup Past
         /\ pass.pc # "idle" /\ Len(flight) < conf.concurrent
         /\ pass.budget \in Int
<1>1. /\ Candidate \in Reqs /\ req[Candidate].status \notin Over \cup {"running"}
  BY CandidateIs DEF QueueInv, ListInv
<1>2. /\ Numbers(req[Candidate]) /\ DOMAIN req = Reqs /\ DOMAIN req[Candidate] = Fields
  BY <1>1, NumbersAre DEF QueueInv
<1>3. pass.pc # "idle" /\ Len(flight) < conf.concurrent /\ pass.budget \in Int
  BY DEF InWaitingPass, BlockInv, ShareInv, NumInv, ItemInv
<1> QED BY <1>1, <1>2, <1>3 DEF Over, Past

(* The blocks of r are free at once: nothing writes them any more. *)
LEMMA GiveNow ==
  ASSUME BlockInv, NEW r \in Reqs, pool'.free = pool.free \cup ToSet(req[r].blocks),
         pool'.deferred = pool.deferred, pool'.ahead = pool.ahead, DOMAIN pool' = DOMAIN pool,
         \A q \in Reqs : req'[q].blocks = IF q = r THEN <<>> ELSE req[q].blocks
  PROVE  Pools(pool') /\ Apart(pool', Blocks(req'))
<1>1. PICK f, p, B, C : f = pool' /\ p = pool /\ B = Blocks(req) /\ C = Blocks(req')
  OBVIOUS
<1>2. /\ B \in BlockLists /\ Apart(p, B) /\ Pools(p)
  BY <1>1, BlocksAreLists DEF BlockInv, PoolInv
<1>3. \A q \in Reqs : ToSet(B[q]) \in SUBSET (1 .. NumBlocks)
  <2> TAKE q \in Reqs
  <2>1. B[q] \in Seq(1 .. NumBlocks)
    BY <1>2 DEF BlockLists
  <2> QED BY <2>1, ToSetIs
<1>4. /\ f.free = p.free \cup ToSet(B[r]) /\ f.deferred = p.deferred /\ f.ahead = p.ahead
      /\ DOMAIN f = DOMAIN p
      /\ C[r] = <<>> /\ \A q \in Reqs \ {r} : C[q] = B[q]
  BY <1>1 DEF Blocks
<1>5. Pools(f)
  BY <1>2, <1>3, <1>4 DEF Pools
<1>6. \A b \in 1 .. NumBlocks :
         \/ b \in f.free
         \/ \E d \in DOMAIN f.deferred : b \in f.deferred[d].blocks
         \/ \E q \in Reqs : b \in ToSet(C[q])
  BY <1>2, <1>4 DEF Apart
<1>7. \A d \in DOMAIN f.deferred : \A b \in f.deferred[d].blocks :
         /\ b \notin f.free
         /\ \A e \in DOMAIN f.deferred : b \in f.deferred[e].blocks => e = d
  BY <1>2, <1>4 DEF Apart
<1>8. \A q \in Reqs : \A b \in ToSet(C[q]) :
         /\ b \notin f.free
         /\ \A d \in DOMAIN f.deferred : b \notin f.deferred[d].blocks
         /\ \A s \in Reqs : b \in ToSet(C[s]) => s = q
  BY <1>2, <1>4, NoneOf DEF Apart
<1>9. \A q \in Reqs : IsInjective(C[q])
  BY <1>2, <1>4, NoneOf DEF Apart
<1> QED BY <1>1, <1>5, <1>6, <1>7, <1>8, <1>9 DEF Apart

LEMMA PromoteCalm ==
  ASSUME QueueInv, BlockInv, Promote, UNCHANGED <<runnerVars, left>>
  PROVE  Calm /\ Placed /\ ItemInv'
<1>1. PICK r, lost, full, st :
        /\ r = Candidate
        /\ lost = (r \in failedRecv /\ req[r].computed = 0)
        /\ full = (r \notin failedRecv /\ req[r].status = "remote" /\ req[r].computed = req[r].tokens)
        /\ st = (IF req[r].status = "remote" /\ req[r].preempted THEN "preempted" ELSE "waiting")
  OBVIOUS
<1>2. /\ req' = [req EXCEPT ![r].status = st, ![r].computed = IF full THEN @ - 1 ELSE @,
                            ![r].blocks = IF lost THEN <<>> ELSE @]
      /\ pool' = IF lost THEN [pool EXCEPT !.free = @ \cup ToSet(req[r].blocks)] ELSE pool
      /\ finishedRecv' = finishedRecv \ {r}
      /\ inflightPrefills' = inflightPrefills /\ conf' = conf /\ pass' = pass
      /\ flight' = flight
      /\ req[r].status = "remote" => r \in finishedRecv
  BY <1>1 DEF Promote, Promotable, runnerVars
<1>3. /\ r \in Reqs /\ Numbers(req[r]) /\ DOMAIN req = Reqs /\ DOMAIN req[r] = Fields
      /\ req[r].status \notin {"running"} \cup Over \cup Past
      /\ pass.pc # "idle" /\ Len(flight) < conf.concurrent
  BY <1>1, CandidateStands DEF Promote
<1>4. PICK p, q : p = req'[r] /\ q = req[r]
  OBVIOUS
<1>5. /\ p = [q EXCEPT !.status = st, !.computed = IF full THEN @ - 1 ELSE @,
                       !.blocks = IF lost THEN <<>> ELSE @]
      /\ \A s \in Reqs \ {r} : req'[s] = req[s]
  BY <1>2, <1>3, <1>4
<1>6. /\ p.status = st /\ p.prompt = q.prompt /\ p.tokens = q.tokens
      /\ p.computed = (IF full THEN q.computed - 1 ELSE q.computed)
      /\ p.inFlight = q.inFlight /\ p.stale = q.stale
      /\ p.placeholders = q.placeholders /\ p.specs = q.specs /\ p.lastSeq = q.lastSeq
      /\ p.blocks = (IF lost THEN <<>> ELSE q.blocks)
  BY <1>3, <1>4, <1>5, FieldsAre
<1>7. CalmFor(r)
  <2>1. Numbers(p)
    <3>1. q.computed \in Int /\ q.blocks \in Seq(1 .. NumBlocks)
      BY <1>3, <1>4 DEF Numbers
    <3>2. p.computed \in Int
      BY <1>6, <3>1
    <3>3. p.blocks \in Seq(1 .. NumBlocks)
      BY <1>6, <3>1, NoneOf
    <3> QED BY <1>3, <1>4, <1>6, <3>2, <3>3 DEF Numbers
  <2>2. p.status # "remote"
    BY <1>1, <1>6
  <2>3. q.status \notin {"gone", "finished"} /\ (q.status = "remote" => r \in finishedRecv)
        /\ q.status \notin {"running"} \cup Past
    BY <1>2, <1>3, <1>4 DEF Past
  <2> QED BY <1>2, <1>4, <1>6, <2>1, <2>2, <2>3 DEF CalmFor
<1>8. \A s \in Reqs : CalmFor(s)
  BY <1>2, <1>5, <1>7, OthersAreCalm
<1>9. Calm
  BY <1>2, <1>3, <1>8 DEF Calm, BlockInv, NumInv
<1>10. /\ Pools(pool') /\ Apart(pool', Blocks(req')) /\ pool'.ahead = pool.ahead
       /\ pool'.deferred = pool.deferred
  <2>1. CASE lost
    <3>1. /\ pool'.free = pool.free \cup ToSet(req[r].blocks)
          /\ pool'.deferred = pool.deferred /\ pool'.ahead = pool.ahead
          /\ DOMAIN pool' = DOMAIN pool
      BY <1>2, <2>1 DEF BlockInv, PoolInv, Pools
    <3>2. \A s \in Reqs : req'[s].blocks = IF s = r THEN <<>> ELSE req[s].blocks
      BY <1>4, <1>5, <1>6, <2>1
    <3> QED BY <1>3, <3>1, <3>2, GiveNow
  <2>2. CASE ~lost
    <3>1. Blocks(req') = Blocks(req)
      BY <1>4, <1>5, <1>6, <2>2 DEF Blocks
    <3> QED BY <1>2, <2>2, <3>1 DEF BlockInv, PoolInv
  <2> QED BY <2>1, <2>2
<1>11. \A s \in Reqs : PlacedFor(s)
  <2>1. PlacedFor(r)
    BY <1>3 DEF PlacedFor, Past
  <2> QED BY <1>5, <2>1 DEF PlacedFor, Owned
<1>12. Placed
  BY <1>3, <1>10, <1>11 DEF Placed
<1> QED BY <1>2, <1>9, <1>12, ItemsKept

(* A request that takes blocks when it starts to load or to run. *)
LEMMA StartPlaced ==
  ASSUME BlockInv, NEW r \in Reqs, req[r].status \notin {"running"} \cup Over \cup Past,
         pass.pc # "idle", NEW n \in Int, NEW x \in Nat, Fits(r, n, x), Takes(r, n)
  PROVE  Placed /\ req'[r].blocks \in Seq(1 .. NumBlocks)
<1>1. /\ Pools(pool') /\ pool'.ahead = pool.ahead /\ pool'.deferred = pool.deferred
      /\ Apart(pool', Blocks(req'))
      /\ req'[r].blocks \in Seq(1 .. NumBlocks)
  BY GrowPlaced
<1>2. \A s \in Reqs : PlacedFor(s)
  <2>1. PlacedFor(r)
    BY DEF PlacedFor, Past
  <2> QED BY <2>1 DEF PlacedFor, Owned, Takes
<1> QED BY <1>1, <1>2 DEF Placed

LEMMA StartLoadCalm ==
  ASSUME QueueInv, BlockInv, IsFiniteSet(Reqs), NEW n \in Nat, StartLoad(n),
         UNCHANGED <<runnerVars, left>>
  PROVE  Calm /\ Placed /\ ItemInv'
<1>1. PICK r : r = Candidate
  OBVIOUS
<1>2. /\ req' = [req EXCEPT ![r].status = "remote", ![r].computed = n,
                            ![r].blocks = @ \o Allocated(r, n)]
      /\ pool' = [pool EXCEPT !.free = @ \ ToSet(Allocated(r, n))]
      /\ inflightPrefills' = inflightPrefills \cup {r}
      /\ pass' = [pass EXCEPT !.step = Append(@, r), !.loads = @ \cup {r}]
      /\ finishedRecv' = finishedRecv /\ conf' = conf /\ flight' = flight
      /\ Fits(r, n, ReservedBlocks) /\ conf.connector
      /\ InWaitingPass /\ req[r].status \notin Blocked /\ ~MustWait(r)
  BY <1>1 DEF StartLoad, MayLoad, Admissible, LoadReservation, runnerVars
<1>3. /\ r \in Reqs /\ Numbers(req[r]) /\ DOMAIN req = Reqs /\ DOMAIN req[r] = Fields
      /\ req[r].status \notin {"running"} \cup Over \cup Past
      /\ pass.pc # "idle" /\ Len(flight) < conf.concurrent
  BY <1>1, <1>2, CandidateStands
<1>4. PICK p, q, w : p = req'[r] /\ q = req[r] /\ w = Allocated(r, n)
  OBVIOUS
<1>5. /\ p = [q EXCEPT !.status = "remote", !.computed = n, !.blocks = @ \o w]
      /\ \A s \in Reqs \ {r} : req'[s] = req[s]
  BY <1>2, <1>3, <1>4
<1>6. /\ p.status = "remote" /\ p.prompt = q.prompt /\ p.tokens = q.tokens
      /\ p.computed = n /\ p.inFlight = q.inFlight /\ p.stale = q.stale /\ p.drop = q.drop
      /\ p.placeholders = q.placeholders /\ p.specs = q.specs /\ p.lastSeq = q.lastSeq
      /\ p.blocks = q.blocks \o w
  BY <1>3, <1>4, <1>5, FieldsAre
<1>7. Takes(r, n)
  BY <1>2, <1>4, <1>5, <1>6 DEF Takes
<1>8. ReservedBlocks \in Nat
  BY ReservedIsNat DEF BlockInv, NumInv
<1>9. Placed /\ p.blocks \in Seq(1 .. NumBlocks)
  <2>1. n \in Int /\ Fits(r, n, ReservedBlocks)
    BY <1>2
  <2> QED BY <1>3, <1>4, <1>7, <1>8, <2>1, StartPlaced
<1>10. CalmFor(r)
  <2>1. Numbers(p)
    BY <1>3, <1>4, <1>6, <1>9 DEF Numbers
  <2>2. /\ q.status \notin {"gone", "finished", "remote"}
        /\ q.status \notin {"running"} \cup Past
        /\ q.stale > 0 => q.drop
        /\ r \notin finishedRecv
    BY <1>2, <1>3, <1>4 DEF Past, Blocked, MustWait, BlockInv, TransferInv
  <2> QED BY <1>2, <1>4, <1>6, <2>1, <2>2 DEF CalmFor
<1>11. \A s \in Reqs : CalmFor(s)
  BY <1>2, <1>5, <1>10, OthersAreCalm
<1>12. Calm
  BY <1>2, <1>3, <1>11 DEF Calm, BlockInv, NumInv
<1>13. pass'.budget = pass.budget /\ pass'.items = pass.items
  BY <1>2, FieldsAre DEF QueueInv, PassInv
<1> QED BY <1>9, <1>12, <1>13, ItemsKept

LEMMA ItemAdded ==
  ASSUME QueueInv, BlockInv, NEW item, item.n \in Nat \ {0}, item.specs \in Nat,
         pass'.budget \in Int, pass'.items = Append(pass.items, item)
  PROVE  ItemInv'
<1>1. PICK X : pass.items \in Seq(X)
  BY DEF QueueInv, PassInv
<1>2. \A i \in DOMAIN pass'.items :
         \/ i \in DOMAIN pass.items /\ pass'.items[i] = pass.items[i]
         \/ pass'.items[i] = item
  BY <1>1
<1>3. \A i \in DOMAIN pass.items : pass.items[i].n \in Nat \ {0} /\ pass.items[i].specs \in Nat
  BY DEF BlockInv, NumInv, ItemInv
<1> QED BY <1>2, <1>3 DEF ItemInv

LEMMA AdmitCalm ==
  ASSUME QueueInv, BlockInv, Admit, UNCHANGED <<runnerVars, left>>
  PROVE  Calm /\ Placed /\ ItemInv'
<1>1. PICK r, a, upto : r = Candidate /\ a = Admission(r) /\ upto = req[r].computed + a.n + NumSpec
  OBVIOUS
<1>2. /\ req' = [req EXCEPT ![r].status = "running", ![r].blocks = @ \o Allocated(r, upto)]
      /\ pool' = [pool EXCEPT !.free = @ \ ToSet(Allocated(r, upto))]
      /\ inflightPrefills' = inflightPrefills \cup
             (IF req[r].computed + a.n < req[r].tokens THEN {r} ELSE {})
      /\ pass' = [pass EXCEPT !.budget = @ - a.n,
                     !.items = Append(@, Scheduled(r, a.n, a.specs, TRUE))]
      /\ finishedRecv' = finishedRecv /\ conf' = conf /\ flight' = flight
      /\ a.n > 0 /\ Fits(r, upto, 0)
      /\ InWaitingPass /\ req[r].status \notin Blocked
  BY <1>1 DEF Admit, Admissible, Admitted, runnerVars
<1>3. /\ r \in Reqs /\ Numbers(req[r]) /\ DOMAIN req = Reqs /\ DOMAIN req[r] = Fields
      /\ req[r].status \notin {"running"} \cup Over \cup Past
      /\ pass.pc # "idle" /\ Len(flight) < conf.concurrent /\ pass.budget \in Int
  BY <1>1, <1>2, CandidateStands
<1>4. PICK p, q, w : p = req'[r] /\ q = req[r] /\ w = Allocated(r, upto)
  OBVIOUS
<1>5. /\ p = [q EXCEPT !.status = "running", !.blocks = @ \o w]
      /\ \A s \in Reqs \ {r} : req'[s] = req[s]
  BY <1>2, <1>3, <1>4
<1>6. /\ p.status = "running" /\ p.prompt = q.prompt /\ p.tokens = q.tokens
      /\ p.computed = q.computed /\ p.inFlight = q.inFlight /\ p.stale = q.stale
      /\ p.placeholders = q.placeholders /\ p.specs = q.specs /\ p.lastSeq = q.lastSeq
      /\ p.blocks = q.blocks \o w
  BY <1>3, <1>4, <1>5, FieldsAre
<1>7. Takes(r, upto)
  BY <1>2, <1>4, <1>5, <1>6 DEF Takes
<1>8. a.n \in Nat /\ a.specs \in Nat
  BY <1>1, <1>3, AdmissionIs
<1>9. upto \in Int
  BY <1>1, <1>3, <1>8, LimitsAssumption DEF Numbers
<1>10. Placed /\ p.blocks \in Seq(1 .. NumBlocks)
  <2>1. 0 \in Nat /\ Fits(r, upto, 0)
    BY <1>2
  <2> QED BY <1>3, <1>4, <1>7, <1>9, <2>1, StartPlaced
<1>11. CalmFor(r)
  <2>1. Numbers(p)
    BY <1>3, <1>4, <1>6, <1>10 DEF Numbers
  <2>2. /\ q.status \notin {"gone", "finished", "remote"}
        /\ r \notin finishedRecv
    BY <1>2, <1>3, <1>4 DEF Past, Blocked, BlockInv, TransferInv
  <2> QED BY <1>2, <1>4, <1>6, <2>1, <2>2 DEF CalmFor
<1>12. \A s \in Reqs : CalmFor(s)
  BY <1>2, <1>5, <1>11, OthersAreCalm
<1>13. Calm
  <2>1. inflightPrefills' \in SUBSET Reqs
    BY <1>2, <1>3 DEF BlockInv, NumInv
  <2> QED BY <1>2, <1>3, <1>12, <2>1 DEF Calm
<1>14. ItemInv'
  <2>1. PICK item : item = Scheduled(r, a.n, a.specs, TRUE)
    OBVIOUS
  <2>2. item.n = a.n /\ item.specs = a.specs
    BY <2>1 DEF Scheduled
  <2>3. pass'.budget = pass.budget - a.n /\ pass'.items = Append(pass.items, item)
    BY <1>2, <2>1, FieldsAre DEF QueueInv, PassInv
  <2>4. pass'.budget \in Int /\ item.n \in Nat \ {0} /\ item.specs \in Nat
    BY <1>2, <1>3, <1>8, <2>2, <2>3
  <2> QED BY <2>3, <2>4, ItemAdded
<1> QED BY <1>10, <1>13, <1>14
-----------------------------------------------------------------------------
(* What a calm step keeps. *)

LEMMA FlightIs ==
  ASSUME FlightInv, ShareInv
  PROVE  /\ Len(flight) \in 0 .. 2 /\ DOMAIN flight = 1 .. Len(flight)
         /\ conf.concurrent \in {1, 2} /\ conf.connector \in BOOLEAN
         /\ Len(flight) <= conf.concurrent
<1>1. /\ conf.concurrent \in 1 .. 2 /\ conf.connector \in BOOLEAN
      /\ Len(flight) <= conf.concurrent
  BY ConfsAssumption DEF ShareInv
<1>2. Len(flight) \in Nat /\ DOMAIN flight = 1 .. Len(flight)
  <2>1. PICK X : flight \in Seq(X)
    BY DEF FlightInv
  <2> QED BY <2>1, ToSetIs
<1> QED BY <1>1, <1>2

LEMMA StepsAre ==
  ASSUME FlightInv, ShareInv, NEW k \in DOMAIN flight, NEW n, n = Len(flight)
  PROVE  /\ Steps(k) \in Nat /\ Steps(n) \in Nat /\ Steps(k) <= Steps(n)
         /\ flight[k].results # <<>> => Steps(k) >= 1
<1>1. n \in 0 .. 2 /\ DOMAIN flight = 1 .. n /\ k \in 1 .. n
  BY FlightIs
<1>2. PICK s, t : s = Steps(k) /\ t = Steps(n)
  OBVIOUS
<1>3. CASE k = 1 /\ n = 1
  BY <1>1, <1>2, <1>3 DEF Steps
<1>4. CASE k = 1 /\ n = 2
  BY <1>1, <1>2, <1>4 DEF Steps
<1>5. CASE k = 2 /\ n = 2
  BY <1>1, <1>2, <1>5 DEF Steps
<1> QED BY <1>1, <1>3, <1>4, <1>5

LEMMA CalmKeepsShares ==
  ASSUME ShareInv, Calm
  PROVE  ShareInv'
<1>1. conf' = conf /\ flight' = flight
  BY DEF Calm
<1>2. \A k : \A r \in Reqs : Share(k, r)' = Share(k, r)
  BY <1>1 DEF Share, ResultIn
<1>3. ASSUME NEW r \in Reqs
      PROVE  /\ req'[r].status # "gone" => req'[r].inFlight = Share(1, r)' + Share(2, r)'
             /\ conf.sessions = {} /\ req'[r].status \notin {"running"} \cup Past
                   => req'[r].stale = req'[r].inFlight
             /\ req'[r].status = "remote" /\ req'[r].stale > 0 => req'[r].drop
  <2>1. PICK p, q : p = req'[r] /\ q = req[r]
    OBVIOUS
  <2>2. /\ p.inFlight = q.inFlight
        /\ q.status = "gone" => p.status = "gone"
        /\ p.status = "remote" /\ p.stale > 0 => p.drop
        /\ \/ p.status \in {"running"} \cup Past
           \/ p.stale = p.inFlight
           \/ q.status \notin {"running"} \cup Past /\ p.stale = q.stale
    BY <2>1 DEF Calm, CalmFor
  <2>3. /\ q.status # "gone" => q.inFlight = Share(1, r) + Share(2, r)
        /\ conf.sessions = {} /\ q.status \notin {"running"} \cup Past
             => q.stale = q.inFlight
    BY <2>1 DEF ShareInv
  <2> QED BY <1>2, <2>1, <2>2, <2>3
<1>4. /\ conf \in Confs /\ Len(flight) <= conf.concurrent
      /\ pass'.pc # "idle" => Len(flight) < conf.concurrent
  BY DEF ShareInv, Calm
<1> QED BY <1>1, <1>3, <1>4 DEF ShareInv

LEMMA CalmKeepsFences ==
  ASSUME FlightInv, FenceInv, Calm, Placed
  PROVE  FenceInv'
<1>1. conf' = conf /\ flight' = flight /\ pool'.ahead = pool.ahead
  BY DEF Calm, Placed
<1>2. \A k : Steps(k)' = Steps(k)
  BY <1>1 DEF Steps
<1>3. DeferBlockFree' = DeferBlockFree
  BY <1>1 DEF DeferBlockFree, Async
<1>4. ASSUME DeferBlockFree, NEW k \in DOMAIN flight, NEW i \in DOMAIN flight[k].results
      PROVE  LET q == req'[flight[k].results[i].id] IN q.status # "gone" => q.lastSeq >= Steps(k)
  <2>1. PICK r \in Reqs : r = flight[k].results[i].id
    BY DEF FlightInv
  <2>2. CalmFor(r)
    BY DEF Calm
  <2> QED BY <1>4, <2>1, <2>2 DEF FenceInv, CalmFor
<1> QED BY <1>1, <1>2, <1>3, <1>4 DEF FenceInv

(* The loads that a calm step begins. *)
Begins ==
  \A r \in Reqs : Loading(r)' =>
    Loading(r) \/ (pass.pc # "idle" /\ req[r].status \notin {"running", "finished"})

LEMMA CalmKeepsWrites ==
  ASSUME QueueInv, BlockInv, FenceInv, WriteInv, SyncInv, Calm, Placed, Begins
  PROVE  WriteInv'
<1>1. conf' = conf /\ flight' = flight /\ pool'.ahead = pool.ahead
  BY DEF Calm, Placed
<1>2. /\ \A k : Steps(k)' = Steps(k)
      /\ Async' = Async
  BY <1>1 DEF Steps, Async
<1>3. SUFFICES ASSUME conf.connector, NEW k \in DOMAIN flight, NEW i \in DOMAIN flight[k].results,
                      NEW b \in flight[k].results[i].writes, NEW r \in Reqs,
                      r = flight[k].results[i].id
               PROVE  IF Async
                        THEN \/ /\ b \in Owned(r)'
                                /\ req'[r].status \in {"running", "finished"} /\ ~Loading(r)'
                             \/ \E d \in DOMAIN pool'.deferred :
                                  b \in pool'.deferred[d].blocks /\ pool'.deferred[d].fence >= Steps(k)
                        ELSE \A q \in Reqs : Loading(q)' => b \notin Owned(q)'
  BY <1>1, <1>2 DEF WriteInv, QueueInv, FlightInv
<1>4. CASE Async
  <2>1. \/ b \in Owned(r) /\ req[r].status \in {"running", "finished"} /\ ~Loading(r)
        \/ \E d \in DOMAIN pool.deferred :
             b \in pool.deferred[d].blocks /\ pool.deferred[d].fence >= Steps(k)
    BY <1>3, <1>4 DEF WriteInv
  <2>2. ASSUME NEW d \in DOMAIN pool.deferred,
               b \in pool.deferred[d].blocks, pool.deferred[d].fence >= Steps(k)
        PROVE  \E e \in DOMAIN pool'.deferred :
                  b \in pool'.deferred[e].blocks /\ pool'.deferred[e].fence >= Steps(k)
    BY <2>2 DEF Placed
  <2>3. CASE b \in Owned(r) /\ req[r].status \in {"running", "finished"} /\ ~Loading(r)
    <3>1. ~Loading(r)'
      BY <2>3 DEF Begins
    <3>2. PlacedFor(r)
      BY DEF Placed
    <3>3. CASE Owned(r) \in SUBSET ToSet(req'[r].blocks) /\ req'[r].status \in {"running", "finished"}
      BY <1>4, <2>3, <3>1, <3>3 DEF Owned
    <3>4. CASE \A c \in Owned(r) : Fenced(req[r]) =>
                 \E d \in DOMAIN pool'.deferred :
                   c \in pool'.deferred[d].blocks /\ pool'.deferred[d].fence = pool.ahead
      <4>1. Fenced(req[r])
        <5>1. DeferBlockFree
          BY <1>3, <1>4 DEF DeferBlockFree
        <5>2. req[r].status # "gone"
          BY <2>3
        <5>3. req[r].lastSeq >= Steps(k)
          BY <1>3, <5>1, <5>2 DEF FenceInv
        <5>4. flight[k].results # <<>>
          BY <1>3
        <5>5. Steps(k) \in Nat /\ Steps(k) >= 1
          BY <5>4, StepsAre DEF QueueInv, BlockInv
        <5>6. req[r].lastSeq \in Int
          BY DEF BlockInv, NumInv, Numbers
        <5> QED BY <5>1, <5>3, <5>5, <5>6 DEF Fenced
      <4>2. PICK d \in DOMAIN pool'.deferred :
              b \in pool'.deferred[d].blocks /\ pool'.deferred[d].fence = pool.ahead
        BY <2>3, <3>4, <4>1
      <4>3. pool.ahead = Steps(Len(flight))
        BY <1>3, <1>4 DEF FenceInv, DeferBlockFree
      <4>4. Steps(k) <= pool.ahead
        BY <4>3, StepsAre DEF QueueInv, BlockInv
      <4>5. pool.ahead >= Steps(k)
        BY <4>3, <4>4, StepsAre DEF QueueInv, BlockInv
      <4> QED BY <1>4, <4>2, <4>5
    <3> QED BY <2>3, <3>2, <3>3, <3>4 DEF PlacedFor
  <2> QED BY <1>4, <2>1, <2>2, <2>3
<1>5. CASE ~Async
  <2>1. conf.concurrent = 1
    BY <1>5, FlightIs DEF Async, QueueInv, BlockInv
  <2>2. flight # <<>>
    BY <1>3
  <2>3. pass.pc = "idle"
    BY <2>1, <2>2 DEF SyncInv
  <2>4. ASSUME NEW q \in Reqs, Loading(q)'
        PROVE  b \notin Owned(q)'
    <3>1. Loading(q)
      BY <2>3, <2>4 DEF Begins
    <3>2. b \notin Owned(q)
      BY <1>3, <1>5, <3>1 DEF WriteInv
    <3> QED BY <2>3, <3>2 DEF Placed, Owned
  <2> QED BY <1>5, <2>4
<1> QED BY <1>4, <1>5

(* No store begins but that of a request that ends, and no load. *)
Transfers ==
  /\ DOMAIN loads' = Reqs /\ pass'.loads = pass.loads
  /\ pass'.pc = "idle" => pass.pc = "idle"
  /\ \A r \in Reqs :
       /\ loads'[r].st # "none" => loads[r].st # "none"
       /\ stores'[r] # "none" =>
            \/ stores[r] # "none"
            \/ /\ conf.connector /\ req[r].status # "finished" /\ req'[r].status = "finished"
               /\ ~Loading(r)

LEMMA TransfersBeginNone ==
  ASSUME Calm, Transfers
  PROVE  Begins
BY DEF Calm, Transfers, Begins, Loading, RecvBy

LEMMA CalmKeepsTransfers ==
  ASSUME TransferInv, Calm, Transfers
  PROVE  TransferInv'
<1>1. conf' = conf /\ flight' = flight /\ finishedRecv' \in SUBSET finishedRecv
  BY DEF Calm
<1>2. /\ \A k : RecvBy(k)' = RecvBy(k)
  BY <1>1 DEF RecvBy
<1>3. /\ DOMAIN loads' = Reqs /\ pass'.loads \in SUBSET Reqs
      /\ pass'.pc = "idle" => pass'.loads = {}
  BY DEF Transfers, TransferInv
<1>4. finishedRecv' \in SUBSET {r \in Reqs : req'[r].status = "remote"}
  BY <1>1 DEF TransferInv, Calm, CalmFor
<1>5. ASSUME NEW r \in Reqs
      PROVE  /\ r \in pass'.loads => loads'[r].st = "none"
             /\ r \in pass'.loads \/ loads'[r].st # "none" => \A k \in DOMAIN flight : r \notin RecvBy(k)
             /\ stores'[r] # "none" => \A k \in DOMAIN flight : r \notin flight[k].sent
  <2>1. Storing(r) => req[r].status = "finished"
    BY DEF TransferInv
  <2> QED BY <2>1 DEF Transfers, TransferInv, Storing
<1>6. ASSUME NEW r \in Reqs
      PROVE  /\ ~(Loading(r)' /\ Storing(r)')
             /\ Loading(r)' => req'[r].status \in {"remote", "finished"} /\ r \notin finishedRecv'
             /\ Storing(r)' => req'[r].status = "finished"
             /\ ~conf.connector => ~Loading(r)' /\ ~Storing(r)' /\ req'[r].status # "remote"
  <2>1. Loading(r)' => Loading(r)
    BY <1>1, <1>2 DEF Loading, Transfers
  <2>2. Storing(r)' => \/ Storing(r)
                       \/ conf.connector /\ req'[r].status = "finished" /\ ~Loading(r)
    BY <1>1 DEF Storing, Transfers
  <2>3. /\ ~(Loading(r) /\ Storing(r))
        /\ Loading(r) => req[r].status \in {"remote", "finished"} /\ r \notin finishedRecv
        /\ Storing(r) => req[r].status = "finished"
        /\ ~conf.connector => ~Loading(r) /\ ~Storing(r) /\ req[r].status # "remote"
    BY DEF TransferInv
  <2>4. /\ req[r].status = "finished" => req'[r].status = "finished"
        /\ req[r].status = "remote" => req'[r].status \in {"remote", "finished"} \/ r \in finishedRecv
        /\ req'[r].status = "remote" => req[r].status = "remote" \/ conf.connector
    BY DEF Calm, CalmFor
  <2> QED BY <1>1, <2>1, <2>2, <2>3, <2>4
<1>7. /\ \A r \in Reqs : \A j, k \in DOMAIN flight : j # k =>
            /\ r \notin RecvBy(j) \cap RecvBy(k)
            /\ r \notin flight[j].sent \cap flight[k].sent
      /\ \A k \in DOMAIN flight : \A x, y \in flight[k].recv : x.id = y.id => x = y
  BY DEF TransferInv
<1> QED BY <1>1, <1>2, <1>3, <1>4, <1>5, <1>6, <1>7 DEF TransferInv

(* What the proofs carry along. *)
FullInv == BlockInv /\ FenceInv /\ WriteInv

(* A calm step that moves no transfer. *)
LEMMA CalmKeeps ==
  ASSUME QueueInv, FullInv, SyncInv, Calm, Placed, ItemInv', Begins, TransferInv',
         \A r \in Reqs : loads'[r].valid \in Int
  PROVE  FullInv'
<1>1. ShareInv'
  BY CalmKeepsShares DEF FullInv, BlockInv
<1>2. FenceInv'
  BY CalmKeepsFences DEF FullInv, BlockInv, QueueInv
<1>3. WriteInv'
  BY CalmKeepsWrites DEF FullInv
<1>4. NumInv'
  <2>1. SentInv'
    BY DEF FullInv, BlockInv, NumInv, SentInv, Calm
  <2> QED BY <2>1 DEF NumInv, Calm, CalmFor
<1>5. PoolInv' /\ Apart(pool, Blocks(req))'
  <2>1. Pools(pool') /\ Apart(pool', Blocks(req'))
    BY DEF Placed
  <2>2. PoolInv'
    BY <2>1 DEF PoolInv, Pools
  <2>3. Apart(pool, Blocks(req))'
    BY <2>1 DEF Apart, Blocks
  <2> QED BY <2>2, <2>3
<1> QED BY <1>1, <1>2, <1>3, <1>4, <1>5 DEF FullInv, BlockInv
-----------------------------------------------------------------------------
(* Every step but the emission of a step and the output of one. *)

LEMMA MovesNoTransfer ==
  ASSUME QueueInv, FullInv, SyncInv, Calm, Placed, ItemInv', Transfers,
         \A r \in Reqs : loads'[r].valid \in Int
  PROVE  FullInv'
<1>1. Begins
  BY TransfersBeginNone
<1>2. TransferInv'
  BY CalmKeepsTransfers DEF FullInv, BlockInv
<1> QED BY <1>1, <1>2, CalmKeeps

LEMMA NoTransfers ==
  ASSUME QueueInv, FullInv, UNCHANGED <<loads, stores>>,
         pass'.loads = pass.loads, pass'.pc = "idle" => pass.pc = "idle"
  PROVE  Transfers /\ \A r \in Reqs : loads'[r].valid \in Int
BY DEF Transfers, FullInv, BlockInv, TransferInv, NumInv

LEMMA ScheduleBlocks ==
  ASSUME QueueInv, FullInv, SyncInv, Schedule
  PROVE  FullInv'
<1>1. /\ UNCHANGED <<conf, req, pool, flight, loads, stores, finishedRecv, inflightPrefills>>
      /\ Len(flight) < conf.concurrent /\ pass.pc = "idle"
      /\ pass' = [NoPass EXCEPT !.pc = "running", !.idx = 1,
                !.budget = IF pause = "paused_all" THEN 0 ELSE TokenBudget]
  BY DEF Schedule, StartSchedule, runnerVars, kv
<1>2. pass'.items = <<>> /\ pass'.budget \in Int /\ pass'.loads = {} /\ pass'.pc = "running"
  BY <1>1, LimitsAssumption DEF NoPass
<1>3. pass.loads = {}
  BY <1>1 DEF FullInv, BlockInv, TransferInv
<1>4. Calm /\ Placed
  BY <1>1, SameIsCalm DEF QueueInv, FullInv
<1>5. ItemInv'
  BY <1>2 DEF ItemInv
<1> QED BY <1>1, <1>2, <1>3, <1>4, <1>5, NoTransfers, MovesNoTransfer

LEMMA LookBlocks ==
  ASSUME QueueInv, FullInv, SyncInv, UNCHANGED <<runnerVars, left>>,
         \/ PassOverRunning \/ RunningDone \/ StopAdmitting \/ SkipWaiting
         \/ \E n \in 1 .. MaxModelLen : RefuseLoad(n)
  PROVE  FullInv'
<1>1. /\ UNCHANGED <<conf, req, pool, flight, loads, stores, finishedRecv, inflightPrefills>>
      /\ pass.pc # "idle"
  BY DEF PassOverRunning, RunningDone, StopAdmitting, SkipWaiting, RefuseLoad, runnerVars, kv,
         InRunningPass, InWaitingPass, MayLoad, Admissible
<1>2. /\ pass'.items = pass.items /\ pass'.budget = pass.budget /\ pass'.loads = pass.loads
      /\ pass'.pc # "idle"
  <2>1. \E pc, idx, step : /\ pass' = [pass EXCEPT !.pc = pc, !.idx = idx, !.step = step]
                           /\ pc # "idle"
    <3>1. CASE PassOverRunning
      <4>1. pass' = [pass EXCEPT !.pc = pass.pc, !.idx = pass.idx + 1, !.step = pass.step]
        BY <3>1, FieldsAre DEF PassOverRunning, QueueInv, PassInv
      <4> QED BY <1>1, <4>1
    <3>2. CASE RunningDone \/ StopAdmitting \/ \E n \in 1 .. MaxModelLen : RefuseLoad(n)
      <4>1. PICK pc : pc # "idle" /\ pass' = [pass EXCEPT !.pc = pc]
        BY <3>2 DEF RunningDone, StopAdmitting, RefuseLoad
      <4>2. pass' = [pass EXCEPT !.pc = pc, !.idx = pass.idx, !.step = pass.step]
        BY <4>1, FieldsAre DEF QueueInv, PassInv
      <4> QED BY <4>1, <4>2
    <3>3. CASE SkipWaiting
      <4>1. PICK step : pass' = [pass EXCEPT !.step = step]
        BY <3>3 DEF SkipWaiting
      <4>2. pass' = [pass EXCEPT !.pc = pass.pc, !.idx = pass.idx, !.step = step]
        BY <4>1, FieldsAre DEF QueueInv, PassInv
      <4> QED BY <1>1, <4>2
    <3> QED BY <3>1, <3>2, <3>3
  <2> QED BY <2>1, FieldsAre DEF QueueInv, PassInv
<1>3. Len(flight) < conf.concurrent
  BY <1>1 DEF FullInv, BlockInv, ShareInv
<1>4. Calm /\ Placed
  BY <1>1, <1>3, SameIsCalm DEF QueueInv, FullInv
<1>5. ItemInv'
  BY <1>2, ItemsKept DEF FullInv
<1> QED BY <1>1, <1>2, <1>4, <1>5, NoTransfers, MovesNoTransfer

LEMMA PassBlocks ==
  ASSUME QueueInv, FullInv, SyncInv, UNCHANGED <<runnerVars, left>>,
         ScheduleRunning \/ PreemptLast \/ Promote \/ Admit
  PROVE  FullInv'
<1>1. Calm /\ Placed /\ ItemInv'
  BY ScheduleRunningCalm, PreemptLastCalm, PromoteCalm, AdmitCalm DEF FullInv
<1>2. pass'.loads = pass.loads /\ pass'.pc # "idle"
  <2>1. CASE ScheduleRunning
    BY <2>1, FieldsAre DEF ScheduleRunning, InRunningPass, QueueInv, PassInv
  <2>2. CASE PreemptLast
    BY <2>2, FieldsAre DEF PreemptLast, InRunningPass, QueueInv, PassInv
  <2>3. CASE Promote
    BY <2>3 DEF Promote, InWaitingPass
  <2>4. CASE Admit
    BY <2>4, FieldsAre DEF Admit, Admissible, InWaitingPass, QueueInv, PassInv
  <2> QED BY <2>1, <2>2, <2>3, <2>4
<1>3. UNCHANGED <<loads, stores>>
  BY DEF runnerVars
<1> QED BY <1>1, <1>2, <1>3, NoTransfers, MovesNoTransfer

LEMMA LoadingIs ==
  ASSUME TransferInv, NEW r \in Reqs
  PROVE  /\ ~(Loading(r) /\ Storing(r))
         /\ Loading(r) => req[r].status \in {"remote", "finished"} /\ r \notin finishedRecv
         /\ Storing(r) => req[r].status = "finished"
         /\ ~conf.connector => ~Loading(r) /\ ~Storing(r) /\ req[r].status # "remote"
         /\ r \in finishedRecv => req[r].status = "remote"
BY DEF TransferInv

(* A load that begins: nothing was known of the request yet. *)
LEMMA StartLoadBlocks ==
  ASSUME QueueInv, FullInv, SyncInv, IsFiniteSet(Reqs), NEW n \in Nat, StartLoad(n),
         UNCHANGED <<runnerVars, left>>
  PROVE  FullInv'
<1>1. Calm /\ Placed /\ ItemInv'
  BY StartLoadCalm DEF FullInv
<1>2. PICK r : r = Candidate
  OBVIOUS
<1>3. /\ pass' = [pass EXCEPT !.step = Append(@, r), !.loads = @ \cup {r}]
      /\ InWaitingPass /\ req[r].status \notin Blocked /\ conf.connector
      /\ UNCHANGED <<conf, flight, loads, stores, finishedRecv>>
      /\ req' = [req EXCEPT ![r].status = "remote", ![r].computed = n,
                            ![r].blocks = @ \o Allocated(r, n)]
  BY <1>2 DEF StartLoad, MayLoad, Admissible, runnerVars
<1>4. /\ r \in Reqs /\ DOMAIN req = Reqs /\ DOMAIN req[r] = Fields
      /\ req[r].status \notin {"running"} \cup Over \cup Past /\ pass.pc # "idle"
  BY <1>2, <1>3, CandidateStands DEF FullInv
<1>5. /\ req'[r].status = "remote" /\ \A s \in Reqs \ {r} : req'[s] = req[s]
  BY <1>3, <1>4, FieldsAre
<1>6. pass'.loads = pass.loads \cup {r} /\ pass'.pc # "idle"
  BY <1>3, <1>4, FieldsAre DEF QueueInv, PassInv
<1>7. req[r].status \notin {"remote", "finished", "running"}
  BY <1>3, <1>4 DEF Blocked, Past
<1>8. ~Loading(r) /\ ~Storing(r) /\ r \notin finishedRecv
  BY <1>4, <1>7, LoadingIs DEF FullInv, BlockInv
<1>9. \A k : RecvBy(k)' = RecvBy(k)
  BY <1>3 DEF RecvBy
<1>10. \A s \in Reqs : (Loading(s)' <=> Loading(s) \/ s = r) /\ (Storing(s)' <=> Storing(s))
  BY <1>3, <1>6, <1>9 DEF Loading, Storing
<1>11. Begins
  BY <1>4, <1>7, <1>10 DEF Begins
<1>12. TransferInv'
  <2>1. /\ DOMAIN loads' = Reqs /\ pass'.loads \in SUBSET Reqs
        /\ pass'.pc = "idle" => pass'.loads = {}
    <3>1. DOMAIN loads = Reqs /\ pass.loads \in SUBSET Reqs
      BY DEF FullInv, BlockInv, TransferInv
    <3> QED BY <1>3, <1>4, <1>6, <3>1
  <2>2. finishedRecv' \in SUBSET {s \in Reqs : req'[s].status = "remote"}
    <3>1. finishedRecv \in SUBSET {s \in Reqs : req[s].status = "remote"}
      BY DEF FullInv, BlockInv, TransferInv
    <3>2. finishedRecv' = finishedRecv
      BY <1>3
    <3> QED BY <1>5, <3>1, <3>2
  <2>3. ASSUME NEW s \in Reqs
        PROVE  /\ s \in pass'.loads => loads'[s].st = "none"
               /\ s \in pass'.loads \/ loads'[s].st # "none" => \A k \in DOMAIN flight : s \notin RecvBy(k)
               /\ stores'[s] # "none" => \A k \in DOMAIN flight : s \notin flight[k].sent
    <3>1. CASE s = r
      BY <1>3, <1>8, <3>1 DEF Loading, Storing
    <3>2. CASE s # r
      BY <1>3, <1>6, <3>2 DEF FullInv, BlockInv, TransferInv
    <3> QED BY <3>1, <3>2
  <2>4. ASSUME NEW s \in Reqs
        PROVE  /\ ~(Loading(s)' /\ Storing(s)')
               /\ Loading(s)' => req'[s].status \in {"remote", "finished"} /\ s \notin finishedRecv'
               /\ Storing(s)' => req'[s].status = "finished"
               /\ ~conf.connector => ~Loading(s)' /\ ~Storing(s)' /\ req'[s].status # "remote"
    <3>1. CASE s = r
      BY <1>3, <1>5, <1>8, <1>10, <3>1
    <3>2. CASE s # r
      BY <1>3, <1>5, <1>10, <3>2 DEF FullInv, BlockInv, TransferInv
    <3> QED BY <3>1, <3>2
  <2>5. /\ \A s \in Reqs : \A j, k \in DOMAIN flight : j # k =>
              /\ s \notin RecvBy(j) \cap RecvBy(k)
              /\ s \notin flight[j].sent \cap flight[k].sent
        /\ \A k \in DOMAIN flight : \A x, y \in flight[k].recv : x.id = y.id => x = y
    BY DEF FullInv, BlockInv, TransferInv
  <2>6. flight' = flight /\ conf' = conf
    BY <1>3
  <2> QED BY <1>9, <2>1, <2>2, <2>3, <2>4, <2>5, <2>6 DEF TransferInv
<1>13. \A s \in Reqs : loads'[s].valid \in Int
  BY <1>3 DEF FullInv, BlockInv, NumInv
<1> QED BY <1>1, <1>11, <1>12, <1>13, CalmKeeps

LEMMA StartedIsNat == \A n \in 1 .. MaxModelLen : n \in Nat
BY LimitsAssumption

(* Calls from outside. *)
LEMMA CallBlocks ==
  ASSUME QueueInv, FullInv, SyncInv,
         Reset \/ \E r \in Reqs : Arrive(r) \/ Compile(r) \/ NextInput(r)
  PROVE  FullInv'
<1>1. Calm /\ Placed /\ ItemInv'
  BY ArriveCalm, CompileCalm, NextInputCalm, ResetCalm DEF FullInv
<1>2. pass' = pass /\ UNCHANGED <<loads, stores>>
  BY DEF Arrive, AddRequest, Compile, GrammarCompiled, NextInput, AddUpdate, EndSession,
         FinishRequests, Reset, ResetPrefixCache, runnerVars
<1> QED BY <1>1, <1>2, NoTransfers, MovesNoTransfer

LEMMA AbortBlocks ==
  ASSUME QueueInv, FullInv, SyncInv, NEW r \in Reqs, NEW send \in BOOLEAN, Abort(r, send)
  PROVE  FullInv'
<1>1. /\ FinishRequests(r, send) /\ flight' = flight /\ loads' = loads /\ pass' = pass
      /\ stores' = Stores(IF send THEN {r} ELSE {})
      /\ send => conf.connector
  BY DEF Abort, FinishRequests
<1>2. Calm /\ Placed /\ ItemInv'
  BY <1>1, AbortCalm DEF FullInv
<1>3. ASSUME send
      PROVE  /\ req[r].status # "finished" /\ req'[r].status = "finished" /\ ~Loading(r)
  <2>1. /\ req[r].status \notin Over /\ ~(req[r].status = "remote" /\ r \notin finishedRecv)
        /\ req' = Deleted([req EXCEPT ![r].status = "finished"], ToSet(<<>>))
    BY <1>1, <1>3 DEF FinishRequests
  <2>2. PICK m : m = [req EXCEPT ![r].status = "finished"]
    OBVIOUS
  <2>3. req'[r] = m[r]
    BY <2>1, <2>2, NoneOf DEF Deleted
  <2>4. m[r].status = "finished"
    BY <2>2, FieldsAre DEF QueueInv, RequestInv
  <2>5. req'[r].status = "finished"
    BY <2>3, <2>4
  <2>6. ~Loading(r)
    BY <2>1 DEF FullInv, BlockInv, TransferInv, Over
  <2> QED BY <2>1, <2>5, <2>6 DEF Over
<1>4. Transfers
  <2>1. \A q \in Reqs : stores'[q] # "none" => stores[q] # "none" \/ (send /\ q = r)
    BY <1>1 DEF Stores
  <2> QED BY <1>1, <1>3, <2>1 DEF Transfers, FullInv, BlockInv, TransferInv
<1>5. \A q \in Reqs : loads'[q].valid \in Int
  BY <1>1 DEF FullInv, BlockInv, NumInv
<1> QED BY <1>2, <1>4, <1>5, MovesNoTransfer

LEMMA QuietBlocks ==
  ASSUME QueueInv, FullInv, SyncInv,
         UNCHANGED <<conf, req, pool, flight, finishedRecv, inflightPrefills, pass, loads, stores>>
  PROVE  FullInv'
<1>1. pass'.pc # "idle" => Len(flight) < conf.concurrent
  BY DEF FullInv, BlockInv, ShareInv
<1>2. Calm /\ Placed
  BY <1>1, SameIsCalm DEF QueueInv, FullInv
<1>3. ItemInv'
  BY ItemsKept DEF FullInv
<1> QED BY <1>2, <1>3, NoTransfers, MovesNoTransfer

LEMMA OutsideBlocks ==
  ASSUME QueueInv, FullInv, SyncInv, NEW r \in Reqs, LoadDone(r) \/ StoreDone(r)
  PROVE  FullInv'
<1>1. UNCHANGED <<conf, req, pool, flight, finishedRecv, inflightPrefills, pass>>
  BY DEF LoadDone, StoreDone, schedVars, kv
<1>2. pass'.pc # "idle" => Len(flight) < conf.concurrent
  BY <1>1 DEF FullInv, BlockInv, ShareInv
<1>3. Calm /\ Placed
  BY <1>1, <1>2, SameIsCalm DEF QueueInv, FullInv
<1>4. ItemInv'
  BY <1>1, ItemsKept DEF FullInv
<1>5. DOMAIN loads = Reqs /\ DOMAIN stores = Reqs /\ \A q \in Reqs : loads[q].valid \in Int
  BY DEF FullInv, BlockInv, TransferInv, NumInv, QueueInv, FlightInv
<1>6. CASE LoadDone(r)
  <2>1. /\ stores' = stores /\ loads[r].st = "loading"
        /\ \E valid \in {k * BlockSize : k \in 0 .. MaxModelLen} :
             loads' = [loads EXCEPT ![r] = [st |-> "done", valid |-> valid]]
    BY <1>6 DEF LoadDone
  <2>2. {k * BlockSize : k \in 0 .. MaxModelLen} \in SUBSET Int
    BY LimitsAssumption
  <2>3. PICK v \in Int : loads' = [loads EXCEPT ![r] = [st |-> "done", valid |-> v]]
    BY <2>1, <2>2
  <2>4. /\ DOMAIN loads' = Reqs
        /\ \A q \in Reqs : loads'[q].valid \in Int /\ (loads'[q].st # "none" => loads[q].st # "none")
    BY <1>5, <2>1, <2>3
  <2>5. Transfers
    BY <1>1, <2>1, <2>4 DEF Transfers
  <2> QED BY <1>3, <1>4, <2>4, <2>5, MovesNoTransfer
<1>7. CASE StoreDone(r)
  <2>1. loads' = loads /\ stores[r] = "storing" /\ stores' = [stores EXCEPT ![r] = "done"]
    BY <1>7 DEF StoreDone
  <2>2. Transfers
    BY <1>1, <1>5, <2>1 DEF Transfers
  <2> QED BY <1>3, <1>4, <1>5, <2>1, <2>2, MovesNoTransfer
<1> QED BY <1>6, <1>7
-----------------------------------------------------------------------------
(* The step that goes out, and what the runner makes of it. *)

LEMMA ItemsAre ==
  ASSUME NEW S, \A i, j \in DOMAIN S : S[i].id = S[j].id => i = j
  PROVE  /\ DOMAIN Items(S) = {S[i].id : i \in DOMAIN S}
         /\ \A i \in DOMAIN S : Items(S)[S[i].id] = S[i]
<1>1. DOMAIN Items(S) = {S[i].id : i \in DOMAIN S}
  BY DEF Items
<1>2. ASSUME NEW i \in DOMAIN S
      PROVE  Items(S)[S[i].id] = S[i]
  <2>1. Items(S)[S[i].id] = CHOOSE x \in ToSet(S) : x.id = S[i].id
    BY DEF Items
  <2>2. S[i] \in ToSet(S) /\ \A x \in ToSet(S) : \E j \in DOMAIN S : x = S[j]
    BY DEF ToSet
  <2>3. \A x \in ToSet(S) : x.id = S[i].id => x = S[i]
    BY <2>2
  <2> QED BY <2>1, <2>2, <2>3
<1> QED BY <1>1, <1>2

(* What the result of an item is, given the slot of its request. *)
Made(x, item, slot) ==
  /\ x.id = item.id /\ x.n = item.n /\ x.specs = item.specs
  /\ x.pos = slot.len /\ x.start = slot.computed
  /\ x.writes = Written(item.id, slot.computed, item.n)
  /\ \E t \in Sampled(slot, item) : x.gen = t.gen /\ x.eos = t.eos

Emitted(out) ==
  LET ready == SlotsAfter(Output)
      of == Items(out.results)
  IN  /\ flight' = Append(flight, out)
      /\ out.results \in Seq(Range(out.results)) /\ DOMAIN out.results = DOMAIN pass.items
      /\ out.sent = {r \in Reqs : stores[r] = "done"}
      /\ \A x : x \in out.recv <=>
           \E r \in Reqs : loads[r].st = "done" /\ x = [id |-> r, valid |-> loads[r].valid]
      /\ loads' = [r \in Reqs |->
                     IF r \in pass.loads THEN [st |-> "loading", valid |-> 0]
                     ELSE IF loads[r].st = "done" THEN NoTransfer ELSE loads[r]]
      /\ stores' = [r \in Reqs |-> IF stores[r] = "done" THEN "none" ELSE stores[r]]
      /\ \A i \in DOMAIN pass.items :
           /\ pass.items[i].id \in DOMAIN ready
           /\ Made(out.results[i], pass.items[i], ready[pass.items[i].id])
      /\ slots' = [r \in DOMAIN ready |->
                     IF r \in DOMAIN of THEN PostUpdate(ready[r], of[r]) ELSE ready[r]]

LEMMA EmittedIs ==
  ASSUME QueueInv, Emit
  PROVE  \E out : Emitted(out)
<1>1. PICK n \in Nat : n = Len(pass.items) /\ DOMAIN pass.items = 1 .. n
  BY DEF QueueInv, PassInv
<1> DEFINE ready == SlotsAfter(Output)
           outcomes == [i \in 1 .. n |-> Sampled(ready[pass.items[i].id], pass.items[i])]
           made(s) == [i \in 1 .. n |->
                         Result(pass.items[i], ready[pass.items[i].id], s[i])]
           over == {r \in Reqs : loads[r].st = "done"}
           done == {r \in Reqs : stores[r] = "done"}
           back == {[id |-> r, valid |-> loads[r].valid] : r \in over}
           more == [r \in Reqs |->
                      IF r \in pass.loads THEN [st |-> "loading", valid |-> 0]
                      ELSE IF r \in over THEN NoTransfer ELSE loads[r]]
           held(of) == [r \in DOMAIN ready |->
                          IF r \in DOMAIN of THEN PostUpdate(ready[r], of[r]) ELSE ready[r]]
<1>2. Output.items = pass.items /\ Output.loads = pass.loads
  BY DEF Output
<1>3. \A i \in 1 .. n : pass.items[i].id \in DOMAIN ready
  BY <1>1, <1>2 DEF Emit, Execute
<1>4. PICK s \in FunctionsInto(outcomes) :
        /\ slots' = held(Items(made(s)))
        /\ flight' = Append(flight, [results |-> made(s), sent |-> done, recv |-> back])
        /\ loads' = more
        /\ stores' = [r \in Reqs |-> IF r \in done THEN "none" ELSE stores[r]]
  <2> DEFINE outcome2 == [i \in 1 .. Len(Output.items) |->
                Sampled(SlotsAfter(Output)[Output.items[i].id], Output.items[i])]
             made2(s) == [i \in 1 .. Len(Output.items) |->
                            Result(Output.items[i], SlotsAfter(Output)[Output.items[i].id], s[i])]
             more2 == [r \in Reqs |->
                      IF r \in Output.loads THEN [st |-> "loading", valid |-> 0]
                      ELSE IF r \in over THEN NoTransfer ELSE loads[r]]
  <2>1. Execute
    BY DEF Emit
  <2>2. \E s \in FunctionsInto(outcome2) :
          /\ slots' = held(Items(made2(s)))
          /\ flight' = Append(flight, [results |-> made2(s), sent |-> done, recv |-> back])
          /\ loads' = more2
          /\ stores' = [r \in Reqs |-> IF r \in done THEN "none" ELSE stores[r]]
    BY <2>1, Zenon DEF Execute
  <2>3. outcome2 = outcomes /\ more2 = more
    BY <1>1, <1>2
  <2>4. \A s : made2(s) = made(s)
    BY <1>1, <1>2
  <2> HIDE DEF outcome2, outcomes, made2, made, more2, more, held, done, back, over
  <2> QED BY <2>2, <2>3, <2>4
<1>5. PICK out : out = [results |-> made(s), sent |-> done, recv |-> back]
  OBVIOUS
<1>6. DOMAIN s = 1 .. n /\ \A i \in 1 .. n : s[i] \in Sampled(ready[pass.items[i].id], pass.items[i])
  <2>1. DOMAIN outcomes = 1 .. n /\ \A i \in 1 .. n : outcomes[i] = Sampled(ready[pass.items[i].id], pass.items[i])
    OBVIOUS
  <2> HIDE DEF outcomes
  <2>2. s \in FunctionsInto(outcomes)
    OBVIOUS
  <2> QED BY <2>1, <2>2 DEF FunctionsInto
<1>7. /\ out.results = made(s) /\ out.sent = done /\ out.recv = back
      /\ flight' = Append(flight, out)
  BY <1>4, <1>5
<1>8. ASSUME NEW i \in 1 .. n
      PROVE  Made(out.results[i], pass.items[i], ready[pass.items[i].id])
  <2>1. PICK item, slot, t : item = pass.items[i] /\ slot = ready[item.id] /\ t = s[i]
    OBVIOUS
  <2>2. out.results[i] = Result(item, slot, t) /\ t \in Sampled(slot, item)
    BY <1>6, <1>7, <2>1
  <2> QED BY <2>1, <2>2 DEF Made, Result
<1>9. out.results \in Seq(Range(out.results)) /\ DOMAIN out.results = 1 .. n
  <2>1. DOMAIN out.results = 1 .. n
    BY <1>7
  <2>2. PICK f : f = out.results
    OBVIOUS
  <2>3. f = [i \in 1 .. n |-> f[i]]
    BY <1>7, <2>2
  <2>4. \A i \in 1 .. n : f[i] \in Range(f)
    BY <2>1, <2>2 DEF Range
  <2>5. f \in Seq(Range(f))
    BY <2>3, <2>4
  <2> QED BY <2>1, <2>2, <2>5
<1>10. \A x : x \in out.recv <=>
           \E r \in Reqs : loads[r].st = "done" /\ x = [id |-> r, valid |-> loads[r].valid]
  BY <1>7
<1>11. /\ loads' = [r \in Reqs |->
                     IF r \in pass.loads THEN [st |-> "loading", valid |-> 0]
                     ELSE IF loads[r].st = "done" THEN NoTransfer ELSE loads[r]]
       /\ stores' = [r \in Reqs |-> IF stores[r] = "done" THEN "none" ELSE stores[r]]
       /\ out.sent = {r \in Reqs : stores[r] = "done"}
  BY <1>4, <1>7
<1>12. slots' = held(Items(out.results))
  BY <1>4, <1>7
<1> HIDE DEF over, done, back, more, made, outcomes
<1> QED BY <1>1, <1>3, <1>7, <1>8, <1>9, <1>10, <1>11, <1>12 DEF Emitted
-----------------------------------------------------------------------------
(* What going out makes of a request. *)

LEMMA ScheduledOnceIs ==
  ASSUME NEW q, DOMAIN q = Fields, Numbers(q), NEW item, item.n \in Int, item.specs \in Int,
         NEW seq \in Int, NEW p, p = AfterSchedule(q, item, seq)
  PROVE  /\ Numbers(p) /\ p.status = q.status /\ p.inFlight = q.inFlight + item.n
         /\ p.stale = q.stale /\ p.drop = q.drop /\ p.lastSeq = seq /\ p.blocks = q.blocks
         /\ DOMAIN p = Fields
<1>1. PICK c, g : /\ g = [q EXCEPT !.computed = @ + item.n, !.inFlight = @ + item.n,
                                   !.lastSeq = seq, !.chunk = c]
                  /\ p = IF c \/ ~Async THEN g
                         ELSE [g EXCEPT !.placeholders = @ + 1 + item.specs, !.specs = NumSpec]
  BY DEF AfterSchedule
<1>2. /\ DOMAIN g = Fields /\ g.status = q.status /\ g.inFlight = q.inFlight + item.n
      /\ g.stale = q.stale /\ g.drop = q.drop /\ g.lastSeq = seq /\ g.blocks = q.blocks
      /\ g.prompt = q.prompt /\ g.tokens = q.tokens /\ g.computed = q.computed + item.n
      /\ g.placeholders = q.placeholders /\ g.specs = q.specs
  BY <1>1, FieldsAre
<1>3. Numbers(g)
  BY <1>2 DEF Numbers
<1>4. CASE p = g
  BY <1>2, <1>3, <1>4
<1>5. CASE p = [g EXCEPT !.placeholders = @ + 1 + item.specs, !.specs = NumSpec]
  <2>1. /\ DOMAIN p = Fields /\ p.status = g.status /\ p.inFlight = g.inFlight
        /\ p.stale = g.stale /\ p.drop = g.drop /\ p.lastSeq = g.lastSeq /\ p.blocks = g.blocks
        /\ p.prompt = g.prompt /\ p.tokens = g.tokens /\ p.computed = g.computed
        /\ p.placeholders = g.placeholders + 1 + item.specs /\ p.specs = NumSpec
    BY <1>2, <1>5, FieldsAre
  <2>2. Numbers(p)
    <3>1. NumSpec \in Int
      BY LimitsAssumption
    <3>2. g.placeholders + 1 + item.specs \in Int
      BY <1>3 DEF Numbers
    <3> QED BY <1>3, <2>1, <3>1, <3>2 DEF Numbers
  <2> QED BY <1>2, <2>1, <2>2
<1> QED BY <1>1, <1>4, <1>5

LEMMA SampledIs ==
  ASSUME NEW slot, NEW item, item.specs \in Nat, NEW t \in Sampled(slot, item)
  PROVE  t.gen \in 0 .. 1 + item.specs
<1>1. CASE t \in {[gen |-> 0, eos |-> 0]}
  BY <1>1
<1>2. CASE t \in [gen : 1 .. (1 + item.specs), eos : 0 .. (1 + item.specs)]
  BY <1>2
<1> QED BY <1>1, <1>2 DEF Sampled

(* What an emission does to a request: r is scheduled by item. *)
Grows(r, item, seq) ==
  LET q == req[r]
      p == req'[r]
  IN  /\ p.status = q.status /\ p.inFlight = q.inFlight + item.n
      /\ p.stale = q.stale /\ p.drop = q.drop /\ p.lastSeq = seq /\ p.blocks = q.blocks

(* The whole of an emission, but for what the runner computes. *)
Sent(out, seq) ==
  /\ flight' = Append(flight, out) /\ conf' = conf
  /\ pass' = NoPass /\ finishedRecv' = finishedRecv
  /\ inflightPrefills' \in SUBSET inflightPrefills
  /\ seq = IF DeferBlockFree /\ pass.items # <<>> THEN pool.ahead + 1 ELSE pool.ahead
  /\ pool'.ahead = seq /\ pool'.free = pool.free /\ pool'.deferred = pool.deferred
  /\ Pools(pool')
  /\ DOMAIN out.results = DOMAIN pass.items
  /\ \A i \in DOMAIN pass.items :
       /\ out.results[i].id = pass.items[i].id /\ out.results[i].n = pass.items[i].n
       /\ pass.items[i].id \in Reqs /\ req[pass.items[i].id].status = "running"
       /\ Grows(pass.items[i].id, pass.items[i], seq)
  /\ \A r \in Reqs : (\A i \in DOMAIN pass.items : pass.items[i].id # r) => req'[r] = req[r]
  /\ \A r \in Reqs : Numbers(req'[r])

LEMMA SentIs ==
  ASSUME QueueInv, BlockInv, Emit, NEW out, Emitted(out)
  PROVE  \E seq : Sent(out, seq)
<1>1. PICK of, seq :
        /\ of = Items(pass.items)
        /\ seq = IF DeferBlockFree /\ pass.items # <<>> THEN pool.ahead + 1 ELSE pool.ahead
  OBVIOUS
<1>2. /\ pool' = [pool EXCEPT !.ahead = seq]
      /\ req' = [r \in Reqs |-> IF r \in DOMAIN of THEN AfterSchedule(req[r], of[r], seq)
                                                   ELSE req[r]]
      /\ inflightPrefills' \in SUBSET inflightPrefills
      /\ pass' = NoPass /\ finishedRecv' = finishedRecv /\ conf' = conf
  BY <1>1 DEF Emit, FinishSchedule
<1>3. /\ DOMAIN of = {pass.items[i].id : i \in DOMAIN pass.items}
      /\ \A i \in DOMAIN pass.items : of[pass.items[i].id] = pass.items[i]
  BY <1>1, ItemsAre DEF QueueInv, PassInv
<1>4. pool.ahead \in Int /\ seq \in Int
  BY <1>1 DEF BlockInv, PoolInv, Pools
<1>5. \A i \in DOMAIN pass.items : pass.items[i].id \in Reqs /\ req[pass.items[i].id].status = "running"
  <2>1. PICK R : Lists(running, R) /\ R = {q \in Reqs : req[q].status = "running"}
    BY DEF QueueInv, ListInv, Places
  <2>2. \A k \in DOMAIN running : running[k] \in R
    BY <2>1 DEF Lists, ToSet
  <2> QED BY <2>1, <2>2 DEF QueueInv, PassInv
<1>6. \A i \in DOMAIN pass.items : pass.items[i].n \in Int /\ pass.items[i].specs \in Int
  BY DEF BlockInv, NumInv, ItemInv
<1>7. ASSUME NEW i \in DOMAIN pass.items
      PROVE  Numbers(req'[pass.items[i].id]) /\ Grows(pass.items[i].id, pass.items[i], seq)
  <2>1. PICK r, item, p, q :
          r = pass.items[i].id /\ item = pass.items[i] /\ p = req'[r] /\ q = req[r]
    OBVIOUS
  <2>2. p = AfterSchedule(q, item, seq)
    BY <1>2, <1>3, <1>5, <2>1
  <2>3. DOMAIN q = Fields /\ Numbers(q)
    BY <1>5, <2>1, NumbersAre DEF QueueInv
  <2>4. item.n \in Int /\ item.specs \in Int
    BY <1>6, <2>1
  <2>5. /\ Numbers(p) /\ p.status = q.status /\ p.inFlight = q.inFlight + item.n
        /\ p.stale = q.stale /\ p.drop = q.drop /\ p.lastSeq = seq /\ p.blocks = q.blocks
    BY <1>4, <2>2, <2>3, <2>4, ScheduledOnceIs
  <2> QED BY <2>1, <2>5 DEF Grows
<1>8. \A r \in Reqs : (\A i \in DOMAIN pass.items : pass.items[i].id # r) => req'[r] = req[r]
  BY <1>2, <1>3
<1>9. \A r \in Reqs : Numbers(req'[r])
  <2> TAKE r \in Reqs
  <2>1. CASE \E i \in DOMAIN pass.items : pass.items[i].id = r
    BY <1>7, <2>1
  <2>2. CASE \A i \in DOMAIN pass.items : pass.items[i].id # r
    BY <1>8, <2>2 DEF BlockInv, NumInv
  <2> QED BY <2>1, <2>2
<1>10. /\ pool'.ahead = seq /\ pool'.free = pool.free /\ pool'.deferred = pool.deferred
       /\ Pools(pool')
  <2>1. Pools(pool)
    BY DEF BlockInv, PoolInv
  <2>2. /\ pool'.ahead = seq /\ pool'.free = pool.free /\ pool'.deferred = pool.deferred
        /\ DOMAIN pool' = DOMAIN pool
    BY <1>2, <2>1 DEF Pools
  <2> QED BY <1>4, <2>1, <2>2 DEF Pools
<1>11. \A i \in DOMAIN pass.items :
          out.results[i].id = pass.items[i].id /\ out.results[i].n = pass.items[i].n
  BY DEF Emitted, Made
<1>12. flight' = Append(flight, out) /\ DOMAIN out.results = DOMAIN pass.items
  BY DEF Emitted
<1> QED BY <1>1, <1>2, <1>5, <1>7, <1>8, <1>9, <1>10, <1>11, <1>12 DEF Sent

(* The flight after an emission. *)
LEMMA LongerFlight ==
  ASSUME QueueInv, ShareInv, pass.pc # "idle", NEW out, flight' = Append(flight, out)
  PROVE  LET n == Len(flight)
         IN  /\ n \in {0, 1} /\ DOMAIN flight = 1 .. n /\ DOMAIN flight' = 1 .. n + 1
             /\ n < conf.concurrent /\ Len(flight') = n + 1
             /\ flight'[n + 1] = out /\ \A k \in 1 .. n : flight'[k] = flight[k]
<1>1. PICK n : n = Len(flight)
  OBVIOUS
<1>2. /\ n \in 0 .. 2 /\ DOMAIN flight = 1 .. n /\ conf.concurrent \in {1, 2}
  BY <1>1, FlightIs DEF QueueInv
<1>3. n < conf.concurrent
  BY <1>1 DEF ShareInv
<1>4. PICK X : flight \in Seq(X)
  BY DEF QueueInv, FlightInv
<1> QED BY <1>1, <1>2, <1>3, <1>4

LEMMA EmitShares ==
  ASSUME QueueInv, BlockInv, pass.pc = "emit", NEW out, NEW seq, Sent(out, seq)
  PROVE  ShareInv'
<1>1. PICK n : n = Len(flight)
  OBVIOUS
<1>2. /\ n \in {0, 1} /\ DOMAIN flight = 1 .. n /\ DOMAIN flight' = 1 .. n + 1
      /\ n < conf.concurrent /\ Len(flight') = n + 1
      /\ flight'[n + 1] = out /\ \A k \in 1 .. n : flight'[k] = flight[k]
  BY <1>1, LongerFlight DEF Sent, BlockInv
<1>3. \A r \in Reqs : \A k \in 1 .. n : Share(k, r)' = Share(k, r)
  BY <1>2 DEF Share, ResultIn
<1>4. \A r \in Reqs : \A k \in (1 .. 2) \ (1 .. n + 1) : Share(k, r)' = 0 /\ Share(k, r) = 0
  BY <1>2 DEF Share
<1>5. \A r \in Reqs : Share(n + 1, r) = 0
  BY <1>2 DEF Share
<1>6. /\ DOMAIN Items(out.results) = {out.results[i].id : i \in DOMAIN out.results}
      /\ \A i \in DOMAIN out.results : Items(out.results)[out.results[i].id] = out.results[i]
  <2>1. \A i, j \in DOMAIN out.results : out.results[i].id = out.results[j].id => i = j
    BY DEF Sent, QueueInv, PassInv
  <2> QED BY <2>1, ItemsAre
<1>7. ASSUME NEW i \in DOMAIN pass.items, NEW r \in Reqs, r = pass.items[i].id
      PROVE  Share(n + 1, r)' = pass.items[i].n
  <2>1. PICK x : x = out.results[i]
    OBVIOUS
  <2>2. x.id = r /\ x.n = pass.items[i].n /\ i \in DOMAIN out.results
    BY <1>7, <2>1 DEF Sent
  <2>3. r \in DOMAIN Items(out.results) /\ Items(out.results)[r] = x
    BY <1>6, <2>1, <2>2
  <2>4. n + 1 \in DOMAIN flight' /\ flight'[n + 1].results = out.results
    BY <1>2
  <2> QED BY <2>1, <2>2, <2>3, <2>4 DEF Share, ResultIn
<1>8. ASSUME NEW r \in Reqs, \A i \in DOMAIN pass.items : pass.items[i].id # r
      PROVE  Share(n + 1, r)' = 0
  <2>1. \A i \in DOMAIN out.results : out.results[i].id # r
    BY <1>8 DEF Sent
  <2>2. r \notin DOMAIN Items(out.results)
    BY <1>6, <2>1
  <2>3. n + 1 \in DOMAIN flight' /\ flight'[n + 1].results = out.results
    BY <1>2
  <2> QED BY <2>2, <2>3 DEF Share, ResultIn, NoResult
<1>9. ASSUME NEW r \in Reqs
      PROVE  /\ req'[r].status # "gone" => req'[r].inFlight = Share(1, r)' + Share(2, r)'
             /\ conf.sessions = {} /\ req'[r].status \notin {"running"} \cup Past
                   => req'[r].stale = req'[r].inFlight
             /\ req'[r].status = "remote" /\ req'[r].stale > 0 => req'[r].drop
  <2>1. PICK q, s1, s2 : q = req[r] /\ s1 = Share(1, r) /\ s2 = Share(2, r)
    OBVIOUS
  <2>2. /\ q.status # "gone" => q.inFlight = s1 + s2
        /\ conf.sessions = {} /\ q.status \notin {"running"} \cup Past => q.stale = q.inFlight
        /\ q.status = "remote" /\ q.stale > 0 => q.drop
    BY <2>1 DEF BlockInv, ShareInv
  <2>3. CASE \E i \in DOMAIN pass.items : pass.items[i].id = r
    <3>1. PICK i \in DOMAIN pass.items : pass.items[i].id = r
      BY <2>3
    <3>2. PICK m : m = pass.items[i].n
      OBVIOUS
    <3>3. /\ req'[r].status = "running" /\ q.status = "running" /\ req'[r].inFlight = q.inFlight + m
          /\ m \in Nat
      BY <2>1, <3>1, <3>2 DEF Sent, Grows, BlockInv, NumInv, ItemInv
    <3>4. Share(n + 1, r)' = m
      BY <1>7, <3>1, <3>2
    <3>5. CASE n = 0
      <4>1. s1 = 0 /\ s2 = 0 /\ Share(1, r)' = m /\ Share(2, r)' = 0
        BY <1>4, <1>5, <2>1, <3>4, <3>5
      <4> QED BY <2>2, <3>3, <4>1
    <3>6. CASE n = 1
      <4>1. s2 = 0 /\ Share(1, r)' = s1 /\ Share(2, r)' = m
        BY <1>3, <1>5, <2>1, <3>4, <3>6
      <4>2. q.inFlight \in Int
        BY <2>1 DEF BlockInv, NumInv, Numbers
      <4>3. s1 \in Int
        <5>1. ResultIn(1, r).n \in Int
          <6>1. \A i2 \in DOMAIN flight[1].results : flight[1].results[i2].n \in Int
            BY <1>2, <3>6 DEF BlockInv, NumInv, SentInv
          <6>2. \A i2, j2 \in DOMAIN flight[1].results :
                   flight[1].results[i2].id = flight[1].results[j2].id => i2 = j2
            BY <1>2, <3>6 DEF QueueInv, FlightInv
          <6>3. /\ DOMAIN Items(flight[1].results) =
                     {flight[1].results[i2].id : i2 \in DOMAIN flight[1].results}
                /\ \A i2 \in DOMAIN flight[1].results :
                     Items(flight[1].results)[flight[1].results[i2].id] = flight[1].results[i2]
            BY <6>2, ItemsAre
          <6> QED BY <6>1, <6>3 DEF ResultIn, NoResult
        <5> QED BY <2>1, <5>1 DEF Share
      <4> QED BY <2>2, <3>3, <4>1, <4>2, <4>3
    <3> QED BY <1>2, <3>5, <3>6
  <2>4. CASE \A i \in DOMAIN pass.items : pass.items[i].id # r
    <3>1. req'[r] = q
      BY <2>1, <2>4 DEF Sent
    <3>2. Share(n + 1, r)' = 0
      BY <1>8, <2>4
    <3>3. CASE n = 0
      <4>1. s1 = 0 /\ s2 = 0 /\ Share(1, r)' = 0 /\ Share(2, r)' = 0
        BY <1>4, <1>5, <2>1, <3>2, <3>3
      <4> QED BY <2>2, <3>1, <4>1
    <3>4. CASE n = 1
      <4>1. s2 = 0 /\ Share(1, r)' = s1 /\ Share(2, r)' = 0
        BY <1>3, <1>5, <2>1, <3>2, <3>4
      <4> QED BY <2>2, <3>1, <4>1
    <3> QED BY <1>2, <3>3, <3>4
  <2> QED BY <2>3, <2>4
<1>10. /\ conf' = conf /\ pass'.pc = "idle" /\ Len(flight') <= conf.concurrent /\ conf \in Confs
  <2>1. conf.concurrent \in {1, 2} /\ conf \in Confs
    BY FlightIs DEF QueueInv, BlockInv, ShareInv
  <2> QED BY <1>2, <2>1 DEF Sent, NoPass
<1> QED BY <1>9, <1>10 DEF ShareInv
-----------------------------------------------------------------------------
(* The step goes out: the numbers, the shares and the transfers. *)

LEMMA EmitNumbers ==
  ASSUME QueueInv, BlockInv, pass.pc = "emit", NEW out, NEW seq, Sent(out, seq), Emitted(out)
  PROVE  NumInv'
<1>1. PICK n : n = Len(flight)
  OBVIOUS
<1>2. /\ n \in {0, 1} /\ DOMAIN flight = 1 .. n /\ DOMAIN flight' = 1 .. n + 1
      /\ flight'[n + 1] = out /\ \A k \in 1 .. n : flight'[k] = flight[k]
  BY <1>1, LongerFlight DEF Sent, BlockInv
<1>3. ASSUME NEW i \in DOMAIN out.results
      PROVE  LET x == out.results[i]
             IN  x.n \in Nat \ {0} /\ x.specs \in Nat /\ x.gen \in 0 .. 1 + x.specs
  <2>1. PICK x, item : x = out.results[i] /\ item = pass.items[i] /\ i \in DOMAIN pass.items
    BY DEF Emitted
  <2>2. item.n \in Nat \ {0} /\ item.specs \in Nat
    BY <2>1 DEF BlockInv, NumInv, ItemInv
  <2>3. PICK slot : Made(x, item, slot)
    BY <2>1 DEF Emitted
  <2>4. x.n = item.n /\ x.specs = item.specs
    BY <2>3 DEF Made
  <2>5. x.gen \in 0 .. 1 + item.specs
    BY <2>2, <2>3, SampledIs DEF Made
  <2> QED BY <2>1, <2>2, <2>4, <2>5
<1>4. \A x \in out.recv : x.valid \in Int
  BY DEF Emitted, BlockInv, NumInv
<1>5. SentInv'
  <2>1. ASSUME NEW k \in 1 .. n
        PROVE  /\ \A i \in DOMAIN flight'[k].results :
                    LET x == flight'[k].results[i]
                    IN  x.n \in Nat \ {0} /\ x.specs \in Nat /\ x.gen \in 0 .. 1 + x.specs
               /\ \A x \in flight'[k].recv : x.valid \in Int
    BY <1>2 DEF BlockInv, NumInv, SentInv
  <2> QED BY <1>2, <1>3, <1>4, <2>1 DEF SentInv
<1>6. ItemInv'
  BY DEF ItemInv, Sent, NoPass
<1>7. \A r \in Reqs : loads'[r].valid \in Int
  <2> TAKE r \in Reqs
  <2>1. loads'[r] = IF r \in pass.loads THEN [st |-> "loading", valid |-> 0]
                    ELSE IF loads[r].st = "done" THEN NoTransfer ELSE loads[r]
    BY DEF Emitted
  <2>2. loads[r].valid \in Int
    BY DEF BlockInv, NumInv
  <2> QED BY <2>1, <2>2 DEF NoTransfer
<1>8. inflightPrefills' \in SUBSET Reqs
  BY DEF Sent, BlockInv, NumInv
<1>9. \A r \in Reqs : Numbers(req'[r])
  BY DEF Sent
<1> QED BY <1>5, <1>6, <1>7, <1>8, <1>9 DEF NumInv

LEMMA EmitTransfers ==
  ASSUME QueueInv, BlockInv, pass.pc = "emit", NEW out, NEW seq, Sent(out, seq), Emitted(out)
  PROVE  TransferInv' /\ \A r \in Reqs : Loading(r)' <=> Loading(r)
<1>1. PICK n : n = Len(flight)
  OBVIOUS
<1>2. /\ n \in {0, 1} /\ DOMAIN flight = 1 .. n /\ DOMAIN flight' = 1 .. n + 1
      /\ flight'[n + 1] = out /\ \A k \in 1 .. n : flight'[k] = flight[k]
  BY <1>1, LongerFlight DEF Sent, BlockInv
<1>3. pass'.loads = {} /\ pass'.pc = "idle" /\ finishedRecv' = finishedRecv /\ conf' = conf
  BY DEF Sent, NoPass
<1>4. \A r \in Reqs : req'[r].status = req[r].status
  BY DEF Sent, Grows
<1>5. /\ \A k \in 1 .. n : RecvBy(k)' = RecvBy(k)
      /\ \A r \in Reqs : r \in RecvBy(n + 1)' <=> loads[r].st = "done"
  <2>1. \A x : x \in out.recv <=>
           \E r \in Reqs : loads[r].st = "done" /\ x = [id |-> r, valid |-> loads[r].valid]
    BY DEF Emitted
  <2>2. \A r \in Reqs : (\E x \in out.recv : x.id = r) <=> loads[r].st = "done"
    <3> TAKE r \in Reqs
    <3>1. ASSUME NEW x \in out.recv, x.id = r
          PROVE  loads[r].st = "done"
      BY <2>1, <3>1
    <3>2. ASSUME loads[r].st = "done"
          PROVE  \E x \in out.recv : x.id = r
      <4>1. PICK x : x = [id |-> r, valid |-> loads[r].valid]
        OBVIOUS
      <4>2. x \in out.recv /\ x.id = r
        BY <2>1, <3>2, <4>1
      <4> QED BY <4>2
    <3> QED BY <3>1, <3>2
  <2> QED BY <1>2, <2>2 DEF RecvBy
<1>6. \A r \in Reqs :
        /\ r \in pass.loads => loads'[r].st = "loading"
        /\ r \notin pass.loads /\ loads[r].st = "done" => loads'[r].st = "none"
        /\ r \notin pass.loads /\ loads[r].st # "done" => loads'[r].st = loads[r].st
        /\ stores'[r] = IF stores[r] = "done" THEN "none" ELSE stores[r]
        /\ r \in out.sent <=> stores[r] = "done"
  <2> TAKE r \in Reqs
  <2>1. loads'[r] = IF r \in pass.loads THEN [st |-> "loading", valid |-> 0]
                    ELSE IF loads[r].st = "done" THEN NoTransfer ELSE loads[r]
    BY DEF Emitted
  <2>2. /\ stores'[r] = IF stores[r] = "done" THEN "none" ELSE stores[r]
        /\ r \in out.sent <=> stores[r] = "done"
    BY DEF Emitted
  <2> QED BY <2>1, <2>2 DEF NoTransfer
<1>7. ASSUME NEW r \in Reqs
      PROVE  /\ r \in pass.loads => loads[r].st = "none"
             /\ r \in pass.loads \/ loads[r].st # "none" => \A k \in 1 .. n : r \notin RecvBy(k)
             /\ stores[r] # "none" => \A k \in 1 .. n : r \notin flight[k].sent
             /\ \A j, k \in 1 .. n : j # k =>
                  /\ r \notin RecvBy(j) \cap RecvBy(k)
                  /\ r \notin flight[j].sent \cap flight[k].sent
  BY <1>2 DEF BlockInv, TransferInv
<1>8. ASSUME NEW r \in Reqs
      PROVE  /\ loads'[r].st # "none" => \A k \in 1 .. n + 1 : r \notin RecvBy(k)'
             /\ stores'[r] # "none" => \A k \in 1 .. n + 1 : r \notin flight'[k].sent
             /\ \A j, k \in 1 .. n + 1 : j # k =>
                  /\ r \notin RecvBy(j)' \cap RecvBy(k)'
                  /\ r \notin flight'[j].sent \cap flight'[k].sent
  <2>1. loads'[r].st # "none" => \A k \in 1 .. n + 1 : r \notin RecvBy(k)'
    BY <1>2, <1>5, <1>6, <1>7
  <2>2. stores'[r] # "none" => \A k \in 1 .. n + 1 : r \notin flight'[k].sent
    BY <1>2, <1>6, <1>7
  <2>3. \A k \in 1 .. n : r \in RecvBy(n + 1)' => r \notin RecvBy(k)'
    BY <1>5, <1>7
  <2>4. \A k \in 1 .. n : r \in flight'[n + 1].sent => r \notin flight'[k].sent
    BY <1>2, <1>6, <1>7
  <2>5. \A j, k \in 1 .. n : j # k =>
          r \notin RecvBy(j)' \cap RecvBy(k)' /\ r \notin flight'[j].sent \cap flight'[k].sent
    BY <1>2, <1>5, <1>7
  <2>6. \A j \in 1 .. n + 1 : j = n + 1 \/ j \in 1 .. n
    BY <1>2
  <2> QED BY <2>1, <2>2, <2>3, <2>4, <2>5, <2>6
<1>9. ASSUME NEW r \in Reqs
      PROVE  (Loading(r)' <=> Loading(r)) /\ (Storing(r)' <=> Storing(r))
  <2>1. Loading(r) <=> r \in pass.loads \/ loads[r].st # "none" \/ \E k \in 1 .. n : r \in RecvBy(k)
    BY <1>2 DEF Loading
  <2>2. Loading(r)' <=> loads'[r].st # "none" \/ \E k \in 1 .. n + 1 : r \in RecvBy(k)'
    BY <1>2, <1>3 DEF Loading
  <2>3. Storing(r) <=> stores[r] # "none" \/ \E k \in 1 .. n : r \in flight[k].sent
    BY <1>2 DEF Storing
  <2>4. Storing(r)' <=> stores'[r] # "none" \/ \E k \in 1 .. n + 1 : r \in flight'[k].sent
    BY <1>2 DEF Storing
  <2>5. \A j : j \in 1 .. n + 1 <=> j = n + 1 \/ j \in 1 .. n
    BY <1>2
  <2>6. Loading(r)' <=> Loading(r)
    BY <1>5, <1>6, <2>1, <2>2, <2>5
  <2>7. Storing(r)' <=> Storing(r)
    BY <1>2, <1>6, <2>3, <2>4, <2>5
  <2> QED BY <2>6, <2>7
<1>10. ASSUME NEW r \in Reqs
       PROVE  /\ ~(Loading(r)' /\ Storing(r)')
              /\ Loading(r)' => req'[r].status \in {"remote", "finished"} /\ r \notin finishedRecv'
              /\ Storing(r)' => req'[r].status = "finished"
              /\ ~conf.connector => ~Loading(r)' /\ ~Storing(r)' /\ req'[r].status # "remote"
  BY <1>3, <1>4, <1>9, LoadingIs DEF BlockInv
<1>11. \A k \in 1 .. n + 1 : \A x, y \in flight'[k].recv : x.id = y.id => x = y
  <2>1. \A k \in 1 .. n : \A x, y \in flight'[k].recv : x.id = y.id => x = y
    BY <1>2 DEF BlockInv, TransferInv
  <2>2. \A x, y \in out.recv : x.id = y.id => x = y
    BY DEF Emitted
  <2> QED BY <1>2, <2>1, <2>2
<1>12. DOMAIN loads' = Reqs
  BY DEF Emitted
<1>13. finishedRecv' \in SUBSET {r \in Reqs : req'[r].status = "remote"}
  BY <1>3, <1>4 DEF BlockInv, TransferInv
<1>14. TransferInv'
  BY <1>2, <1>3, <1>8, <1>10, <1>11, <1>12, <1>13 DEF TransferInv
<1> QED BY <1>9, <1>14

LEMMA EmitFences ==
  ASSUME QueueInv, FullInv, pass.pc = "emit", NEW out, NEW seq, Sent(out, seq), Emitted(out)
  PROVE  /\ FenceInv' /\ pool'.deferred = pool.deferred
         /\ DeferBlockFree => \A k \in 1 .. Len(flight) : Steps(k)' = Steps(k)
<1>1. PICK n : n = Len(flight)
  OBVIOUS
<1>2. /\ n \in {0, 1} /\ DOMAIN flight = 1 .. n /\ DOMAIN flight' = 1 .. n + 1
      /\ flight'[n + 1] = out /\ \A k \in 1 .. n : flight'[k] = flight[k] /\ Len(flight') = n + 1
  BY <1>1, LongerFlight DEF Sent, FullInv, BlockInv
<1>3. out.results # <<>> <=> pass.items # <<>>
  <2>1. \E X : pass.items \in Seq(X)
    BY DEF QueueInv, PassInv
  <2>2. DOMAIN out.results = DOMAIN pass.items
    BY DEF Sent
  <2>3. PICK m \in Nat : DOMAIN pass.items = 1 .. m /\ Len(pass.items) = m
    BY <2>1
  <2>4. pass.items # <<>> <=> m # 0
    BY <2>1, <2>3
  <2>5. \E X : out.results \in Seq(X)
    BY DEF Emitted
  <2>6. out.results # <<>> <=> DOMAIN out.results # {}
    BY <2>5
  <2> QED BY <2>2, <2>3, <2>4, <2>6
<1>4. /\ \A k \in 1 .. n : Steps(k)' = Steps(k)
      /\ Steps(n + 1)' = Steps(n) + (IF out.results # <<>> THEN 1 ELSE 0)
  BY <1>2 DEF Steps
<1>5. /\ conf' = conf /\ DeferBlockFree' = DeferBlockFree
      /\ pool'.deferred = pool.deferred /\ pool'.ahead = seq
  BY DEF DeferBlockFree, Async, Sent
<1>6. ASSUME DeferBlockFree
      PROVE  seq = Steps(n + 1)'
  <2>1. pool.ahead = Steps(n)
    BY <1>1, <1>6 DEF FullInv, FenceInv
  <2>2. Steps(n) \in Int
    BY <1>2 DEF Steps
  <2> QED BY <1>3, <1>4, <1>6, <2>1, <2>2 DEF Sent
<1>7. \A k \in 1 .. n + 1 : Steps(k)' \in Nat /\ Steps(k)' <= Steps(n + 1)'
  BY <1>2 DEF Steps
<1>8. ASSUME DeferBlockFree, NEW k \in 1 .. n + 1, NEW i \in DOMAIN flight'[k].results,
             NEW r \in Reqs, r = flight'[k].results[i].id, req'[r].status # "gone"
      PROVE  req'[r].lastSeq >= Steps(k)'
  <2>1. CASE \E j \in DOMAIN pass.items : pass.items[j].id = r
    <3>1. req'[r].lastSeq = seq
      BY <2>1 DEF Sent, Grows
    <3> QED BY <1>6, <1>7, <1>8, <3>1
  <2>2. CASE \A j \in DOMAIN pass.items : pass.items[j].id # r
    <3>1. req'[r] = req[r]
      BY <2>2 DEF Sent
    <3>2. k # n + 1
      BY <1>2, <1>8, <2>2 DEF Sent
    <3>3. k \in 1 .. n
      BY <1>2, <3>2
    <3>4. req[r].lastSeq >= Steps(k)
      BY <1>2, <1>8, <3>1, <3>3 DEF FullInv, FenceInv
    <3> QED BY <1>4, <3>1, <3>3, <3>4
  <2> QED BY <2>1, <2>2
<1>9. ASSUME NEW k \in 1 .. n + 1, NEW i \in DOMAIN flight'[k].results
      PROVE  flight'[k].results[i].id \in Reqs
  <2>1. CASE k = n + 1
    BY <1>2, <2>1 DEF Sent
  <2>2. CASE k \in 1 .. n
    BY <1>2, <2>2 DEF QueueInv, FlightInv
  <2> QED BY <1>2, <2>1, <2>2
<1>10. FenceInv'
  BY <1>2, <1>5, <1>6, <1>8, <1>9 DEF FenceInv
<1> QED BY <1>1, <1>4, <1>5, <1>10
-----------------------------------------------------------------------------
(* The step goes out: the fences and the blocks it writes. *)

LEMMA WrittenIs ==
  ASSUME NEW r, NEW start, NEW n
  PROVE  Written(r, start, n) \in SUBSET ToSet(req[r].blocks)
BY DEF Written, ToSet

LEMMA EmitWrites ==
  ASSUME QueueInv, FullInv, pass.pc = "emit", NEW out, NEW seq, Sent(out, seq), Emitted(out)
  PROVE  WriteInv'
<1>1. PICK n : n = Len(flight)
  OBVIOUS
<1>2. /\ n \in {0, 1} /\ DOMAIN flight = 1 .. n /\ DOMAIN flight' = 1 .. n + 1
      /\ n < conf.concurrent /\ flight'[n + 1] = out /\ \A k \in 1 .. n : flight'[k] = flight[k]
  BY <1>1, LongerFlight DEF Sent, FullInv, BlockInv
<1>3. /\ conf' = conf /\ Async' = Async /\ pool'.deferred = pool.deferred
      /\ \A r \in Reqs : req'[r].status = req[r].status /\ req'[r].blocks = req[r].blocks
  BY DEF Async, Sent, Grows
<1>4. \A r \in Reqs : (Loading(r)' <=> Loading(r)) /\ Owned(r)' = Owned(r)
  BY <1>3, EmitTransfers DEF FullInv, Owned
<1>5. ASSUME NEW i \in DOMAIN out.results
      PROVE  /\ out.results[i].id \in Reqs /\ req[out.results[i].id].status = "running"
             /\ out.results[i].writes \in SUBSET Owned(out.results[i].id)
  <2>1. PICK x, item : x = out.results[i] /\ item = pass.items[i] /\ i \in DOMAIN pass.items
    BY DEF Emitted
  <2>2. PICK slot : Made(x, item, slot)
    BY <2>1 DEF Emitted
  <2>3. x.id = item.id /\ x.writes = Written(item.id, slot.computed, item.n)
    BY <2>2 DEF Made
  <2>4. item.id \in Reqs /\ req[item.id].status = "running"
    BY <2>1 DEF Sent
  <2>5. x.writes \in SUBSET ToSet(req[item.id].blocks)
    BY <2>3, WrittenIs
  <2> QED BY <2>1, <2>3, <2>4, <2>5 DEF Owned
<1>6. ASSUME conf.connector, Async, NEW k \in 1 .. n + 1, NEW i \in DOMAIN flight'[k].results,
             NEW b \in flight'[k].results[i].writes, NEW r \in Reqs, r = flight'[k].results[i].id
      PROVE  \/ b \in Owned(r)' /\ req'[r].status \in {"running", "finished"} /\ ~Loading(r)'
             \/ \E d \in DOMAIN pool'.deferred :
                  b \in pool'.deferred[d].blocks /\ pool'.deferred[d].fence >= Steps(k)'
  <2>1. CASE k = n + 1
    <3>1. b \in Owned(r) /\ req[r].status = "running"
      BY <1>2, <1>5, <1>6, <2>1
    <3>2. ~Loading(r)
      BY <3>1, LoadingIs DEF FullInv, BlockInv
    <3> QED BY <1>3, <1>4, <3>1, <3>2
  <2>2. CASE k \in 1 .. n
    <3>1. \/ b \in Owned(r) /\ req[r].status \in {"running", "finished"} /\ ~Loading(r)
          \/ \E d \in DOMAIN pool.deferred :
               b \in pool.deferred[d].blocks /\ pool.deferred[d].fence >= Steps(k)
      BY <1>2, <1>6, <2>2 DEF FullInv, WriteInv
    <3>2. Steps(k)' = Steps(k)
      BY <1>1, <1>6, <2>2, EmitFences DEF DeferBlockFree
    <3> QED BY <1>3, <1>4, <3>1, <3>2
  <2> QED BY <1>2, <2>1, <2>2
<1>7. ASSUME ~Async, NEW k \in 1 .. n + 1, NEW i \in DOMAIN flight'[k].results,
             NEW b \in flight'[k].results[i].writes, NEW q \in Reqs, Loading(q)'
      PROVE  b \notin Owned(q)'
  <2>1. k = n + 1
    BY <1>2, <1>7, FlightIs DEF Async, QueueInv, FullInv, BlockInv
  <2>2. PICK r \in Reqs : b \in Owned(r) /\ req[r].status = "running"
    BY <1>2, <1>5, <1>7, <2>1
  <2>3. req[q].status # "running"
    BY <1>4, <1>7, LoadingIs DEF FullInv, BlockInv
  <2>4. \A s \in Reqs : b \in ToSet(Blocks(req)[s]) => s = r
    <3>1. b \in ToSet(Blocks(req)[r])
      BY <2>2 DEF Blocks, Owned
    <3> QED BY <3>1 DEF FullInv, BlockInv, Apart
  <2>5. b \notin Owned(q)
    BY <2>2, <2>3, <2>4 DEF Blocks, Owned
  <2> QED BY <1>4, <2>5
<1>8. \A k \in 1 .. n + 1 : \A i \in DOMAIN flight'[k].results : flight'[k].results[i].id \in Reqs
  <2> TAKE k \in 1 .. n + 1
  <2>1. CASE k = n + 1
    BY <1>2, <1>5, <2>1
  <2>2. CASE k \in 1 .. n
    BY <1>2, <2>2 DEF QueueInv, FlightInv
  <2> QED BY <1>2, <2>1, <2>2
<1> QED BY <1>2, <1>3, <1>6, <1>7, <1>8 DEF WriteInv

LEMMA EmitBlocks ==
  ASSUME QueueInv, FullInv, Emit
  PROVE  FullInv'
<1>1. PICK out, seq : Emitted(out) /\ Sent(out, seq)
  BY EmittedIs, SentIs DEF FullInv
<1>2. pass.pc = "emit"
  BY DEF Emit, FinishSchedule
<1>3. NumInv' /\ ShareInv' /\ TransferInv'
  BY <1>1, <1>2, EmitNumbers, EmitShares, EmitTransfers DEF FullInv
<1>4. FenceInv' /\ WriteInv'
  BY <1>1, <1>2, EmitFences, EmitWrites
<1>5. PoolInv' /\ Apart(pool, Blocks(req))'
  <2>1. /\ Pools(pool') /\ pool'.free = pool.free /\ pool'.deferred = pool.deferred
        /\ \A r \in Reqs : req'[r].blocks = req[r].blocks
    BY <1>1 DEF Sent, Grows
  <2>2. Blocks(req') = Blocks(req)
    BY <2>1 DEF Blocks
  <2>3. Apart(pool', Blocks(req'))
    <3>1. Apart(pool, Blocks(req))
      BY DEF FullInv, BlockInv
    <3> QED BY <2>1, <2>2, <3>1 DEF Apart
  <2>4. PoolInv'
    BY <2>1 DEF PoolInv, Pools
  <2>5. Apart(pool, Blocks(req))'
    BY <2>3 DEF Apart, Blocks
  <2> QED BY <2>4, <2>5
<1> QED BY <1>3, <1>4, <1>5 DEF FullInv, BlockInv
-----------------------------------------------------------------------------
(* What a result makes of the numbers of a request. *)

LEMMA SetToSeqLists ==
  ASSUME NEW S \in SUBSET Reqs, IsFiniteSet(S), NEW q, q = SetToSeq(S)
  PROVE  Lists(q, ToSet(q)) /\ ToSet(q) \in SUBSET S
<1>1. PICK n \in Nat : n = Cardinality(S) /\ ExistsBijection(1 .. n, S)
  BY FS_CardinalityType
<1>2. \E f \in [1 .. n -> S] : IsInjective(f)
  <2>1. PICK f \in [1 .. n -> S] : \A a, b \in 1 .. n : f[a] = f[b] => a = b
    BY <1>1 DEF ExistsBijection, Bijection, Injection, IsInjective
  <2>2. IsInjective(f)
    BY <2>1 DEF IsInjective
  <2> QED BY <2>2
<1>3. q \in [1 .. n -> S] /\ IsInjective(q)
  BY <1>1, <1>2 DEF SetToSeq
<1>4. q \in Seq(Reqs) /\ ToSet(q) \in SUBSET S
  BY <1>3, SetToSeqIs
<1> QED BY <1>3, <1>4 DEF Lists

(* a is q after a result of n tokens. *)
Reckoned(a, q, n) ==
  /\ Numbers(a) /\ a.lastSeq = q.lastSeq /\ a.drop = q.drop /\ a.blocks = q.blocks
  /\ a.inFlight = q.inFlight - n
  /\ a.stale = IF q.stale > 0 THEN q.stale - n ELSE 0

LEMMA DrainedReckons ==
  ASSUME NEW q, DOMAIN q = Fields, Numbers(q), NEW n \in Int, NEW d, d = Drained(q, n)
  PROVE  Reckoned(d, q, n) /\ d.computed = q.computed /\ d.placeholders = q.placeholders
         /\ d.tokens = q.tokens
<1>1. /\ d.status = q.status /\ d.prompt = q.prompt /\ d.tokens = q.tokens
      /\ d.computed = q.computed /\ d.placeholders = q.placeholders /\ d.specs = q.specs
      /\ d.lastSeq = q.lastSeq /\ d.drop = q.drop /\ d.blocks = q.blocks
      /\ d.inFlight = q.inFlight - n
      /\ d.stale = IF q.stale > 0 THEN q.stale - n ELSE 0
  BY FieldsAre DEF Drained
<1> QED BY <1>1 DEF Reckoned, Numbers

LEMMA KeptIs ==
  ASSUME NEW q, NEW res, res.gen \in Nat
  PROVE  Kept(q, res) \in Nat /\ Kept(q, res) <= res.gen
<1>1. PICK g \in Nat : g = res.gen
  OBVIOUS
<1>2. PICK S : S = StopsAt(q, res)
  OBVIOUS
<1>3. S \in SUBSET (1 .. g)
  BY <1>1, <1>2 DEF StopsAt
<1>4. CASE S = {}
  BY <1>1, <1>2, <1>4 DEF Kept
<1>5. CASE S # {}
  <2>1. S \in SUBSET Int /\ \A x \in S : 1 <= x
    BY <1>3
  <2>2. Min(S) \in S
    BY <1>5, <2>1, MinAbove
  <2> QED BY <1>1, <1>2, <1>3, <1>5, <2>2 DEF Kept
<1> QED BY <1>4, <1>5

LEMMA DeliveredReckons ==
  ASSUME NEW q, DOMAIN q = Fields, Numbers(q), NEW res, res.n \in Int, res.gen \in Nat,
         res.specs \in Nat, NEW a, a = Delivered(q, res)
  PROVE  Reckoned(a, q, res.n)
<1>1. PICK d, n : d = Drained(q, res.n) /\ n = res.n /\ n \in Int
  OBVIOUS
<1>2. Reckoned(d, q, n)
  BY <1>1, DrainedReckons
<1>3. DOMAIN d = Fields
  BY <1>1, DrainedIs
<1>4. PICK k \in Int, j \in Int :
        /\ k = Kept(q, res)
        /\ j = IF res.specs > 0 /\ res.gen > 0 THEN res.specs - (res.gen - 1) ELSE 0
  BY KeptIs
<1>5. \E c, p, t \in Int : a = [d EXCEPT !.computed = c, !.placeholders = p, !.tokens = t]
  <2>1. PICK c, p, t :
          /\ c = IF q.stale = 0 /\ d.computed > 0 THEN d.computed - j ELSE d.computed
          /\ p = (IF q.stale = 0 /\ d.placeholders > 0 THEN d.placeholders - j
                                                       ELSE d.placeholders)
                   - (IF q.stale = 0 /\ Async THEN k ELSE 0)
          /\ t = d.tokens + k
    OBVIOUS
  <2>2. c \in Int /\ p \in Int /\ t \in Int
    <3>1. PICK x \in Int, y \in Int, z \in Int :
            x = d.computed /\ y = d.placeholders /\ z = d.tokens
      BY <1>2 DEF Reckoned, Numbers
    <3>2. c \in {x, x - j} /\ p \in {y, y - j, y - k, y - j - k} /\ t = z + k
      BY <2>1, <3>1
    <3> QED BY <3>2
  <2>3. a = [d EXCEPT !.computed = c, !.placeholders = p, !.tokens = t]
    BY <1>1, <1>4, <2>1 DEF Delivered
  <2> QED BY <2>2, <2>3
<1>6. PICK c, p, t \in Int : a = [d EXCEPT !.computed = c, !.placeholders = p, !.tokens = t]
  BY <1>5
<1>7. /\ a.computed = c /\ a.placeholders = p /\ a.tokens = t
      /\ a.prompt = d.prompt /\ a.specs = d.specs /\ a.lastSeq = d.lastSeq
      /\ a.drop = d.drop /\ a.blocks = d.blocks /\ a.inFlight = d.inFlight /\ a.stale = d.stale
  BY <1>3, <1>6, FieldsAre
<1> QED BY <1>1, <1>2, <1>7 DEF Reckoned, Numbers

LEMMA StoppedReckons ==
  ASSUME NEW r, NEW q, DOMAIN q = Fields, Numbers(q), NEW a, a = Stopped(r, q)
  PROVE  /\ Numbers(a) /\ a.lastSeq = q.lastSeq /\ a.drop = q.drop /\ a.blocks = q.blocks
         /\ a.inFlight = q.inFlight /\ a.stale = q.stale
<1>1. PICK t : t = Min({q.tokens, q.computed}) + UpdateTokens
  OBVIOUS
<1>2. t \in Int
  <2>1. q.tokens \in Int /\ q.computed \in Int /\ UpdateTokens \in Int
    BY LimitsAssumption DEF Numbers
  <2> QED BY <1>1, <2>1, MinOfTwo
<1>3. \E s, u : \/ a = [q EXCEPT !.status = s]
                \/ a = [q EXCEPT !.status = s, !.updates = u]
                \/ a = [q EXCEPT !.status = s, !.updates = u, !.tokens = t, !.prompt = t]
  <2>1. PICK rest : rest = [q EXCEPT !.updates = Tail(@)]
    OBVIOUS
  <2>2. \/ a = [q EXCEPT !.status = "finished"]
        \/ a = [q EXCEPT !.status = "stream"]
        \/ a = [rest EXCEPT !.status = "finished"]
        \/ a = AsSession(rest)
    BY <2>1 DEF Stopped
  <2>3. /\ DOMAIN rest = Fields /\ rest.tokens = q.tokens /\ rest.computed = q.computed
    BY <2>1, FieldsAre
  <2>4. AsSession(rest) = [rest EXCEPT !.status = "waiting", !.tokens = t, !.prompt = t]
    BY <1>1, <2>3 DEF AsSession
  <2>5. [rest EXCEPT !.status = "waiting", !.tokens = t, !.prompt = t]
          = [q EXCEPT !.status = "waiting", !.updates = Tail(q.updates), !.tokens = t, !.prompt = t]
    BY <2>1, FieldsAre
  <2>6. [rest EXCEPT !.status = "finished"]
          = [q EXCEPT !.status = "finished", !.updates = Tail(q.updates)]
    BY <2>1, FieldsAre
  <2>7. PICK u : u = Tail(q.updates)
    OBVIOUS
  <2>8. \/ \E s : a = [q EXCEPT !.status = s]
        \/ \E s : a = [q EXCEPT !.status = s, !.updates = u]
        \/ \E s : a = [q EXCEPT !.status = s, !.updates = u, !.tokens = t, !.prompt = t]
    BY Zenon, <2>2, <2>4, <2>5, <2>6, <2>7
  <2> QED BY Zenon, <2>8
<1>4. PICK s, u : \/ a = [q EXCEPT !.status = s]
                  \/ a = [q EXCEPT !.status = s, !.updates = u]
                  \/ a = [q EXCEPT !.status = s, !.updates = u, !.tokens = t, !.prompt = t]
  BY <1>3
<1>5. /\ a.tokens \in {q.tokens, t} /\ a.prompt \in {q.prompt, t}
      /\ a.computed = q.computed /\ a.placeholders = q.placeholders /\ a.specs = q.specs
      /\ a.lastSeq = q.lastSeq /\ a.drop = q.drop /\ a.blocks = q.blocks
      /\ a.inFlight = q.inFlight /\ a.stale = q.stale
  BY <1>4, FieldsAre
<1> QED BY <1>2, <1>5 DEF Numbers

LEMMA AfterOutputReckons ==
  ASSUME NEW r, NEW q, DOMAIN q = Fields, Numbers(q), NEW res, res.n \in Int, res.gen \in Nat,
         res.specs \in Nat, NEW a, a = AfterOutput(r, q, res)
  PROVE  /\ q.status # "gone" => Reckoned(a, q, res.n)
         /\ q.status = "gone" => a = q
         /\ Discarded(q) => a.status = q.status
<1>1. CASE q.status = "gone"
  BY <1>1 DEF AfterOutput
<1>2. CASE q.status # "gone" /\ Discarded(q)
  <2>1. a = Drained(q, res.n)
    BY <1>2 DEF AfterOutput
  <2>2. a.status = q.status
    BY <2>1, DrainedIs DEF Same
  <2> QED BY <1>2, <2>1, <2>2, DrainedReckons
<1>3. CASE q.status # "gone" /\ ~Discarded(q)
  <2>1. PICK d : d = Delivered(q, res)
    OBVIOUS
  <2>2. a = d \/ a = Stopped(r, d)
    BY <1>3, <2>1 DEF AfterOutput
  <2>3. Reckoned(d, q, res.n)
    BY <2>1, DeliveredReckons
  <2>4. DOMAIN d = Fields
    BY <2>1, DeliveredIs
  <2>5. Numbers(d)
    BY <2>3 DEF Reckoned
  <2>6. CASE a = Stopped(r, d)
    <3>1. /\ Numbers(a) /\ a.lastSeq = d.lastSeq /\ a.drop = d.drop /\ a.blocks = d.blocks
          /\ a.inFlight = d.inFlight /\ a.stale = d.stale
      BY <2>4, <2>5, <2>6, StoppedReckons
    <3> QED BY <1>3, <2>3, <3>1 DEF Reckoned
  <2> QED BY <1>3, <2>2, <2>3, <2>6
<1> QED BY <1>1, <1>2, <1>3

(* a is q with the steps counted from the one just processed, and perhaps   *)
(* with fewer computed tokens.                                              *)
Renumbered(a, q, counted) ==
  /\ Numbers(a) /\ DOMAIN a = Fields /\ a.status = q.status
  /\ a.lastSeq = IF counted THEN Max({q.lastSeq - 1, 0}) ELSE q.lastSeq
  /\ a.drop = q.drop /\ a.blocks = q.blocks /\ a.inFlight = q.inFlight /\ a.stale = q.stale
-----------------------------------------------------------------------------
(* What an output makes of requests and pool. *)

Tokens(results, r) == LET of == Items(results) IN IF r \in DOMAIN of THEN of[r].n ELSE 0
Came(recv) == {x.id : x \in recv}
CountsStep(results) == DeferBlockFree /\ results # <<>>

(* What an output has to be. *)
Applies(results, recv, sent) ==
  /\ \E Y : results \in Seq(Y)
  /\ \A i \in DOMAIN results :
       LET x == results[i]
           q == req[x.id]
       IN  /\ x.id \in Reqs /\ q.status \notin {"none", "grammar"}
           /\ q.status = "remote" => q.stale > 0 /\ q.drop
           /\ x.n \in Nat \ {0} /\ x.gen \in Nat /\ x.specs \in Nat
  /\ \A i, j \in DOMAIN results : results[i].id = results[j].id => i = j
  /\ \A x \in recv : /\ x.id \in Reqs /\ x.valid \in Int /\ x.id \notin sent
                     /\ req[x.id].status \in {"remote", "finished"}
  /\ \A r \in sent : r \in Reqs /\ req[r].status = "finished"

(* m is what it makes of r, before what is over is deleted. *)
Marks(r, m, results, recv) ==
  LET q == req[r]
      n == Tokens(results, r)
  IN  /\ Numbers(m) /\ m.drop = q.drop /\ m.blocks = q.blocks
      /\ m.lastSeq = IF CountsStep(results) THEN Max({q.lastSeq - 1, 0}) ELSE q.lastSeq
      /\ q.status # "gone" => m.inFlight = q.inFlight - n
      /\ q.status # "gone" /\ (q.stale > 0 \/ n = 0) => m.stale = q.stale - n
      /\ q.status \in Over => m.status = q.status
      /\ q.status = "remote" =>
           m.status = "remote" \/ (m.status = "finished" /\ r \in Came(recv))
      /\ \/ m.status \in {q.status, "finished"}
         \/ m.status \in {"stream", "waiting"} /\ r \in conf.sessions

Leaves(r, m, gone) ==
  LET p == req'[r]
  IN  /\ Numbers(p) /\ p.lastSeq = m.lastSeq /\ p.drop = m.drop
      /\ p.inFlight = m.inFlight /\ p.stale = m.stale
      /\ gone => m.status = "finished" /\ p.status = "gone" /\ p.blocks = <<>>
      /\ ~gone => p.status = m.status /\ p.blocks = m.blocks

Outcome(results, recv, sent, M, X, d, l) ==
  /\ X \in SUBSET Reqs
  /\ \A r \in Reqs : Marks(r, M[r], results, recv) /\ Leaves(r, M[r], r \in X)
  /\ \A r \in X : req[r].status # "finished" \/ r \in Came(recv) \/ r \in sent
  /\ Pools(d) /\ (CountsStep(results) => \E first : Drains(d, pool, first))
  /\ ~CountsStep(results) => d = pool
  /\ Pools(pool') /\ Freed(pool', d, M, X, l)
  /\ pass.pc = "idle" /\ pass' = pass /\ conf' = conf
  /\ inflightPrefills' \in SUBSET inflightPrefills
  /\ finishedRecv' = finishedRecv \cup {r \in Came(recv) : M[r].status = "remote"}

LEMMA RenumberedIs ==
  ASSUME NEW q, DOMAIN q = Fields, Numbers(q), NEW counted,
         NEW g, g = IF counted THEN [q EXCEPT !.lastSeq = Max({@ - 1, 0})] ELSE q,
         NEW v \in Int, NEW a, a = g \/ a = [g EXCEPT !.computed = v]
  PROVE  Renumbered(a, q, counted)
<1>1. PICK t : t = IF counted THEN Max({q.lastSeq - 1, 0}) ELSE q.lastSeq
  OBVIOUS
<1>2. t \in Int
  <2>1. PICK i \in Int : i = q.lastSeq
    BY DEF Numbers
  <2>2. PICK j \in Int : i = q.lastSeq /\ j = q.lastSeq - 1
    BY <2>1
  <2>3. Max({j, 0}) \in Int
    BY MaxOfTwo
  <2>4. t = IF counted THEN Max({j, 0}) ELSE i
    BY <1>1, <2>2
  <2> QED BY <2>3, <2>4
<1>3. /\ DOMAIN g = Fields /\ g.lastSeq = t /\ g.status = q.status /\ g.drop = q.drop
      /\ g.blocks = q.blocks /\ g.inFlight = q.inFlight /\ g.stale = q.stale
      /\ g.prompt = q.prompt /\ g.tokens = q.tokens /\ g.computed = q.computed
      /\ g.placeholders = q.placeholders /\ g.specs = q.specs
  BY <1>1, FieldsAre
<1>4. /\ DOMAIN a = Fields /\ a.lastSeq = t /\ a.status = q.status /\ a.drop = q.drop
      /\ a.blocks = q.blocks /\ a.inFlight = q.inFlight /\ a.stale = q.stale
      /\ a.prompt = q.prompt /\ a.tokens = q.tokens /\ a.computed \in {q.computed, v}
      /\ a.placeholders = q.placeholders /\ a.specs = q.specs
  BY <1>3, FieldsAre
<1> QED BY <1>1, <1>2, <1>4 DEF Renumbered, Numbers

(* The result of one request. *)
LEMMA MarksIs ==
  ASSUME NEW r \in Reqs, NEW results, NEW recv, NEW sent, Applies(results, recv, sent),
         Numbers(req[r]), NEW q, Renumbered(q, req[r], CountsStep(results)),
         NEW a, NEW m,
         r \notin DOMAIN Items(results) => a = q,
         r \in DOMAIN Items(results) =>
           \/ a = Drained(q, Items(results)[r].n) /\ req[r].status = "remote"
           \/ a = AfterOutput(r, q, Items(results)[r]),
         \/ m = a
         \/ /\ m = [a EXCEPT !.status = "finished"] /\ a.status \notin Over
            /\ r \in Came(recv) \/ req[r].status # "remote"
  PROVE  Marks(r, m, results, recv)
<1>1. PICK o, n : o = req[r] /\ n = Tokens(results, r)
  OBVIOUS
<1>2. /\ Numbers(q) /\ DOMAIN q = Fields /\ q.status = o.status
      /\ q.lastSeq = IF CountsStep(results) THEN Max({o.lastSeq - 1, 0}) ELSE o.lastSeq
      /\ q.drop = o.drop /\ q.blocks = o.blocks /\ q.inFlight = o.inFlight /\ q.stale = o.stale
  BY <1>1 DEF Renumbered
<1>3. /\ DOMAIN a = Fields /\ Numbers(a) /\ a.lastSeq = q.lastSeq /\ a.drop = q.drop
      /\ a.blocks = q.blocks
      /\ q.status # "gone" => a.inFlight = q.inFlight - n
      /\ q.status # "gone" /\ (q.stale > 0 \/ n = 0) => a.stale = q.stale - n
      /\ q.status \in Over \cup {"remote"} => a.status = q.status
      /\ \/ a.status \in {q.status, "finished"}
         \/ a.status \in {"stream", "waiting"} /\ r \in conf.sessions
  <2>1. CASE r \notin DOMAIN Items(results)
    <3>1. n = 0 /\ a = q
      BY <1>1, <2>1 DEF Tokens
    <3>2. q.inFlight = q.inFlight - n /\ q.stale = q.stale - n
      <4>1. PICK u \in Int, v \in Int : u = q.inFlight /\ v = q.stale
        BY <1>2 DEF Numbers
      <4> QED BY <3>1, <4>1
    <3> QED BY <1>2, <3>1, <3>2
  <2>2. CASE r \in DOMAIN Items(results)
    <3>1. PICK x : x = Items(results)[r]
      OBVIOUS
    <3>2. \E i \in DOMAIN results : x = results[i] /\ results[i].id = r
      <4>1. \E i \in DOMAIN results : results[i].id = r
        BY <2>2 DEF Items
      <4>2. \E y \in ToSet(results) : y.id = r
        BY <4>1 DEF ToSet
      <4>3. x = CHOOSE y \in ToSet(results) : y.id = r
        BY <2>2, <3>1 DEF Items
      <4>4. x \in ToSet(results) /\ x.id = r
        BY <4>2, <4>3
      <4> QED BY <4>4 DEF ToSet
    <3>3. /\ x.n \in Nat \ {0} /\ x.gen \in Nat /\ x.specs \in Nat
          /\ o.status = "remote" => o.stale > 0 /\ o.drop
      BY <1>1, <3>2 DEF Applies
    <3>4. n = x.n
      BY <1>1, <2>2, <3>1 DEF Tokens
    <3>5. CASE a = Drained(q, x.n) /\ o.status = "remote"
      <4>1. Reckoned(a, q, n)
        BY <1>2, <3>3, <3>4, <3>5, DrainedReckons
      <4>2. a.status = q.status /\ DOMAIN a = Fields
        BY <1>2, <3>5, DrainedIs DEF Same
      <4> QED BY <3>3, <3>4, <4>1, <4>2 DEF Reckoned
    <3>6. CASE a = AfterOutput(r, q, x)
      <4>1. /\ q.status # "gone" => Reckoned(a, q, n)
            /\ q.status = "gone" => a = q
            /\ Discarded(q) => a.status = q.status
        BY <1>2, <3>3, <3>4, <3>6, AfterOutputReckons
      <4>2. Turned(r, q, a)
        BY <1>2, <3>6, AfterOutputIs
      <4>3. q.status \in Over \cup {"remote"} => a.status = q.status
        BY <1>2, <3>3, <4>1 DEF Discarded
      <4>4. /\ DOMAIN a = Fields
            /\ \/ a.status \in {q.status, "finished"}
               \/ a.status \in {"stream", "waiting"} /\ r \in conf.sessions
        BY <4>2 DEF Turned, Same
      <4>5. CASE q.status = "gone"
        BY <1>2, <4>1, <4>3, <4>4, <4>5
      <4>6. CASE q.status # "gone"
        BY <3>3, <3>4, <4>1, <4>3, <4>4, <4>6 DEF Reckoned
      <4> QED BY <4>5, <4>6
    <3> QED BY <1>1, <2>2, <3>1, <3>5, <3>6
  <2> QED BY <2>1, <2>2
<1>4. CASE m = a
  BY <1>1, <1>2, <1>3, <1>4 DEF Marks
<1>5. CASE /\ m = [a EXCEPT !.status = "finished"] /\ a.status \notin Over
           /\ r \in Came(recv) \/ req[r].status # "remote"
  <2>1. /\ m.status = "finished" /\ m.lastSeq = a.lastSeq /\ m.drop = a.drop
        /\ m.blocks = a.blocks /\ m.inFlight = a.inFlight /\ m.stale = a.stale
        /\ m.prompt = a.prompt /\ m.tokens = a.tokens /\ m.computed = a.computed
        /\ m.placeholders = a.placeholders /\ m.specs = a.specs
    BY <1>3, <1>5, FieldsAre
  <2>2. Numbers(m)
    BY <1>3, <2>1 DEF Numbers
  <2>3. q.status \notin Over
    BY <1>3, <1>5
  <2> QED BY <1>1, <1>2, <1>3, <1>5, <2>1, <2>2, <2>3 DEF Marks
<1> QED BY <1>4, <1>5
-----------------------------------------------------------------------------
(* The model of the update says so. *)

LEMMA UpdateIs ==
  ASSUME QueueInv, IsFiniteSet(Reqs), \A r \in Reqs : Numbers(req[r]), PoolInv,
         NEW results, NEW recv, NEW sent, NEW send,
         Applies(results, recv, sent),
         UpdateFromOutput(results, recv, sent, send)
  PROVE  \E M, X, d, l : Outcome(results, recv, sent, M, X, d, l)
<1> DEFINE
      counted == DeferBlockFree /\ results # <<>>
      drained == IF counted THEN DrainDeferredFrees(pool) ELSE pool
      aged == [r \in Reqs |-> IF counted THEN [req[r] EXCEPT !.lastSeq = Max({@ - 1, 0})]
                              ELSE req[r]]
      failed == LoadsFailed(recv)
      loaded == AfterLoads(aged, recv)
      of == Items(results)
      after == [r \in Reqs |-> IF r \in DOMAIN of
                                THEN IF r \in failed /\ ~conf.recompute
                                       THEN Drained(loaded[r], of[r].n)
                                       ELSE AfterOutput(r, loaded[r], of[r])
                                ELSE loaded[r]]
      order == [i \in DOMAIN results |-> results[i].id]
      stopped == {r \in DOMAIN of : StopsRequest(loaded[r], of[r])}
                 \ (IF conf.recompute THEN {} ELSE failed)
      late == {r \in stopped : req[r].status # "running"}
      finished == {r \in stopped : after[r].status = "finished"}
      errors == {r \in grammarErrors \cup (IF conf.recompute THEN {} ELSE failed) :
                    after[r].status \notin Over}
      marked == [r \in Reqs |-> IF r \in errors THEN [after[r] EXCEPT !.status = "finished"]
                                ELSE after[r]]
      kept == (finished \cup errors) \cap send
      ended == {x.id : x \in recv}
      release == Within(order, finished \ kept)
                 \o SetToSeq((errors \ kept) \ failed)
                 \o SetToSeq(Received(marked, ended))
                 \o SetToSeq(sent)
<1>1. /\ pass.pc = "idle" /\ pass' = pass /\ conf' = conf
      /\ pool' = FreeRequestBlocks(drained, marked, release)
      /\ req' = UpdateDraftTokenIds(Deleted(marked, ToSet(release)),
                                    IF Async THEN {} ELSE DOMAIN of)
      /\ finishedRecv' = finishedRecv \cup {r \in ended : marked[r].status = "remote"}
      /\ inflightPrefills' = inflightPrefills \ (finished \cup errors)
  BY Zenon DEF UpdateFromOutput
<1>2. /\ DOMAIN of = {results[i].id : i \in DOMAIN results}
      /\ counted <=> CountsStep(results)
      /\ ended = Came(recv)
  BY DEF Items, CountsStep, Came
<1>3. /\ DOMAIN of \in SUBSET Reqs
      /\ \A r \in DOMAIN of : /\ req[r].status \notin {"none", "grammar"}
                              /\ req[r].status = "remote" => req[r].stale > 0 /\ req[r].drop
  BY <1>2 DEF Applies
<1>4. Lists(order, DOMAIN of)
  <2>1. PICK Y : results \in Seq(Y)
    BY DEF Applies
  <2>2. PICK n \in Nat : n = Len(results) /\ DOMAIN results = 1 .. n
    BY <2>1
  <2>3. DOMAIN order = 1 .. n /\ \A i \in 1 .. n : order[i] = results[i].id
    BY <2>2
  <2>4. order \in [1 .. n -> Reqs]
    BY <2>2 DEF Applies
  <2>5. order \in Seq(Reqs)
    BY <2>2, <2>4
  <2> HIDE DEF order, of
  <2>6. ToSet(order) = DOMAIN of
    BY <1>2, <2>2, <2>3 DEF ToSet
  <2>7. IsInjective(order)
    BY <2>2, <2>3 DEF IsInjective, Applies
  <2> QED BY <2>5, <2>6, <2>7 DEF Lists
<1>5. \A r \in Reqs : DOMAIN req[r] = Fields /\ req[r].status \in Statuses
  BY DEF QueueInv, RequestInv
<1>6. failed \in SUBSET Came(recv) /\ \A r \in failed : r \in Reqs /\ req[r].status = "remote"
  BY DEF LoadsFailed, Came, Applies
<1>7. \A r \in Reqs : Renumbered(loaded[r], req[r], CountsStep(results))
  <2> TAKE r \in Reqs
  <2>1. PICK q, g, a : q = req[r] /\ g = aged[r] /\ a = loaded[r]
    OBVIOUS
  <2>2. g = IF CountsStep(results) THEN [q EXCEPT !.lastSeq = Max({@ - 1, 0})] ELSE q
    BY <1>2, <2>1
  <2> HIDE DEF aged
  <2>3. \E v \in Int : a = g \/ a = [g EXCEPT !.computed = v]
    <3>1. CASE r \notin failed
      <4>1. a = g
        BY <2>1, <3>1 DEF AfterLoads
      <4> QED BY <4>1
    <3>2. CASE r \in failed
      <4>1. PICK v : v = (CHOOSE x \in recv : x.id = r).valid
        OBVIOUS
      <4>2. \E x \in recv : x.id = r
        BY <1>6, <3>2 DEF Came
      <4>3. v \in Int
        BY <4>1, <4>2 DEF Applies
      <4>4. a = [g EXCEPT !.computed = v]
        BY <2>1, <3>2, <4>1 DEF AfterLoads
      <4> QED BY <4>3, <4>4
    <3> QED BY <3>1, <3>2
  <2>4. PICK v \in Int : a = g \/ a = [g EXCEPT !.computed = v]
    BY <2>3
  <2>5. DOMAIN q = Fields /\ Numbers(q)
    BY <1>5, <2>1
  <2>6. Renumbered(a, q, CountsStep(results))
    BY <2>2, <2>4, <2>5, RenumberedIs
  <2> QED BY <2>1, <2>6
<1> HIDE DEF loaded, aged
<1>8. \A r \in Reqs : /\ r \notin DOMAIN of => after[r] = loaded[r]
                      /\ r \in DOMAIN of =>
                           \/ after[r] = Drained(loaded[r], of[r].n) /\ req[r].status = "remote"
                           \/ after[r] = AfterOutput(r, loaded[r], of[r])
  <2> TAKE r \in Reqs
  <2> HIDE DEF failed, of
  <2> QED BY <1>6
<1>9. DOMAIN after = Reqs
  OBVIOUS
<1> HIDE DEF after
(* A request that ends with an error waits for its grammar, or for a load.  *)
<1>10. \A r \in Reqs : /\ r \in DOMAIN of \/ after[r].status = req[r].status
                       /\ req[r].status \in Over \cup {"remote"} => after[r].status = req[r].status
  <2> TAKE r \in Reqs
  <2>1. PICK n : n = Tokens(results, r)
    OBVIOUS
  <2>2. after[r].status = req[r].status \/ r \in DOMAIN of
    BY <1>7, <1>8 DEF Renumbered
  <2>3. CASE r \in DOMAIN of /\ req[r].status \in Over \cup {"remote"}
    <3>1. PICK q, x : q = loaded[r] /\ x = of[r]
      OBVIOUS
    <3>2. DOMAIN q = Fields /\ Numbers(q) /\ q.status = req[r].status
          /\ q.stale = req[r].stale /\ q.drop = req[r].drop
      BY <1>7, <3>1 DEF Renumbered
    <3>3. Discarded(q)
      BY <1>3, <2>3, <3>2 DEF Discarded
    <3>4. \E i \in DOMAIN results : x = results[i]
      <4>1. \E y \in ToSet(results) : y.id = r
        BY <1>2, <2>3 DEF ToSet
      <4>2. x = CHOOSE y \in ToSet(results) : y.id = r
        BY <2>3, <3>1 DEF Items
      <4>3. x \in ToSet(results)
        BY <4>1, <4>2
      <4> QED BY <4>3 DEF ToSet
    <3>5. x.n \in Nat \ {0} /\ x.gen \in Nat /\ x.specs \in Nat
      BY <3>4 DEF Applies
    <3>6. AfterOutput(r, q, x).status = q.status
      BY <3>2, <3>3, <3>5, AfterOutputReckons
    <3>7. Drained(q, x.n).status = q.status
      BY <3>2, DrainedIs DEF Same
    <3> QED BY <1>8, <2>3, <3>1, <3>2, <3>6, <3>7
  <2> QED BY <2>2, <2>3
<1> HIDE DEF counted
<1>11. \A r \in errors : /\ r \in Reqs /\ after[r].status \notin Over
                         /\ r \notin failed => req[r].status = "grammar"
                         /\ r \in Came(recv) \/ req[r].status # "remote"
  <2> TAKE r \in errors
  <2>1. after[r].status \notin Over /\ (r \in grammarErrors \/ r \in failed)
    OBVIOUS
  <2>2. CASE r \in grammarErrors
    <3>1. r \in Reqs /\ (req[r].status \in Past \/ req[r].status = "grammar")
      BY <2>2 DEF QueueInv, GrammarInv
    <3>2. req[r].status \notin Past
      BY <1>10, <2>1, <3>1 DEF Past, Over
    <3> QED BY <2>1, <3>1, <3>2
  <2>3. CASE r \in failed
    BY <1>6, <2>1, <2>3
  <2> QED BY <2>1, <2>2, <2>3
<1>12. \A r \in finished : /\ r \in Reqs /\ r \in DOMAIN of /\ after[r].status = "finished"
                           /\ req[r].status \notin Over \cup {"remote", "grammar"}
  <2> TAKE r \in finished
  <2>1. r \in DOMAIN of /\ r \in Reqs /\ after[r].status = "finished" /\ ~Discarded(loaded[r])
    BY <1>3 DEF StopsRequest
  <2>2. loaded[r].status = req[r].status
    BY <1>7, <2>1 DEF Renumbered
  <2>3. req[r].status \notin Over
    BY <2>1, <2>2 DEF Discarded
  <2>4. req[r].status # "remote"
    BY <1>10, <2>1
  <2> QED BY <1>3, <2>1, <2>3, <2>4
<1> HIDE DEF failed, of, stopped
<1>13. \A r \in Reqs : \/ marked[r] = after[r]
                       \/ /\ marked[r] = [after[r] EXCEPT !.status = "finished"]
                          /\ after[r].status \notin Over
                          /\ r \in Came(recv) \/ req[r].status # "remote"
  BY <1>11
<1>14. \A r \in Reqs : Marks(r, marked[r], results, recv)
  <2> TAKE r \in Reqs
  <2>1. PICK q, a, m : q = loaded[r] /\ a = after[r] /\ m = marked[r]
    OBVIOUS
  <2> QED BY <1>7, <1>8, <1>13, <2>1, MarksIs DEF of
<1>15. \A r \in Reqs : /\ DOMAIN after[r] = Fields
                       /\ r \in errors => marked[r].status = "finished"
                       /\ r \notin errors => marked[r] = after[r]
  <2> TAKE r \in Reqs
  <2>1. PICK q, a : q = loaded[r] /\ a = after[r]
    OBVIOUS
  <2>2. DOMAIN q = Fields
    BY <1>7, <2>1 DEF Renumbered
  <2>3. DOMAIN a = Fields
    BY <1>8, <2>1, <2>2, DrainedIs, AfterOutputIs DEF Turned
  <2>4. [a EXCEPT !.status = "finished"].status = "finished"
    BY <2>3, FieldsAre
  <2> QED BY <2>1, <2>3, <2>4
<1>16. \A r \in Reqs : DOMAIN marked[r] = Fields
  BY <1>13, <1>15, FieldsAre
<1>17. DOMAIN marked = Reqs
  OBVIOUS
<1>18. PICK F, E, R : F = finished \ kept /\ E = (errors \ kept) \ failed /\ R = Received(marked, ended)
  OBVIOUS
<1>19. \A r \in F : /\ r \in Reqs /\ marked[r].status = "finished"
                    /\ req[r].status \notin Over \cup {"remote", "grammar"}
  <2> TAKE r \in F
  <2>1. r \in finished
    BY <1>18
  <2>2. r \notin errors
    BY <1>11, <1>12, <2>1 DEF Over
  <2> QED BY <1>12, <1>15, <2>1, <2>2
<1>20. \A r \in E : r \in Reqs /\ marked[r].status = "finished" /\ req[r].status = "grammar"
  <2> TAKE r \in E
  <2>1. r \in errors /\ r \notin failed
    BY <1>18
  <2> QED BY <1>11, <1>15, <2>1
<1>21. \A r \in R : /\ r \in Reqs /\ marked[r].status = "finished" /\ r \in Came(recv)
                    /\ r \notin sent /\ req[r].status \in {"remote", "finished"}
  BY <1>2, <1>18 DEF Received, Came, Applies
<1>22. \A r \in sent : r \in Reqs /\ marked[r].status = "finished" /\ req[r].status = "finished"
  <2> TAKE r \in sent
  <2>1. r \in Reqs /\ req[r].status = "finished"
    BY DEF Applies
  <2>2. req[r].status \in Over => marked[r].status = req[r].status
    BY <1>14, <2>1 DEF Marks
  <2> QED BY <2>1, <2>2 DEF Over
<1> HIDE DEF marked, errors, finished, kept, ended
<1>23. PICK a, b, c, e : /\ a = Within(order, F) /\ b = SetToSeq(E) /\ c = SetToSeq(R)
                         /\ e = SetToSeq(sent)
  OBVIOUS
<1>24. release = a \o b \o c \o e
  BY <1>18, <1>23
<1> HIDE DEF order, release
<1>25. PICK A, B, C, G : /\ Lists(a, A) /\ Lists(b, B) /\ Lists(c, C) /\ Lists(e, G)
                         /\ A \in SUBSET F /\ B \in SUBSET E /\ C \in SUBSET R /\ G \in SUBSET sent
  <2>1. \E A : Lists(a, A) /\ A \in SUBSET F
    <3>1. Lists(a, DOMAIN of \cap F)
      BY <1>4, <1>23, WithinIs
    <3>2. PICK A : A = DOMAIN of \cap F
      OBVIOUS
    <3> QED BY <3>1, <3>2
  <2>2. /\ E \in SUBSET Reqs /\ R \in SUBSET Reqs /\ sent \in SUBSET Reqs
    BY <1>20, <1>21, <1>22
  <2>3. IsFiniteSet(E) /\ IsFiniteSet(R) /\ IsFiniteSet(sent)
    BY <2>2, FS_Subset
  <2> QED BY <1>23, <2>1, <2>2, <2>3, SetToSeqLists
<1>26. PICK X : X = A \cup B \cup C \cup G
  OBVIOUS
<1>27. Lists(release, X)
  <2>1. A \cap B = {} /\ (A \cup B) \cap C = {} /\ (A \cup B \cup C) \cap G = {}
    BY <1>19, <1>20, <1>21, <1>22, <1>25 DEF Over
  <2>2. Lists(a \o b, A \cup B)
    BY <1>25, <2>1, ListConcat
  <2>3. Lists(a \o b \o c, A \cup B \cup C)
    BY <1>25, <2>1, <2>2, ListConcat
  <2> QED BY <1>24, <1>25, <1>26, <2>1, <2>3, ListConcat
<1>28. X \in SUBSET Reqs /\ ToSet(release) = X
  BY <1>19, <1>20, <1>21, <1>22, <1>25, <1>26, <1>27 DEF Lists
<1>29. \A r \in X : /\ marked[r].status = "finished"
                    /\ req[r].status # "finished" \/ r \in Came(recv) \/ r \in sent
  BY <1>19, <1>20, <1>21, <1>22, <1>25, <1>26 DEF Over
<1>30. \A r \in Reqs : Leaves(r, marked[r], r \in X)
  <2>1. PICK gone, drafted : /\ gone = Deleted(marked, X)
                             /\ drafted = IF Async THEN {} ELSE DOMAIN of
    OBVIOUS
  <2>2. req' = UpdateDraftTokenIds(gone, drafted)
    BY <1>1, <1>28, <2>1
  <2> TAKE r \in Reqs
  <2>3. PICK m, g, p : m = marked[r] /\ g = gone[r] /\ p = req'[r]
    OBVIOUS
  <2>4. g = IF r \in X THEN [m EXCEPT !.status = "gone", !.blocks = <<>>] ELSE m
    BY <2>1, <2>3 DEF Deleted
  <2>5. DOMAIN m = Fields /\ Numbers(m) /\ (r \in X => m.status = "finished")
    BY <1>14, <1>16, <1>29, <2>3 DEF Marks
  <2>6. /\ DOMAIN g = Fields
        /\ g.status = (IF r \in X THEN "gone" ELSE m.status)
        /\ g.blocks = (IF r \in X THEN <<>> ELSE m.blocks)
        /\ g.prompt = m.prompt /\ g.tokens = m.tokens /\ g.computed = m.computed
        /\ g.placeholders = m.placeholders /\ g.specs = m.specs /\ g.lastSeq = m.lastSeq
        /\ g.drop = m.drop /\ g.inFlight = m.inFlight /\ g.stale = m.stale
    BY <2>4, <2>5, FieldsAre
  <2>7. p = g \/ p = [g EXCEPT !.specs = DraftsOf(g)]
    BY <2>2, <2>3 DEF UpdateDraftTokenIds
  <2>8. DraftsOf(g) \in Int
    BY LimitsAssumption DEF DraftsOf
  <2>9. /\ p.status = g.status /\ p.blocks = g.blocks
        /\ p.prompt = g.prompt /\ p.tokens = g.tokens /\ p.computed = g.computed
        /\ p.placeholders = g.placeholders /\ p.specs \in {g.specs, DraftsOf(g)}
        /\ p.lastSeq = g.lastSeq /\ p.drop = g.drop /\ p.inFlight = g.inFlight /\ p.stale = g.stale
    BY <2>6, <2>7, FieldsAre
  <2>10. Numbers(p)
    <3>1. p.blocks \in Seq(1 .. NumBlocks)
      BY <2>5, <2>6, <2>9, NoneOf DEF Numbers
    <3> QED BY <2>5, <2>6, <2>8, <2>9, <3>1 DEF Numbers
  <2> QED BY <2>3, <2>5, <2>6, <2>9, <2>10 DEF Leaves
<1>31. PICK d : d = drained
  OBVIOUS
<1>32. /\ Pools(d) /\ (CountsStep(results) => \E first : Drains(d, pool, first))
       /\ ~CountsStep(results) => d = pool
  <2>1. d = IF CountsStep(results) THEN DrainDeferredFrees(pool) ELSE pool
    BY <1>2, <1>31
  <2>2. Pools(pool)
    BY DEF PoolInv
  <2> QED BY <2>1, <2>2, DrainIs
<1>33. Pools(pool') /\ \E l : Freed(pool', d, marked, X, l)
  <2>1. Blocks(marked) \in BlockLists
    <3>1. \A r \in Reqs : marked[r].blocks \in Seq(1 .. NumBlocks)
      BY <1>14 DEF Marks, Numbers
    <3> QED BY <3>1 DEF Blocks, BlockLists
  <2>2. pool' = FreeRequestBlocks(d, marked, release)
    BY <1>1, <1>31
  <2>3. PICK M : M = marked
    OBVIOUS
  <2>4. LET f == FreeRequestBlocks(d, M, release) IN Pools(f) /\ \E l : Freed(f, d, M, X, l)
    BY <1>27, <1>28, <1>32, <2>1, <2>3, FreedIs
  <2> QED BY <2>2, <2>3, <2>4
<1>34. PICK M, l : M = marked /\ Freed(pool', d, M, X, l)
  BY <1>33
<1>35. finishedRecv' = finishedRecv \cup {r \in Came(recv) : M[r].status = "remote"}
  BY <1>1, <1>2, <1>34
<1>36. inflightPrefills' \in SUBSET inflightPrefills
  BY <1>1
<1>37. Outcome(results, recv, sent, M, X, d, l)
  BY <1>1, <1>14, <1>28, <1>29, <1>30, <1>32, <1>33, <1>34, <1>35, <1>36 DEF Outcome
<1> QED BY <1>37
-----------------------------------------------------------------------------
(* The oldest step leaves the flight. *)

Shifted(out, n) ==
  /\ n \in {1, 2} /\ n = Len(flight) /\ DOMAIN flight = 1 .. n /\ out = flight[1]
  /\ Len(flight') = n - 1 /\ DOMAIN flight' = 1 .. n - 1
  /\ n = 2 => flight'[1] = flight[2]

(* The stores that begin: their requests end in this step. *)
Keeps(send) ==
  /\ send # {} => conf.connector
  /\ DOMAIN stores' = Reqs
  /\ \A r \in Reqs : stores'[r] = IF r \in send THEN "storing" ELSE stores[r]
  /\ \A r \in send : req[r].status # "finished" /\ req'[r].status = "finished"

LEMMA SharesAreNat ==
  ASSUME FlightInv, SentInv, NEW k, NEW r
  PROVE  Share(k, r) \in Nat
<1>1. CASE k \notin DOMAIN flight
  BY <1>1 DEF Share
<1>2. CASE k \in DOMAIN flight
  <2>1. PICK S : S = flight[k].results
    OBVIOUS
  <2>2. /\ \A i, j \in DOMAIN S : S[i].id = S[j].id => i = j
        /\ \A i \in DOMAIN S : S[i].n \in Nat
    BY <1>2, <2>1 DEF FlightInv, SentInv
  <2>3. /\ DOMAIN Items(S) = {S[i].id : i \in DOMAIN S}
        /\ \A i \in DOMAIN S : Items(S)[S[i].id] = S[i]
    BY <2>2, ItemsAre
  <2>4. Share(k, r) = IF r \in DOMAIN Items(S) THEN Items(S)[r].n ELSE 0
    BY <1>2, <2>1 DEF Share, ResultIn, NoResult
  <2> QED BY <2>2, <2>3, <2>4
<1> QED BY <1>1, <1>2

LEMMA OutputApplies ==
  ASSUME QueueInv, FullInv, Alone, 1 \in DOMAIN flight, NEW out, out = flight[1]
  PROVE  Applies(out.results, out.recv, out.sent)
<1>1. \E Y : out.results \in Seq(Y)
  BY DEF QueueInv, FlightInv
<1>2. \A i, j \in DOMAIN out.results : out.results[i].id = out.results[j].id => i = j
  BY DEF QueueInv, FlightInv
<1>3. ASSUME NEW i \in DOMAIN out.results, NEW x, x = out.results[i]
      PROVE  /\ x.id \in Reqs /\ req[x.id].status \notin {"none", "grammar"}
             /\ x.n \in Nat \ {0} /\ x.gen \in Nat /\ x.specs \in Nat
             /\ Share(1, x.id) = x.n
  <2>1. x.id \in Reqs /\ req[x.id].status \notin {"none", "grammar"}
    BY <1>3 DEF QueueInv, FlightInv
  <2>2. x.n \in Nat \ {0} /\ x.specs \in Nat /\ x.gen \in 0 .. 1 + x.specs
    BY <1>3 DEF FullInv, BlockInv, NumInv, SentInv
  <2>3. Items(out.results)[x.id] = x /\ x.id \in DOMAIN Items(out.results)
    <3>1. PICK S : S = out.results
      OBVIOUS
    <3>2. \A a, b \in DOMAIN S : S[a].id = S[b].id => a = b
      BY <1>2, <3>1
    <3>3. /\ DOMAIN Items(S) = {S[j].id : j \in DOMAIN S}
          /\ \A j \in DOMAIN S : Items(S)[S[j].id] = S[j]
      BY <3>2, ItemsAre
    <3> QED BY <1>3, <3>1, <3>3
  <2>4. Share(1, x.id) = x.n
    BY <2>3 DEF Share, ResultIn
  <2> QED BY <2>1, <2>2, <2>4
<1>4. ASSUME NEW i \in DOMAIN out.results, NEW r \in Reqs, r = out.results[i].id,
             req[r].status = "remote"
      PROVE  req[r].stale > 0 /\ req[r].drop
  <2>1. conf.connector
    BY <1>4 DEF FullInv, BlockInv, TransferInv
  <2>2. conf.sessions = {}
    BY <2>1 DEF Alone
  <2>3. PICK q : q = req[r]
    OBVIOUS
  <2>4. /\ q.stale = q.inFlight /\ q.inFlight = Share(1, r) + Share(2, r)
        /\ q.stale > 0 => q.drop
    BY <1>4, <2>2, <2>3 DEF FullInv, BlockInv, ShareInv, Past
  <2>5. Share(1, r) \in Nat \ {0}
    BY <1>3, <1>4
  <2>6. Share(2, r) \in Nat
    BY SharesAreNat DEF QueueInv, FullInv, BlockInv, NumInv
  <2>7. q.stale > 0
    BY <2>4, <2>5, <2>6
  <2> QED BY <2>3, <2>4, <2>7
<1>5. ASSUME NEW x \in out.recv
      PROVE  /\ x.id \in Reqs /\ x.valid \in Int /\ x.id \notin out.sent
             /\ req[x.id].status \in {"remote", "finished"}
  <2>1. PICK r \in Reqs : r = x.id
    BY DEF QueueInv, FlightInv
  <2>2. x.valid \in Int
    BY DEF FullInv, BlockInv, NumInv, SentInv
  <2>3. r \in RecvBy(1)
    BY <2>1 DEF RecvBy
  <2>4. Loading(r)
    BY <2>3 DEF Loading
  <2>5. ~Storing(r) /\ req[r].status \in {"remote", "finished"}
    BY <2>4, LoadingIs DEF FullInv, BlockInv
  <2>6. r \notin out.sent
    BY <2>5 DEF Storing
  <2> QED BY <2>1, <2>2, <2>5, <2>6
<1>6. \A r \in out.sent : r \in Reqs /\ req[r].status = "finished"
  <2> TAKE r \in out.sent
  <2>1. r \in Reqs
    BY DEF QueueInv, FlightInv
  <2>2. Storing(r)
    BY DEF Storing
  <2> QED BY <2>1, <2>2, LoadingIs DEF FullInv, BlockInv
<1> QED BY <1>1, <1>2, <1>3, <1>4, <1>5, <1>6 DEF Applies

Processed(out, n, send, M, X, d, l) ==
  /\ Shifted(out, n) /\ Keeps(send) /\ loads' = loads
  /\ Outcome(out.results, out.recv, out.sent, M, X, d, l)

LEMMA ProcessIs ==
  ASSUME QueueInv, FullInv, Alone, IsFiniteSet(Reqs), Process
  PROVE  \E out, n, send, M, X, d, l : Processed(out, n, send, M, X, d, l)
<1>1. PICK out : out = Head(flight)
  OBVIOUS
<1>2. PICK send :
        /\ send # {} => conf.connector
        /\ UpdateFromOutput(out.results, out.recv, out.sent, send)
        /\ \A r \in send : req[r].status # "finished" /\ req'[r].status = "finished"
        /\ stores' = Stores(send)
  BY <1>1 DEF Process
<1>3. flight # <<>> /\ flight' = Tail(flight) /\ loads' = loads
  BY DEF Process
<1>4. PICK X : flight \in Seq(X)
  BY DEF QueueInv, FlightInv
<1>5. PICK n \in {1, 2} : n = Len(flight) /\ DOMAIN flight = 1 .. n
  <2>1. Len(flight) \in 0 .. 2 /\ DOMAIN flight = 1 .. Len(flight)
    BY FlightIs DEF QueueInv, FullInv, BlockInv
  <2>2. Len(flight) # 0
    BY <1>3, <1>4
  <2> QED BY <2>1, <2>2
<1>6. Shifted(out, n)
  <2>1. out = flight[1]
    BY <1>1, <1>3, <1>4, <1>5
  <2>2. /\ flight' \in Seq(X) /\ Len(flight') = n - 1
        /\ \A k \in 1 .. n - 1 : flight'[k] = flight[k + 1]
    BY <1>3, <1>4, <1>5
  <2>3. DOMAIN flight' = 1 .. n - 1
    BY <2>2
  <2>4. n = 2 => flight'[1] = flight[2]
    BY <2>2
  <2> QED BY <1>5, <2>1, <2>2, <2>3, <2>4 DEF Shifted
<1>7. Keeps(send)
  BY <1>2 DEF Stores, Keeps
<1>8. Applies(out.results, out.recv, out.sent)
  <2>1. 1 \in DOMAIN flight /\ out = flight[1]
    BY <1>6 DEF Shifted
  <2> QED BY <2>1, OutputApplies
<1>9. \E M, Y, d, l : Outcome(out.results, out.recv, out.sent, M, Y, d, l)
  BY <1>2, <1>8, UpdateIs DEF FullInv, BlockInv, NumInv
<1> QED BY <1>3, <1>6, <1>7, <1>9 DEF Processed

LEMMA ProcessShares ==
  ASSUME QueueInv, FullInv, Alone, NEW out, NEW n, NEW send, NEW M, NEW X, NEW d, NEW l,
         Processed(out, n, send, M, X, d, l)
  PROVE  ShareInv'
<1>1. /\ n \in {1, 2} /\ n = Len(flight) /\ DOMAIN flight = 1 .. n /\ out = flight[1]
      /\ Len(flight') = n - 1 /\ DOMAIN flight' = 1 .. n - 1
      /\ n = 2 => flight'[1] = flight[2]
      /\ conf' = conf /\ pass' = pass /\ pass.pc = "idle"
  BY DEF Processed, Shifted, Outcome
<1>2. ASSUME NEW r \in Reqs
      PROVE  /\ Share(1, r) = Tokens(out.results, r)
             /\ Share(1, r)' = Share(2, r) /\ Share(2, r)' = 0
  <2>1. Share(1, r) = Tokens(out.results, r)
    BY <1>1 DEF Share, ResultIn, Tokens, NoResult
  <2>2. Share(2, r)' = 0
    BY <1>1 DEF Share
  <2>3. Share(1, r)' = Share(2, r)
    <3>1. CASE n = 1
      BY <1>1, <3>1 DEF Share
    <3>2. CASE n = 2
      BY <1>1, <3>2 DEF Share, ResultIn
    <3> QED BY <1>1, <3>1, <3>2
  <2> QED BY <2>1, <2>2, <2>3
<1>3. ASSUME NEW r \in Reqs, NEW q, NEW p, NEW m, q = req[r], p = req'[r], m = M[r]
      PROVE  /\ p.status # "gone" => p.inFlight = Share(2, r) + 0
             /\ conf.sessions = {} /\ p.status \notin {"running"} \cup Past
                   => p.stale = p.inFlight
             /\ p.status = "remote" /\ p.stale > 0 => p.drop
  <2>1. PICK k \in Nat, j \in Nat : k = Share(1, r) /\ j = Share(2, r)
    BY SharesAreNat DEF QueueInv, FullInv, BlockInv, NumInv
  <2>2. Marks(r, m, out.results, out.recv) /\ Leaves(r, m, r \in X)
    BY <1>3 DEF Processed, Outcome
  <2>3. /\ Numbers(m) /\ m.drop = q.drop
        /\ q.status # "gone" => m.inFlight = q.inFlight - k
        /\ q.status # "gone" /\ (q.stale > 0 \/ k = 0) => m.stale = q.stale - k
        /\ q.status \in Over => m.status = q.status
        /\ q.status = "remote" => m.status = "remote" \/ m.status = "finished"
        /\ \/ m.status \in {q.status, "finished"}
           \/ m.status \in {"stream", "waiting"} /\ r \in conf.sessions
    BY <1>2, <1>3, <2>1, <2>2 DEF Marks
  <2>4. /\ p.drop = m.drop /\ p.inFlight = m.inFlight /\ p.stale = m.stale
        /\ p.status = IF r \in X THEN "gone" ELSE m.status
        /\ r \in X => m.status = "finished"
    BY <1>3, <2>2 DEF Leaves
  <2>5. /\ q.status # "gone" => q.inFlight = k + j
        /\ conf.sessions = {} /\ q.status \notin {"running"} \cup Past => q.stale = q.inFlight
        /\ q.status = "remote" /\ q.stale > 0 => q.drop
    BY <1>3, <2>1 DEF FullInv, BlockInv, ShareInv
  <2>6. q.inFlight \in Int /\ q.stale \in Int
    BY <1>3 DEF FullInv, BlockInv, NumInv, Numbers
  <2>7. p.status # "gone" => p.inFlight = Share(2, r) + 0
    <3>1. p.status # "gone" => q.status # "gone"
      BY <2>3, <2>4 DEF Over
    <3> QED BY <2>1, <2>3, <2>4, <2>5, <2>6, <3>1
  <2>8. ASSUME conf.sessions = {}, p.status \notin {"running"} \cup Past
        PROVE  p.stale = p.inFlight /\ q.stale = q.inFlight /\ q.status = p.status
    <3>1. q.status = p.status
      BY <2>3, <2>4, <2>8 DEF Past
    <3>2. q.status \notin {"running"} \cup Past /\ q.status # "gone"
      BY <2>8, <3>1 DEF Past
    <3>3. q.stale = q.inFlight /\ q.inFlight = k + j
      BY <2>5, <2>8, <3>2
    <3>4. q.stale > 0 \/ k = 0
      BY <2>1, <3>3
    <3> QED BY <2>3, <2>4, <3>1, <3>2, <3>3, <3>4
  <2>9. ASSUME p.status = "remote", p.stale > 0
        PROVE  p.drop
    <3>1. q.status = "remote"
      BY <2>3, <2>4, <2>9 DEF Over
    <3>2. conf.connector
      BY <1>3, <3>1, LoadingIs DEF FullInv, BlockInv
    <3>3. conf.sessions = {}
      BY <3>2 DEF Alone
    <3>4. q.stale = q.inFlight /\ q.inFlight = k + j
      BY <2>5, <3>1, <3>3 DEF Past
    <3>5. q.stale > 0 \/ k = 0
      BY <2>1, <3>4
    <3>6. p.stale = q.stale - k
      BY <2>3, <2>4, <3>1, <3>5
    <3>7. q.stale > 0
      BY <2>1, <2>6, <2>9, <3>6
    <3> QED BY <2>3, <2>4, <2>5, <3>1, <3>7
  <2> QED BY <2>7, <2>8, <2>9
<1>4. ASSUME NEW r \in Reqs
      PROVE  /\ req'[r].status # "gone" => req'[r].inFlight = Share(1, r)' + Share(2, r)'
             /\ conf.sessions = {} /\ req'[r].status \notin {"running"} \cup Past
                   => req'[r].stale = req'[r].inFlight
             /\ req'[r].status = "remote" /\ req'[r].stale > 0 => req'[r].drop
  <2>1. PICK q, p, m : q = req[r] /\ p = req'[r] /\ m = M[r]
    OBVIOUS
  <2> QED BY <1>2, <1>3, <2>1
<1>5. /\ conf \in Confs /\ n <= conf.concurrent /\ conf.concurrent \in {1, 2}
  <2>1. conf.concurrent \in {1, 2} /\ Len(flight) <= conf.concurrent
    BY FlightIs DEF QueueInv, FullInv, BlockInv
  <2> QED BY <1>1, <2>1 DEF FullInv, BlockInv, ShareInv
<1>6. n - 1 <= conf.concurrent
  BY <1>1, <1>5
<1> QED BY <1>1, <1>4, <1>5, <1>6 DEF ShareInv

LEMMA ProcessNumbers ==
  ASSUME QueueInv, FullInv, NEW out, NEW n, NEW send, NEW M, NEW X, NEW d, NEW l,
         Processed(out, n, send, M, X, d, l)
  PROVE  NumInv'
<1>1. /\ n \in {1, 2} /\ DOMAIN flight = 1 .. n /\ DOMAIN flight' = 1 .. n - 1
      /\ n = 2 => flight'[1] = flight[2]
      /\ pass' = pass /\ loads' = loads /\ inflightPrefills' \in SUBSET inflightPrefills
  BY DEF Processed, Shifted, Outcome
<1>2. \A r \in Reqs : Numbers(req'[r])
  BY DEF Processed, Outcome, Leaves
<1>3. ItemInv'
  BY <1>1 DEF FullInv, BlockInv, NumInv, ItemInv
<1>4. SentInv'
  <2>1. \A k \in 1 .. n - 1 : n = 2 /\ k = 1
    BY <1>1
  <2>2. \A k \in DOMAIN flight' : 2 \in DOMAIN flight /\ flight'[k] = flight[2]
    BY <1>1, <2>1
  <2> QED BY <2>2 DEF FullInv, BlockInv, NumInv, SentInv
<1>5. (\A r \in Reqs : loads'[r].valid \in Int) /\ inflightPrefills' \in SUBSET Reqs
  BY <1>1 DEF FullInv, BlockInv, NumInv
<1> QED BY <1>2, <1>3, <1>4, <1>5 DEF NumInv
-----------------------------------------------------------------------------
(* The output keeps transfers in one place. *)

LEMMA ProcessTransfers ==
  ASSUME QueueInv, FullInv, Alone, NEW out, NEW n, NEW send, NEW M, NEW X, NEW d, NEW l,
         Processed(out, n, send, M, X, d, l)
  PROVE  TransferInv' /\ \A r \in Reqs : Loading(r)' => Loading(r)
<1>1. /\ n \in {1, 2} /\ DOMAIN flight = 1 .. n /\ DOMAIN flight' = 1 .. n - 1
      /\ out = flight[1]
      /\ n = 2 => flight'[1] = flight[2]
      /\ conf' = conf /\ pass' = pass /\ pass.pc = "idle" /\ loads' = loads
      /\ finishedRecv' = finishedRecv \cup {r \in Came(out.recv) : M[r].status = "remote"}
  BY DEF Processed, Shifted, Outcome
<1>2. /\ send # {} => conf.connector
      /\ DOMAIN stores' = Reqs
      /\ \A r \in Reqs : stores'[r] = IF r \in send THEN "storing" ELSE stores[r]
      /\ \A r \in send : req[r].status # "finished" /\ req'[r].status = "finished"
  BY DEF Processed, Keeps
<1>3. /\ DOMAIN loads = Reqs /\ pass.loads = {}
  BY <1>1 DEF FullInv, BlockInv, TransferInv
<1>4. \A k \in DOMAIN flight' : k = 1 /\ 2 \in DOMAIN flight /\ flight'[k] = flight[2] /\ n = 2
  <2>1. \A k \in 1 .. n - 1 : n = 2 /\ k = 1
    BY <1>1
  <2> QED BY <1>1, <2>1
<1>5. 1 \in DOMAIN flight /\ RecvBy(1) = Came(out.recv)
  BY <1>1 DEF RecvBy, Came
<1>6. ASSUME NEW r \in Reqs
      PROVE  /\ loads[r].st # "none" => \A k \in DOMAIN flight : r \notin RecvBy(k)
             /\ stores[r] # "none" => \A k \in DOMAIN flight : r \notin flight[k].sent
             /\ 2 \in DOMAIN flight => /\ r \notin RecvBy(1) \cap RecvBy(2)
                                       /\ r \notin flight[1].sent \cap flight[2].sent
             /\ ~(Loading(r) /\ Storing(r))
             /\ Loading(r) => req[r].status \in {"remote", "finished"} /\ r \notin finishedRecv
             /\ Storing(r) => req[r].status = "finished"
             /\ ~conf.connector => ~Loading(r) /\ ~Storing(r) /\ req[r].status # "remote"
             /\ r \in finishedRecv => req[r].status = "remote"
  <2>1. /\ loads[r].st # "none" => \A k \in DOMAIN flight : r \notin RecvBy(k)
        /\ stores[r] # "none" => \A k \in DOMAIN flight : r \notin flight[k].sent
    BY DEF FullInv, BlockInv, TransferInv
  <2>2. ASSUME 2 \in DOMAIN flight
        PROVE  r \notin RecvBy(1) \cap RecvBy(2) /\ r \notin flight[1].sent \cap flight[2].sent
    BY <1>5, <2>2 DEF FullInv, BlockInv, TransferInv
  <2> QED BY <2>1, <2>2, LoadingIs DEF FullInv, BlockInv
<1>7. \A r : /\ 2 \in DOMAIN flight => (r \in RecvBy(1)' <=> n = 2 /\ r \in RecvBy(2))
             /\ \A k \in DOMAIN flight' : r \in RecvBy(k)' => n = 2 /\ r \in RecvBy(2)
             /\ \A k \in DOMAIN flight' : r \in flight'[k].sent => n = 2 /\ r \in flight[2].sent
  <2>1. n = 2 => RecvBy(1)' = RecvBy(2)
    BY <1>1 DEF RecvBy
  <2>2. 2 \in DOMAIN flight => n = 2
    BY <1>1
  <2> QED BY <1>4, <2>1, <2>2
(* A load that goes on was going on, and did not come with this output.     *)
<1>8. ASSUME NEW r \in Reqs, Loading(r)'
      PROVE  Loading(r) /\ r \notin Came(out.recv)
  <2>1. loads[r].st # "none" \/ (n = 2 /\ r \in RecvBy(2))
    BY <1>1, <1>3, <1>7, <1>8 DEF Loading
  <2>2. n = 2 => 2 \in DOMAIN flight
    BY <1>1
  <2>3. Loading(r)
    BY <2>1, <2>2 DEF Loading
  <2>4. r \notin RecvBy(1)
    BY <1>5, <1>6, <2>1, <2>2
  <2> QED BY <1>5, <2>3, <2>4
<1>9. ASSUME NEW r \in Reqs, Storing(r)'
      PROVE  r \in send \/ (Storing(r) /\ r \notin out.sent)
  <2>1. stores'[r] # "none" \/ (n = 2 /\ r \in flight[2].sent)
    BY <1>7, <1>9 DEF Storing
  <2>2. n = 2 => 2 \in DOMAIN flight
    BY <1>1
  <2>3. CASE stores'[r] # "none" /\ r \notin send
    <3>1. stores[r] # "none"
      BY <1>2, <2>3
    <3>2. Storing(r)
      BY <3>1 DEF Storing
    <3> QED BY <1>1, <1>5, <1>6, <3>1, <3>2
  <2>4. CASE n = 2 /\ r \in flight[2].sent
    <3>1. Storing(r)
      BY <2>2, <2>4 DEF Storing
    <3> QED BY <1>1, <1>6, <2>2, <2>4, <3>1
  <2> QED BY <2>1, <2>3, <2>4
<1>10. ASSUME NEW r \in Reqs, NEW q, NEW p, NEW m, q = req[r], p = req'[r], m = M[r]
       PROVE  /\ q.status \in Over => m.status = q.status
              /\ q.status = "remote" =>
                   m.status = "remote" \/ (m.status = "finished" /\ r \in Came(out.recv))
              /\ m.status \in {q.status, "finished", "stream", "waiting"}
              /\ p.status = IF r \in X THEN "gone" ELSE m.status
              /\ r \in X => m.status = "finished"
              /\ r \in X => q.status # "finished" \/ r \in Came(out.recv) \/ r \in out.sent
  <2>1. /\ Marks(r, m, out.results, out.recv) /\ Leaves(r, m, r \in X)
        /\ r \in X => req[r].status # "finished" \/ r \in Came(out.recv) \/ r \in out.sent
    BY <1>10 DEF Processed, Outcome
  <2>2. /\ q.status \in Over => m.status = q.status
        /\ q.status = "remote" =>
             m.status = "remote" \/ (m.status = "finished" /\ r \in Came(out.recv))
        /\ m.status \in {q.status, "finished", "stream", "waiting"}
    BY <1>10, <2>1 DEF Marks
  <2>3. /\ p.status = IF r \in X THEN "gone" ELSE m.status
        /\ r \in X => m.status = "finished"
    BY <1>10, <2>1 DEF Leaves
  <2> QED BY <1>10, <2>1, <2>2, <2>3
<1>11. ASSUME NEW r \in Reqs
       PROVE  /\ Loading(r)' => req'[r].status = req[r].status /\ req[r].status \in {"remote", "finished"}
              /\ Loading(r)' => r \notin finishedRecv'
              /\ Storing(r)' => req'[r].status = "finished" /\ ~Loading(r)'
              /\ r \in finishedRecv' => req'[r].status = "remote"
              /\ req'[r].status = "remote" => req[r].status = "remote"
  <2>1. PICK q, p, m : q = req[r] /\ p = req'[r] /\ m = M[r]
    OBVIOUS
  <2>2. /\ q.status \in Over => m.status = q.status
        /\ q.status = "remote" =>
             m.status = "remote" \/ (m.status = "finished" /\ r \in Came(out.recv))
        /\ m.status \in {q.status, "finished", "stream", "waiting"}
        /\ p.status = IF r \in X THEN "gone" ELSE m.status
        /\ r \in X => m.status = "finished"
        /\ r \in X => q.status # "finished" \/ r \in Came(out.recv) \/ r \in out.sent
    BY <1>10, <2>1
  <2>3. ASSUME Loading(r)'
        PROVE  /\ p.status = q.status /\ q.status \in {"remote", "finished"}
               /\ r \notin finishedRecv'
    <3>1. Loading(r) /\ r \notin Came(out.recv)
      BY <1>8, <2>3
    <3>2. q.status \in {"remote", "finished"} /\ r \notin finishedRecv /\ ~Storing(r)
      BY <1>6, <2>1, <3>1
    <3>3. r \notin out.sent
      BY <1>1, <1>5, <3>2 DEF Storing
    <3>4. p.status = q.status
      BY <2>2, <3>1, <3>2, <3>3 DEF Over
    <3> QED BY <1>1, <3>1, <3>2, <3>4
  <2>4. ASSUME Storing(r)'
        PROVE  p.status = "finished" /\ ~Loading(r)'
    <3>1. CASE r \in send
      <4>1. q.status # "finished" /\ p.status = "finished"
        BY <1>2, <2>1, <3>1
      <4> QED BY <2>3, <4>1
    <3>2. CASE Storing(r) /\ r \notin out.sent
      <4>1. q.status = "finished" /\ ~Loading(r)
        BY <1>6, <2>1, <3>2
      <4>2. r \notin Came(out.recv)
        BY <1>5, <4>1 DEF Loading
      <4>3. p.status = "finished"
        BY <2>2, <3>2, <4>1, <4>2 DEF Over
      <4> QED BY <1>8, <4>1, <4>3
    <3> QED BY <1>9, <2>4, <3>1, <3>2
  <2>5. ASSUME r \in finishedRecv'
        PROVE  p.status = "remote"
    <3>1. CASE r \in finishedRecv
      <4>1. q.status = "remote" /\ ~Loading(r)
        BY <1>6, <2>1, <3>1
      <4>2. r \notin Came(out.recv)
        BY <1>5, <4>1 DEF Loading
      <4> QED BY <2>2, <4>1, <4>2
    <3>2. CASE m.status = "remote"
      BY <2>2, <3>2
    <3> QED BY <1>1, <2>1, <2>5, <3>1, <3>2
  <2>6. p.status = "remote" => q.status = "remote"
    BY <2>2
  <2> QED BY <2>1, <2>3, <2>4, <2>5, <2>6
<1>12. finishedRecv' \in SUBSET {r \in Reqs : req'[r].status = "remote"}
  <2>1. finishedRecv \in SUBSET Reqs
    BY DEF FullInv, BlockInv, TransferInv
  <2>2. Came(out.recv) \in SUBSET Reqs
    BY <1>1, <1>5 DEF QueueInv, FlightInv, Came
  <2>3. finishedRecv' \in SUBSET Reqs
    BY <1>1, <2>1, <2>2
  <2> QED BY <1>11, <2>3
<1>13. ASSUME NEW r \in Reqs
       PROVE  /\ loads'[r].st # "none" => \A k \in DOMAIN flight' : r \notin RecvBy(k)'
              /\ stores'[r] # "none" => \A k \in DOMAIN flight' : r \notin flight'[k].sent
              /\ ~conf.connector => ~Loading(r)' /\ ~Storing(r)' /\ req'[r].status # "remote"
  <2>1. n = 2 => 2 \in DOMAIN flight
    BY <1>1
  <2>2. loads'[r].st # "none" => \A k \in DOMAIN flight' : r \notin RecvBy(k)'
    BY <1>1, <1>6, <1>7, <2>1
  <2>3. ASSUME stores'[r] # "none", NEW k \in DOMAIN flight', r \in flight'[k].sent
        PROVE  FALSE
    <3>1. r \in flight[2].sent /\ 2 \in DOMAIN flight
      BY <1>7, <2>1, <2>3
    <3>2. Storing(r)
      BY <3>1 DEF Storing
    <3>3. r \notin send
      BY <1>2, <1>6, <3>2
    <3> QED BY <1>2, <1>6, <2>3, <3>1, <3>3
  <2>4. ~conf.connector => ~Loading(r)' /\ ~Storing(r)' /\ req'[r].status # "remote"
    BY <1>2, <1>6, <1>8, <1>9, <1>11
  <2> QED BY <2>2, <2>3, <2>4
<1>14. \A j, k \in DOMAIN flight' : j = k
  BY <1>4
<1>15. \A k \in DOMAIN flight' : \A x, y \in flight'[k].recv : x.id = y.id => x = y
  BY <1>4 DEF FullInv, BlockInv, TransferInv
<1>16. TransferInv'
  BY <1>1, <1>3, <1>11, <1>12, <1>13, <1>14, <1>15 DEF TransferInv
<1> QED BY <1>8, <1>16
-----------------------------------------------------------------------------
(* The output releases no block that a step in flight still writes. *)

LEMMA StepsShift ==
  ASSUME NEW out, NEW n, Shifted(out, n), NEW c, c = IF out.results # <<>> THEN 1 ELSE 0
  PROVE  /\ Steps(n - 1)' = Steps(n) - c /\ Steps(n) \in 0 .. 2 /\ Steps(n - 1)' \in 0 .. 1
         /\ n = 2 => Steps(1)' = Steps(2) - c
         /\ n = 2 /\ flight[2].results # <<>> => Steps(1)' = 1 /\ Steps(2) = 1 + c
<1>1. CASE n = 1
  <2>1. /\ DOMAIN flight = {1} /\ 2 \notin DOMAIN flight /\ 1 \in DOMAIN flight /\ n - 1 = 0
        /\ out = flight[1]
    BY <1>1 DEF Shifted
  <2>2. Steps(0)' = 0
    BY DEF Steps
  <2>3. Steps(1) = c
    BY <2>1 DEF Steps
  <2> QED BY <1>1, <2>1, <2>2, <2>3
<1>2. CASE n = 2
  <2>1. /\ 1 \in DOMAIN flight /\ 2 \in DOMAIN flight /\ n - 1 = 1
        /\ DOMAIN flight' = {1} /\ 1 \in DOMAIN flight' /\ 2 \notin DOMAIN flight'
        /\ out = flight[1] /\ flight'[1] = flight[2]
    BY <1>2 DEF Shifted
  <2>2. PICK e : e = IF flight[2].results # <<>> THEN 1 ELSE 0
    OBVIOUS
  <2>3. Steps(1)' = e
    BY <2>1, <2>2 DEF Steps
  <2>4. Steps(2) = c + e
    BY <2>1, <2>2 DEF Steps
  <2> QED BY <1>2, <2>1, <2>2, <2>3, <2>4
<1> QED BY <1>1, <1>2 DEF Shifted

LEMMA ProcessFences ==
  ASSUME QueueInv, FullInv, NEW out, NEW n, NEW send, NEW M, NEW X, NEW d, NEW l,
         Processed(out, n, send, M, X, d, l)
  PROVE  FenceInv' /\ DeferBlockFree' = DeferBlockFree
<1>1. /\ Shifted(out, n) /\ n \in {1, 2} /\ n = Len(flight) /\ DOMAIN flight = 1 .. n
      /\ out = flight[1] /\ Len(flight') = n - 1 /\ DOMAIN flight' = 1 .. n - 1
      /\ conf' = conf
  BY DEF Processed, Shifted, Outcome
<1>2. n = 2 => flight'[1] = flight[2]
  BY DEF Processed, Shifted
<1>3. DeferBlockFree' = DeferBlockFree
  BY <1>1 DEF DeferBlockFree, Async
<1>4. PICK c : c = IF out.results # <<>> THEN 1 ELSE 0
  OBVIOUS
<1>5. /\ Steps(n - 1)' = Steps(n) - c /\ Steps(n) \in 0 .. 2 /\ Steps(n - 1)' \in 0 .. 1
      /\ n = 2 => Steps(1)' = Steps(2) - c
  BY <1>1, <1>4, StepsShift
<1>6. ASSUME DeferBlockFree
      PROVE  pool'.ahead = Steps(n - 1)'
  <2>1. pool.ahead = Steps(n)
    BY <1>1, <1>6 DEF FullInv, FenceInv
  <2>2. pool'.ahead = d.ahead
    BY DEF Processed, Outcome, Freed
  <2>3. d.ahead = pool.ahead - c
    <3>1. CASE c = 1
      <4>1. CountsStep(out.results)
        BY <1>4, <1>6, <3>1 DEF CountsStep
      <4>2. PICK first : Drains(d, pool, first)
        BY <4>1 DEF Processed, Outcome
      <4> QED BY <3>1, <4>2 DEF Drains
    <3>2. CASE c = 0
      <4>1. ~CountsStep(out.results)
        BY <1>4, <3>2 DEF CountsStep
      <4>2. d = pool
        BY <4>1 DEF Processed, Outcome
      <4> QED BY <1>5, <2>1, <3>2, <4>2
    <3> QED BY <1>4, <3>1, <3>2
  <2> QED BY <1>5, <2>1, <2>2, <2>3
<1>7. ASSUME DeferBlockFree, n = 2, NEW i \in DOMAIN flight[2].results,
             NEW r \in Reqs, r = flight[2].results[i].id, req'[r].status # "gone"
      PROVE  req'[r].lastSeq >= Steps(1)'
  <2>1. PICK q, p, m : q = req[r] /\ p = req'[r] /\ m = M[r]
    OBVIOUS
  <2>2. Marks(r, m, out.results, out.recv) /\ Leaves(r, m, r \in X)
    BY <2>1 DEF Processed, Outcome
  <2>3. /\ m.lastSeq = IF CountsStep(out.results) THEN Max({q.lastSeq - 1, 0}) ELSE q.lastSeq
        /\ q.status \in Over => m.status = q.status
    BY <2>1, <2>2 DEF Marks
  <2>4. p.lastSeq = m.lastSeq /\ p.status = IF r \in X THEN "gone" ELSE m.status
    BY <2>1, <2>2 DEF Leaves
  <2>5. q.status # "gone"
    BY <1>7, <2>1, <2>3, <2>4 DEF Over
  <2>6. 2 \in DOMAIN flight
    BY <1>1, <1>7
  <2>7. q.lastSeq >= Steps(2)
    BY <1>7, <2>1, <2>5, <2>6 DEF FullInv, FenceInv
  <2>8. CountsStep(out.results) <=> c = 1
    BY <1>4, <1>7 DEF CountsStep
  <2>9. PICK x \in Int : x = q.lastSeq
    BY <2>1 DEF FullInv, BlockInv, NumInv, Numbers
  <2>10. PICK y \in Int : y = x - 1
    BY <2>9
  <2>11. Max({y, 0}) = IF y >= 0 THEN y ELSE 0
    BY <2>10, MaxOfTwo
  <2>12. p.lastSeq = IF c = 1 THEN (IF y >= 0 THEN y ELSE 0) ELSE x
    BY <2>3, <2>4, <2>8, <2>9, <2>10, <2>11
  <2>13. PICK s \in Int : s = Steps(2)
    BY <1>5, <1>7
  <2>14. p.lastSeq >= s - c
    BY <1>4, <2>7, <2>9, <2>10, <2>12, <2>13
  <2> QED BY <1>5, <1>7, <2>1, <2>13, <2>14
<1>8. \A k \in DOMAIN flight' : k = 1 /\ n = 2 /\ flight'[k] = flight[2] /\ 2 \in DOMAIN flight
  <2>1. \A k \in 1 .. n - 1 : n = 2 /\ k = 1
    BY <1>1
  <2> QED BY <1>1, <1>2, <2>1
<1>9. ASSUME DeferBlockFree, NEW k \in DOMAIN flight', NEW i \in DOMAIN flight'[k].results
      PROVE  LET q == req'[flight'[k].results[i].id] IN q.status # "gone" => q.lastSeq >= Steps(k)'
  <2>1. k = 1 /\ n = 2 /\ flight'[k] = flight[2] /\ 2 \in DOMAIN flight
    BY <1>8
  <2>2. PICK r : r = flight[2].results[i].id
    OBVIOUS
  <2>3. r \in Reqs /\ i \in DOMAIN flight[2].results
    BY <1>9, <2>1, <2>2 DEF QueueInv, FlightInv
  <2>4. req'[r].status # "gone" => req'[r].lastSeq >= Steps(1)'
    BY <1>7, <1>9, <2>1, <2>2, <2>3
  <2> QED BY <2>1, <2>2, <2>4
<1>10. FenceInv'
  BY <1>1, <1>3, <1>6, <1>9 DEF FenceInv
<1> QED BY <1>3, <1>10

LEMMA ProcessPool ==
  ASSUME QueueInv, FullInv, NEW out, NEW n, NEW send, NEW M, NEW X, NEW d, NEW l,
         Processed(out, n, send, M, X, d, l)
  PROVE  Pools(pool') /\ Apart(pool', Blocks(req'))
<1>1. /\ Pools(pool') /\ Freed(pool', d, M, X, l) /\ X \in SUBSET Reqs
      /\ CountsStep(out.results) => \E first : Drains(d, pool, first)
      /\ ~CountsStep(out.results) => d = pool
  BY DEF Processed, Outcome
<1>2. \A r \in Reqs : /\ M[r].blocks = req[r].blocks
                      /\ req'[r].blocks = IF r \in X THEN <<>> ELSE M[r].blocks
  <2> TAKE r \in Reqs
  <2>1. PICK m, p : m = M[r] /\ p = req'[r]
    OBVIOUS
  <2>2. Marks(r, m, out.results, out.recv) /\ Leaves(r, m, r \in X)
    BY <2>1 DEF Processed, Outcome
  <2> QED BY <2>1, <2>2 DEF Marks, Leaves
<1>3. Apart(d, Blocks(req))
  <2>1. Apart(pool, Blocks(req))
    BY DEF FullInv, BlockInv
  <2> QED BY <1>1, <2>1, DrainApart
<1>4. Blocks(M) = Blocks(req)
  BY <1>2 DEF Blocks
<1>5. Blocks(req') = [r \in Reqs |-> IF r \in X THEN <<>> ELSE M[r].blocks]
  BY <1>2 DEF Blocks
<1>6. PICK f, C : f = pool' /\ C = Blocks(req')
  OBVIOUS
<1>7. Apart(f, C)
  BY <1>1, <1>3, <1>4, <1>5, <1>6, GiveApart
<1> QED BY <1>1, <1>6, <1>7

LEMMA ProcessWrites ==
  ASSUME QueueInv, FullInv, Alone, SyncInv,
         NEW out, NEW n, NEW send, NEW M, NEW X, NEW d, NEW l,
         Processed(out, n, send, M, X, d, l)
  PROVE  WriteInv'
<1>1. /\ Shifted(out, n) /\ n \in {1, 2} /\ n = Len(flight) /\ DOMAIN flight = 1 .. n
      /\ out = flight[1] /\ Len(flight') = n - 1 /\ DOMAIN flight' = 1 .. n - 1
      /\ conf' = conf /\ Async' = Async
  BY DEF Processed, Shifted, Outcome, Async
<1>2. n = 2 => flight'[1] = flight[2]
  BY DEF Processed, Shifted
<1>3. \A k \in DOMAIN flight' : k = 1 /\ n = 2 /\ flight'[k] = flight[2] /\ 2 \in DOMAIN flight
  <2>1. \A k \in 1 .. n - 1 : n = 2 /\ k = 1
    BY <1>1
  <2> QED BY <1>1, <1>2, <2>1
<1>4. PICK c : c = IF out.results # <<>> THEN 1 ELSE 0
  OBVIOUS
<1>5. ASSUME conf.connector, n = 2, NEW i \in DOMAIN flight[2].results,
             NEW b \in flight[2].results[i].writes, NEW r \in Reqs,
             r = flight[2].results[i].id
      PROVE  /\ Async
             /\ \/ b \in Owned(r)' /\ req'[r].status \in {"running", "finished"} /\ ~Loading(r)'
                \/ \E e \in DOMAIN pool'.deferred :
                     b \in pool'.deferred[e].blocks /\ pool'.deferred[e].fence >= Steps(1)'
  <2>1. 2 \in DOMAIN flight /\ flight[2].results # <<>>
    BY <1>1, <1>5
  <2>2. Async /\ DeferBlockFree
    <3>1. Len(flight) <= conf.concurrent /\ conf.concurrent \in {1, 2}
      BY FlightIs DEF QueueInv, FullInv, BlockInv
    <3> QED BY <1>1, <1>5, <3>1 DEF Async, DeferBlockFree
  <2>3. Steps(1)' = 1 /\ Steps(2) = 1 + c
    BY <1>1, <1>4, <1>5, <2>1, StepsShift
  <2>4. CountsStep(out.results) <=> c = 1
    BY <1>4, <2>2 DEF CountsStep
  <2>5. PICK N \in Nat, K \in Nat :
          /\ N = Len(d.deferred) /\ K = Len(l) /\ Lists(l, Later(X, M))
          /\ DOMAIN l = 1 .. K /\ DOMAIN pool'.deferred = 1 .. N + K /\ DOMAIN d.deferred = 1 .. N
          /\ \A e \in 1 .. N : pool'.deferred[e] = d.deferred[e]
          /\ \A e \in 1 .. K : /\ pool'.deferred[N + e].fence = d.ahead
                               /\ pool'.deferred[N + e].blocks = ToSet(M[l[e]].blocks)
          /\ pool'.ahead = d.ahead
    BY DEF Processed, Outcome, Freed
  <2>6. CASE \E e \in DOMAIN pool.deferred :
               b \in pool.deferred[e].blocks /\ pool.deferred[e].fence >= Steps(2)
    <3>1. PICK e \in DOMAIN pool.deferred :
            b \in pool.deferred[e].blocks /\ pool.deferred[e].fence >= 1 + c
      BY <2>3, <2>6
    <3>2. \E j \in 1 .. N : b \in d.deferred[j].blocks /\ d.deferred[j].fence >= 1
      <4>1. CASE c = 0
        <5>1. d = pool
          BY <2>4, <4>1 DEF Processed, Outcome
        <5> QED BY <2>5, <3>1, <4>1, <5>1
      <4>2. CASE c = 1
        <5>1. PICK first : Drains(d, pool, first)
          BY <2>4, <4>2 DEF Processed, Outcome
        <5>2. PICK z \in Nat :
                /\ z = Len(pool.deferred) /\ first \in 1 .. z + 1 /\ DOMAIN pool.deferred = 1 .. z
                /\ DOMAIN d.deferred = 1 .. z + 1 - first
                /\ \A j \in 1 .. z + 1 - first :
                     /\ d.deferred[j].fence = pool.deferred[j + first - 1].fence - 1
                     /\ d.deferred[j].blocks = pool.deferred[j + first - 1].blocks
                /\ \A j \in 1 .. first - 1 : pool.deferred[j].fence <= 1
          BY <5>1 DEF Drains
        <5>3. pool.deferred[e].fence \in Int /\ pool.deferred[e].fence >= 2
          BY <3>1, <4>2 DEF FullInv, BlockInv, PoolInv, Pools
        <5>4. e \in 1 .. z /\ ~(e \in 1 .. first - 1)
          BY <5>2, <5>3
        <5>5. PICK j \in 1 .. z + 1 - first : e = j + first - 1
          <6>1. first \in 1 .. z + 1
            BY <5>2
          <6>2. PICK a \in Int, f \in Int : a = e /\ f = first
            BY <5>4, <6>1
          <6>3. a \in 1 .. z /\ f \in 1 .. z + 1 /\ ~(a \in 1 .. f - 1)
            BY <5>4, <6>1, <6>2
          <6>4. a - f + 1 \in 1 .. z + 1 - f /\ a = (a - f + 1) + f - 1
            BY <6>3
          <6> QED BY <6>2, <6>4
        <5>6. d.deferred[j].fence = pool.deferred[e].fence - 1
              /\ d.deferred[j].blocks = pool.deferred[e].blocks
          BY <5>2, <5>5
        <5>7. j \in 1 .. N
          BY <2>5, <5>2, <5>5
        <5> QED BY <3>1, <5>3, <5>6, <5>7
      <4> QED BY <1>4, <4>1, <4>2
    <3>3. PICK j \in 1 .. N : b \in d.deferred[j].blocks /\ d.deferred[j].fence >= 1
      BY <3>2
    <3>4. j \in 1 .. N + K
      BY <2>5, <3>3
    <3> QED BY <2>2, <2>3, <2>5, <3>3, <3>4
  <2>7. CASE b \in Owned(r) /\ req[r].status \in {"running", "finished"} /\ ~Loading(r)
    <3>1. PICK q, p, m : q = req[r] /\ p = req'[r] /\ m = M[r]
      OBVIOUS
    <3>2. Marks(r, m, out.results, out.recv) /\ Leaves(r, m, r \in X)
      BY <3>1 DEF Processed, Outcome
    <3>3. /\ m.blocks = q.blocks
          /\ m.lastSeq = IF CountsStep(out.results) THEN Max({q.lastSeq - 1, 0}) ELSE q.lastSeq
          /\ q.status \in Over => m.status = q.status
          /\ \/ m.status \in {q.status, "finished"}
             \/ r \in conf.sessions
      BY <3>1, <3>2 DEF Marks
    <3>4. /\ r \notin X => p.status = m.status /\ p.blocks = m.blocks
      BY <3>1, <3>2 DEF Leaves
    <3>5. conf.sessions = {}
      BY <1>5 DEF Alone
    <3>6. CASE r \notin X
      <4>1. ~Loading(r)'
        BY <2>7, ProcessTransfers
      <4>2. p.status \in {"running", "finished"} /\ p.blocks = q.blocks
        BY <2>7, <3>1, <3>3, <3>4, <3>5, <3>6
      <4> QED BY <2>2, <2>7, <3>1, <4>1, <4>2 DEF Owned
    <3>7. CASE r \in X
      <4>1. q.lastSeq >= Steps(2)
        BY <1>5, <2>1, <2>2, <2>7, <3>1 DEF FullInv, FenceInv
      <4>2. PICK x \in Int : x = q.lastSeq
        BY <3>1 DEF FullInv, BlockInv, NumInv, Numbers
      <4>3. PICK y \in Int : y = x - 1
        BY <4>2
      <4>4. Max({y, 0}) = IF y >= 0 THEN y ELSE 0
        BY <4>3, MaxOfTwo
      <4>5. m.lastSeq = IF c = 1 THEN (IF y >= 0 THEN y ELSE 0) ELSE x
        BY <2>4, <3>3, <4>2, <4>3, <4>4
      <4>6. x >= 1 + c
        BY <2>3, <4>1, <4>2
      <4>7. m.lastSeq > 0
        BY <1>4, <4>3, <4>5, <4>6
      <4>8. b \in ToSet(m.blocks)
        BY <2>7, <3>1, <3>3 DEF Owned
      <4>9. m.blocks # <<>>
        BY <4>8, NoneOf
      <4>10. r \in Later(X, M)
        BY <2>2, <3>1, <3>7, <4>7, <4>9 DEF Later, Fenced
      <4>11. PICK e \in 1 .. K : l[e] = r
        BY <2>5, <4>10 DEF Lists, ToSet
      <4>12. N + e \in 1 .. N + K
        BY <2>5, <4>11
      <4>13. pool'.ahead = Steps(n - 1)'
        BY <1>1, <2>2, ProcessFences DEF FenceInv
      <4>14. pool'.ahead = 1
        BY <1>5, <2>3, <4>13
      <4>15. N + e \in DOMAIN pool'.deferred
        BY <2>5, <4>12
      <4>16. pool'.deferred[N + e].fence = d.ahead /\ d.ahead = pool'.ahead
        BY <2>5, <4>11
      <4>17. pool'.deferred[N + e].blocks = ToSet(m.blocks)
        BY <2>5, <3>1, <4>11
      <4>18. pool'.deferred[N + e].fence >= Steps(1)'
        BY <2>3, <4>14, <4>16
      <4>19. b \in pool'.deferred[N + e].blocks
        BY <4>8, <4>17
      <4> QED BY <2>2, <4>15, <4>18, <4>19
    <3> QED BY <3>6, <3>7
  <2>8. \/ b \in Owned(r) /\ req[r].status \in {"running", "finished"} /\ ~Loading(r)
        \/ \E e \in DOMAIN pool.deferred :
             b \in pool.deferred[e].blocks /\ pool.deferred[e].fence >= Steps(2)
    BY <1>5, <2>1, <2>2 DEF FullInv, WriteInv
  <2> QED BY <2>6, <2>7, <2>8
<1>6. \A i \in DOMAIN flight[2].results : n = 2 => flight[2].results[i].id \in Reqs
  BY <1>1 DEF QueueInv, FlightInv
<1>7. ASSUME conf.connector, NEW k \in DOMAIN flight', NEW i \in DOMAIN flight'[k].results,
             NEW b \in flight'[k].results[i].writes, NEW r, r = flight'[k].results[i].id
      PROVE  /\ Async
             /\ \/ b \in Owned(r)' /\ req'[r].status \in {"running", "finished"} /\ ~Loading(r)'
                \/ \E e \in DOMAIN pool'.deferred :
                     b \in pool'.deferred[e].blocks /\ pool'.deferred[e].fence >= Steps(k)'
  <2>1. k = 1 /\ n = 2 /\ flight'[k] = flight[2]
    BY <1>3
  <2>2. r \in Reqs
    BY <1>6, <1>7, <2>1
  <2> QED BY <1>5, <1>7, <2>1, <2>2
<1> QED BY <1>1, <1>7 DEF WriteInv

LEMMA ProcessBlocks ==
  ASSUME QueueInv, FullInv, Alone, SyncInv, IsFiniteSet(Reqs), Process
  PROVE  FullInv'
<1>1. PICK out, n, send, M, X, d, l : Processed(out, n, send, M, X, d, l)
  BY ProcessIs
<1>2. NumInv' /\ ShareInv' /\ TransferInv'
  BY <1>1, ProcessNumbers, ProcessShares, ProcessTransfers
<1>3. FenceInv' /\ WriteInv'
  BY <1>1, ProcessFences, ProcessWrites
<1>4. PoolInv' /\ Apart(pool, Blocks(req))'
  <2>1. Pools(pool') /\ Apart(pool', Blocks(req'))
    BY <1>1, ProcessPool
  <2>2. PoolInv'
    BY <2>1 DEF PoolInv, Pools
  <2>3. Apart(pool, Blocks(req))'
    BY <2>1 DEF Apart, Blocks
  <2> QED BY <2>2, <2>3
<1> QED BY <1>2, <1>3, <1>4 DEF FullInv, BlockInv
-----------------------------------------------------------------------------
(* The invariant holds at the start and every step keeps it. *)

LEMMA InitFull == SessionsAlone /\ EngineInit => FullInv
<1> SUFFICES ASSUME SessionsAlone, EngineInit PROVE FullInv
  OBVIOUS
<1>1. /\ conf \in Confs /\ req = [r \in Reqs |-> NewRequest(r)] /\ flight = <<>>
      /\ loads = [r \in Reqs |-> NoTransfer] /\ stores = [r \in Reqs |-> "none"]
      /\ pool = [free |-> 1 .. NumBlocks, deferred |-> <<>>, ahead |-> 0]
      /\ pass = NoPass /\ finishedRecv = {} /\ inflightPrefills = {}
  BY DEF EngineInit, Init
<1>2. conf.concurrent \in 1 .. 2 /\ Len(flight) = 0 /\ DOMAIN flight = {}
  <2>1. conf.concurrent \in 1 .. 2
    BY <1>1, ConfsAssumption
  <2> QED BY <1>1, <2>1
<1>3. pass.pc = "idle" /\ pass.items = <<>> /\ pass.loads = {} /\ pass.budget = 0
  BY <1>1 DEF NoPass
<1>4. \A r \in Reqs : loads[r].st = "none" /\ loads[r].valid = 0 /\ stores[r] = "none"
  BY <1>1 DEF NoTransfer
<1>5. \A r \in Reqs :
        LET q == req[r] IN
        /\ q.status = "none" /\ q.blocks = <<>> /\ q.prompt = Prompt[r] /\ q.tokens = Prompt[r]
        /\ q.computed = 0 /\ q.inFlight = 0 /\ q.stale = 0 /\ q.drop = FALSE
        /\ q.placeholders = 0 /\ q.specs = 0 /\ q.lastSeq = 0
  BY <1>1 DEF NewRequest
<1>6. NumInv
  <2>1. ASSUME NEW r \in Reqs PROVE Numbers(req[r])
    <3>1. Prompt[r] \in Int
      BY LimitsAssumption
    <3>2. PICK q : q = req[r]
      OBVIOUS
    <3>3. /\ q.blocks = <<>> /\ q.prompt \in Int /\ q.tokens \in Int
          /\ q.computed = 0 /\ q.inFlight = 0 /\ q.stale = 0
          /\ q.placeholders = 0 /\ q.specs = 0 /\ q.lastSeq = 0
      BY <1>5, <3>1, <3>2
    <3>4. q.blocks \in Seq(1 .. NumBlocks)
      BY <3>3
    <3> QED BY <3>2, <3>3, <3>4 DEF Numbers
  <2>2. ItemInv /\ SentInv
    BY <1>2, <1>3 DEF ItemInv, SentInv
  <2> QED BY <1>1, <1>4, <2>1, <2>2 DEF NumInv
<1>7. ShareInv
  <2>1. \A r \in Reqs : Share(1, r) = 0 /\ Share(2, r) = 0
    BY <1>2 DEF Share
  <2> QED BY <1>1, <1>2, <1>3, <1>5, <2>1 DEF ShareInv
<1>8. \A r \in Reqs : ~Loading(r) /\ ~Storing(r)
  BY <1>2, <1>3, <1>4 DEF Loading, Storing
<1>9. TransferInv
  <2>1. DOMAIN loads = Reqs /\ pass.loads \in SUBSET Reqs /\ finishedRecv = {}
    BY <1>1, <1>3
  <2> QED BY <1>2, <1>3, <1>4, <1>5, <1>8, <2>1 DEF TransferInv
<1>10. pool.free = 1 .. NumBlocks /\ DOMAIN pool.deferred = {} /\ pool.ahead = 0
       /\ DOMAIN pool = {"free", "deferred", "ahead"} /\ pool.deferred \in Seq(Int)
  BY <1>1
<1>11. PoolInv
  BY <1>10 DEF PoolInv, Pools
<1>12. Apart(pool, Blocks(req))
  <2>1. \A r \in Reqs : Blocks(req)[r] = <<>> /\ ToSet(Blocks(req)[r]) = {}
    BY <1>5, NoneOf DEF Blocks
  <2>2. \A r \in Reqs : IsInjective(Blocks(req)[r])
    BY <2>1 DEF IsInjective
  <2> QED BY <1>10, <2>1, <2>2 DEF Apart
<1>13. FenceInv /\ WriteInv
  BY <1>2, <1>10 DEF FenceInv, WriteInv, Steps
<1> QED BY <1>6, <1>7, <1>9, <1>11, <1>12, <1>13 DEF FullInv, BlockInv

LEMMA FullKept == QueueInv /\ SlotInv /\ FullInv /\ [Next]_vars => FullInv'
<1> SUFFICES ASSUME QueueInv, SlotInv, FullInv, [Next]_vars PROVE FullInv'
  OBVIOUS
<1>1. IsFiniteSet(Reqs) /\ Alone /\ SyncInv
  BY ReqsAssumption DEF SlotInv
<1>2. CASE Schedule
  BY <1>1, <1>2, ScheduleBlocks
<1>3. CASE Pass
  <2>1. UNCHANGED <<runnerVars, left>> /\ SchedulePass
    BY <1>3 DEF Pass
  <2>2. CASE ScheduleRunning \/ PreemptLast \/ Promote \/ Admit
    BY <1>1, <2>1, <2>2, PassBlocks
  <2>3. CASE \/ PassOverRunning \/ RunningDone \/ StopAdmitting \/ SkipWaiting
             \/ \E n \in 1 .. MaxModelLen : RefuseLoad(n)
    BY <1>1, <2>1, <2>3, LookBlocks
  <2>4. CASE \E n \in 1 .. MaxModelLen : StartLoad(n)
    <3>1. PICK n \in 1 .. MaxModelLen : StartLoad(n)
      BY <2>4
    <3>2. n \in Nat
      BY LimitsAssumption
    <3> QED BY <1>1, <2>1, <3>1, <3>2, StartLoadBlocks
  <2> QED BY <2>1, <2>2, <2>3, <2>4 DEF SchedulePass
<1>4. CASE Emit
  BY <1>4, EmitBlocks
<1>5. CASE Process
  BY <1>1, <1>5, ProcessBlocks
<1>6. CASE Environment
  <2>1. CASE Reset
    BY <1>1, <2>1, CallBlocks
  <2>2. CASE Pause \/ Resume
    <3>1. UNCHANGED <<conf, req, pool, flight, finishedRecv, inflightPrefills, pass, loads, stores>>
      BY <2>2 DEF Pause, Resume, SetPauseState, kv, runnerVars
    <3> QED BY <1>1, <3>1, QuietBlocks
  <2>3. CASE \E r \in Reqs : LoadDone(r) \/ StoreDone(r)
    BY <1>1, <2>3, OutsideBlocks
  <2>4. CASE \E r \in Reqs : Arrive(r) \/ Compile(r) \/ NextInput(r)
    BY <1>1, <2>4, CallBlocks
  <2>5. CASE \E r \in Reqs : \E send \in BOOLEAN : Abort(r, send)
    BY <1>1, <2>5, AbortBlocks
  <2> QED BY <1>6, <2>1, <2>2, <2>3, <2>4, <2>5 DEF Environment
<1>7. CASE UNCHANGED vars
  <2>1. UNCHANGED <<conf, req, finishedRecv, inflightPrefills, pool, pass, flight, loads, stores>>
    BY <1>7 DEF vars, schedVars, kv, runnerVars
  <2> QED BY <1>1, <2>1, QuietBlocks
<1> QED BY <1>2, <1>3, <1>4, <1>5, <1>6, <1>7 DEF Next, Loop

(* No block a step in flight writes belongs to a request that is loading. *)
LEMMA WritesApart ==
  ASSUME FullInv, NEW r \in Reqs, loads[r].st = "loading", NEW k \in DOMAIN flight,
         NEW j \in DOMAIN flight[k].results, NEW b \in flight[k].results[j].writes,
         flight[k].results[j].id \in Reqs
  PROVE  b \notin Owned(r)
<1>1. Loading(r) /\ loads[r].st # "none"
  BY DEF Loading
<1>2. conf.connector
  BY <1>1, LoadingIs DEF FullInv, BlockInv
<1>3. PICK x : x = flight[k].results[j].id
  OBVIOUS
<1>4. CASE ~Async
  BY <1>1, <1>2, <1>4 DEF FullInv, WriteInv
<1>5. CASE Async
  <2>1. \/ b \in Owned(x) /\ req[x].status \in {"running", "finished"} /\ ~Loading(x)
        \/ \E d \in DOMAIN pool.deferred : b \in pool.deferred[d].blocks
    BY <1>2, <1>3, <1>5 DEF FullInv, WriteInv
  <2>2. CASE \E d \in DOMAIN pool.deferred : b \in pool.deferred[d].blocks
    BY <2>2 DEF FullInv, BlockInv, Apart, Blocks, Owned
  <2>3. CASE b \in Owned(x) /\ ~Loading(x)
    <3>1. x # r /\ x \in Reqs
      BY <1>1, <1>3, <2>3
    <3>2. b \in ToSet(Blocks(req)[x]) /\ Owned(r) = ToSet(Blocks(req)[r])
      BY <2>3, <3>1 DEF Blocks, Owned
    <3> QED BY <3>1, <3>2 DEF FullInv, BlockInv, Apart
  <2> QED BY <2>1, <2>2, <2>3
<1> QED BY <1>4, <1>5

LEMMA FullProtects == QueueInv /\ FullInv => BlocksPartitioned /\ LoadsUndisturbed
<1> SUFFICES ASSUME QueueInv, FullInv PROVE BlocksPartitioned /\ LoadsUndisturbed
  OBVIOUS
<1>1. \A r \in Reqs : req[r].blocks \in Seq(1 .. NumBlocks)
  BY DEF FullInv, BlockInv, NumInv, Numbers
<1>2. BlocksPartitioned
  BY <1>1, ApartIsPartition DEF FullInv, BlockInv
<1>3. ASSUME NEW r \in Reqs, loads[r].st = "loading", NEW k \in DOMAIN flight,
             NEW j \in DOMAIN flight[k].results
      PROVE  flight[k].results[j].writes \cap ToSet(req[r].blocks) = {}
  <2>1. flight[k].results[j].id \in Reqs
    BY DEF QueueInv, FlightInv
  <2> QED BY <1>3, <2>1, WritesApart DEF Owned
<1> QED BY <1>2, <1>3 DEF LoadsUndisturbed

LEMMA AllKept == QueueInv /\ SlotInv /\ FullInv /\ [Next]_vars => (QueueInv /\ SlotInv /\ FullInv)'
BY QueuesKept, SlotsKept, FullKept

(* Every KV block is free, owned by one request or deferred, and only once  *)
(* in all, for any requests, limits and number of blocks, whatever is       *)
(* preempted, aborted, loaded, stored or reset meanwhile.                   *)
THEOREM BlocksPartitionedCorrect ==
  ASSUME SessionsAlone
  PROVE  Spec => []BlocksPartitioned
<1>1. EngineInit => QueueInv /\ SlotInv /\ FullInv
  BY InitQueues, InitSlots, InitFull
<1>2. QueueInv /\ SlotInv /\ FullInv /\ [Next]_vars => (QueueInv /\ SlotInv /\ FullInv)'
  BY AllKept
<1>3. QueueInv /\ SlotInv /\ FullInv => BlocksPartitioned
  BY FullProtects
<1> QED BY <1>1, <1>2, <1>3, PTL DEF Spec

(* No step in flight writes a block that a background load fills, for any   *)
(* requests and limits: the deferred free holds the blocks of a request     *)
(* that lost them back until the steps that write them are over.            *)
THEOREM LoadsUndisturbedCorrect ==
  ASSUME SessionsAlone
  PROVE  Spec => []LoadsUndisturbed
<1>1. EngineInit => QueueInv /\ SlotInv /\ FullInv
  BY InitQueues, InitSlots, InitFull
<1>2. QueueInv /\ SlotInv /\ FullInv /\ [Next]_vars => (QueueInv /\ SlotInv /\ FullInv)'
  BY AllKept
<1>3. QueueInv /\ SlotInv /\ FullInv => LoadsUndisturbed
  BY FullProtects
<1> QED BY <1>1, <1>2, <1>3, PTL DEF Spec

=============================================================================
