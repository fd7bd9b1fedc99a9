-------------------------- MODULE HybridLruProofs --------------------------
(***************************************************************************)
(* HybridLru for every rank, ranking, cache size, batch limit and set of   *)
(* tensors: the state is well typed, and as long as the int32 clock stays  *)
(* below the sentinel the maps, the slots and the rows stay coherent.      *)
(***************************************************************************)
EXTENDS HybridLruRecency, FiniteSetTheorems, WellFoundedInduction, TLAPS

-----------------------------------------------------------------------------
(* Numbering integers from below. *)

LEMMA CardInterval ==
  ASSUME NEW n \in Nat
  PROVE  IsFiniteSet(0 .. n - 1) /\ Cardinality(0 .. n - 1) = n
<1>1. 0 \in Int /\ n - 1 \in Int
  OBVIOUS
<1>2. /\ IsFiniteSet(0 .. n - 1)
      /\ Cardinality(0 .. n - 1) = IF 0 > n - 1 THEN 0 ELSE (n - 1) - 0 + 1
  BY <1>1, FS_Interval
<1> QED BY <1>2

(* Numbering the members of a finite set of integers from below.           *)
Below(S) == [x \in S |-> Cardinality({y \in S : y < x})]

LEMMA BelowIsBijection ==
  ASSUME NEW S \in SUBSET Int, IsFiniteSet(S)
  PROVE  Below(S) \in Bijection(S, 0 .. Cardinality(S) - 1)
<1> DEFINE T == 0 .. Cardinality(S) - 1
           B(x) == {y \in S : y < x}
<1>1. Cardinality(S) \in Nat
  BY FS_CardinalityType
<1>2. ASSUME NEW x \in S
      PROVE  IsFiniteSet(B(x)) /\ Cardinality(B(x)) \in T
  <2>1. /\ IsFiniteSet(B(x))
        /\ Cardinality(B(x)) <= Cardinality(S)
        /\ Cardinality(S) = Cardinality(B(x)) => S = B(x)
    BY FS_Subset, B(x) \in SUBSET S
  <2>2. x \notin B(x)
    OBVIOUS
  <2>3. Cardinality(B(x)) \in Nat
    BY <2>1, FS_CardinalityType
  <2> QED BY <1>1, <2>1, <2>2, <2>3
<1>3. ASSUME NEW x \in S, NEW z \in S, x < z
      PROVE  Cardinality(B(x)) # Cardinality(B(z))
  <2>1. B(x) \in SUBSET B(z)
    <3>1. \A y \in S : y < x => y < z
      BY <1>3
    <3> QED BY <3>1
  <2>2. x \in B(z) /\ x \notin B(x)
    BY <1>3
  <2> QED BY <1>2, <2>1, <2>2, FS_Subset
<1>4. Below(S) \in [S -> T]
  BY <1>2 DEF Below
<1>5. \A x, z \in S : Below(S)[x] = Below(S)[z] => x = z
  <2> SUFFICES ASSUME NEW x \in S, NEW z \in S, x # z
               PROVE  Below(S)[x] # Below(S)[z]
    OBVIOUS
  <2>1. x < z \/ z < x
    OBVIOUS
  <2> QED BY <1>3, <2>1 DEF Below
<1>6. Below(S) \in Injection(S, T)
  BY <1>4, <1>5 DEF Injection, IsInjective
<1>7. IsFiniteSet(T) /\ Cardinality(T) = Cardinality(S)
  BY <1>1, FS_Interval
<1> QED BY <1>6, <1>7, FS_Injection DEF Bijection

-----------------------------------------------------------------------------
(* The layout. *)

LEMMA KeptType ==
  ASSUME NEW ranking \in Seq(Int)
  PROVE  /\ Kept(ranking) \in SUBSET Int
         /\ IsFiniteSet(Kept(ranking))
         /\ \A p \in Kept(ranking) :
              p \in DOMAIN ranking /\ IsLocal(ranking[p])
         /\ \A p, q \in Kept(ranking) :
              OrigMap[ranking[p]] = OrigMap[ranking[q]] => p = q
<1>1. Len(ranking) \in Nat /\ DOMAIN ranking = 1 .. Len(ranking)
  OBVIOUS
<1>2. IsFiniteSet(1 .. Len(ranking))
  BY <1>1, FS_Interval
<1>3. Kept(ranking) \in SUBSET (1 .. Len(ranking))
  BY DEF Kept
<1>4. ASSUME NEW p \in Kept(ranking), NEW q \in Kept(ranking), p < q
      PROVE  OrigMap[ranking[p]] # OrigMap[ranking[q]]
  <2>1. p \in 1 .. q - 1
    BY <1>1, <1>3, <1>4
  <2> QED BY <2>1 DEF Kept
<1>5. \A p, q \in Kept(ranking) :
        OrigMap[ranking[p]] = OrigMap[ranking[q]] => p = q
  <2> SUFFICES ASSUME NEW p \in Kept(ranking), NEW q \in Kept(ranking), p # q
               PROVE  OrigMap[ranking[p]] # OrigMap[ranking[q]]
    OBVIOUS
  <2>1. p < q \/ q < p
    BY <1>1, <1>3
  <2> QED BY <1>4, <2>1
<1> QED BY <1>1, <1>2, <1>3, <1>5, FS_Subset DEF Kept

(* The ranks of the hot positions are the slots, each exactly once.        *)
LEMMA HotSlots ==
  ASSUME NEW ranking \in Seq(Int)
  PROVE  /\ IsFiniteSet(HotPositions(ranking))
         /\ HotCount(ranking) \in 0 .. CacheSize
         /\ [p \in HotPositions(ranking) |-> Rank(ranking, p)]
              \in Bijection(HotPositions(ranking), 0 .. HotCount(ranking) - 1)
<1> DEFINE K == Kept(ranking)
           Hot == HotPositions(ranking)
           rank == [p \in Hot |-> Rank(ranking, p)]
<1>1. Hot \in SUBSET K /\ K \in SUBSET Int /\ IsFiniteSet(K)
  BY KeptType DEF HotPositions
<1>2. IsFiniteSet(Hot) /\ Hot \in SUBSET Int
  BY <1>1, FS_Subset
<1>3. Below(K) \in Bijection(K, 0 .. Cardinality(K) - 1)
  BY <1>1, BelowIsBijection
<1>4. \A p \in K : Rank(ranking, p) = Below(K)[p] /\ Rank(ranking, p) \in Nat
  <2>1. \A p \in K : Rank(ranking, p) = Below(K)[p]
    BY DEF Rank, Below
  <2>2. Below(K) \in [K -> 0 .. Cardinality(K) - 1]
    BY <1>3 DEF Bijection, Injection
  <2> QED BY <2>1, <2>2, <1>1, FS_CardinalityType
<1>5. ASSUME NEW p \in Hot
      PROVE  {q \in K : q < p} = {q \in Hot : q < p}
  <2> SUFFICES ASSUME NEW q \in K, q < p
               PROVE  Rank(ranking, q) < CacheSize
    BY DEF HotPositions
  <2> DEFINE Bq == {y \in K : y < q}
             Bp == {y \in K : y < p}
  <2>1. Bq \in SUBSET Bp /\ Bp \in SUBSET K
    BY <1>1, <1>2
  <2>2. IsFiniteSet(Bp) /\ IsFiniteSet(Bq) /\ Cardinality(Bq) <= Cardinality(Bp)
    BY <1>1, <2>1, FS_Subset
  <2>3. Rank(ranking, q) = Cardinality(Bq) /\ Rank(ranking, p) = Cardinality(Bp)
    BY DEF Rank
  <2>4. Rank(ranking, p) < CacheSize
    BY DEF HotPositions
  <2>5. Cardinality(Bq) \in Nat /\ Cardinality(Bp) \in Nat
    BY <2>2, FS_CardinalityType
  <2> QED BY <2>2, <2>3, <2>4, <2>5, LayoutAssumption
<1>6. rank = Below(Hot)
  BY <1>5 DEF Rank, Below
<1>7. rank \in Bijection(Hot, 0 .. HotCount(ranking) - 1)
  BY <1>2, <1>6, BelowIsBijection DEF HotCount
<1>8. HotCount(ranking) \in Nat /\ HotCount(ranking) <= CacheSize
  <2>1. rank \in [Hot -> 0 .. CacheSize - 1]
    BY <1>1, <1>4, LayoutAssumption DEF HotPositions
  <2>2. \A p, q \in Hot : rank[p] = rank[q] => p = q
    BY <1>7 DEF Bijection, Injection, IsInjective
  <2>3. rank \in Injection(Hot, 0 .. CacheSize - 1)
    BY <2>1, <2>2 DEF Injection, IsInjective
  <2>4. IsFiniteSet(0 .. CacheSize - 1) /\ Cardinality(0 .. CacheSize - 1) = CacheSize
    BY LayoutAssumption, FS_Interval
  <2> QED BY <1>2, <2>3, <2>4, FS_Injection, FS_CardinalityType DEF HotCount
<1> QED BY <1>2, <1>7, <1>8, LayoutAssumption

-----------------------------------------------------------------------------
(* Slot s goes to the s-th kept entry, and its local id is permuted to s.  *)
LEMMA HotGlobalsFacts ==
  ASSUME NEW ranking \in Seq(Int)
  PROVE  /\ HotGlobals(ranking)
              \in [0 .. HotCount(ranking) - 1 -> {g \in Global : IsLocal(g)}]
         /\ HotLocals(ranking) =
              {OrigMap[HotGlobals(ranking)[s]] : s \in 0 .. HotCount(ranking) - 1}
         /\ \A s \in 0 .. HotCount(ranking) - 1 :
              OldToNew(ranking)[OrigMap[HotGlobals(ranking)[s]]] = s
<1> DEFINE n == HotCount(ranking)
           Hot == HotPositions(ranking)
           at(s) == CHOOSE p \in Hot : Rank(ranking, p) = s
<1>1. /\ \A s \in 0 .. n - 1 : \E p \in Hot : Rank(ranking, p) = s
      /\ \A p \in Hot : Rank(ranking, p) \in 0 .. n - 1
      /\ \A p, q \in Hot : Rank(ranking, p) = Rank(ranking, q) => p = q
  BY HotSlots DEF Bijection, Injection, Surjection, IsInjective
<1>2. \A s \in 0 .. n - 1 : at(s) \in Hot /\ Rank(ranking, at(s)) = s
  BY <1>1
<1>3. \A p \in Hot : IsLocal(ranking[p]) /\ ranking[p] \in Global
  BY KeptType DEF HotPositions, IsLocal
<1>4. \A s \in 0 .. n - 1 : HotGlobals(ranking)[s] = ranking[at(s)]
  BY DEF HotGlobals
<1>5. HotGlobals(ranking) \in [0 .. n - 1 -> {g \in Global : IsLocal(g)}]
  BY <1>2, <1>3 DEF HotGlobals
<1>6. ASSUME NEW p \in Hot
      PROVE  HotGlobals(ranking)[Rank(ranking, p)] = ranking[p]
  <2>1. at(Rank(ranking, p)) = p
    BY <1>1, <1>2
  <2>2. Rank(ranking, p) \in 0 .. n - 1
    BY <1>1
  <2> HIDE DEF at
  <2> QED BY <1>4, <2>1, <2>2
<1>7. HotLocals(ranking) = {OrigMap[HotGlobals(ranking)[s]] : s \in 0 .. n - 1}
  BY <1>1, <1>2, <1>4, <1>6 DEF HotLocals
<1>8. ASSUME NEW s \in 0 .. n - 1
      PROVE  OldToNew(ranking)[OrigMap[HotGlobals(ranking)[s]]] = s
  <2> DEFINE l == OrigMap[HotGlobals(ranking)[s]]
  <2>1. l \in HotLocals(ranking) /\ l \in Local
    BY <1>5, <1>7, LayoutAssumption DEF IsLocal
  <2>2. \A p \in Hot : OrigMap[ranking[p]] = l => p = at(s)
    <3> SUFFICES ASSUME NEW p \in Hot, OrigMap[ranking[p]] = l
                 PROVE  p = at(s)
      OBVIOUS
    <3>1. at(s) \in Hot /\ OrigMap[ranking[at(s)]] = l
      BY <1>2, <1>4
    <3> HIDE DEF at
    <3>2. ranking[p] = ranking[at(s)]
      BY <1>3, <3>1, LayoutAssumption DEF IsLocal
    <3> QED BY <3>1, <3>2, KeptType DEF HotPositions
  <2>3. (CHOOSE p \in Hot : OrigMap[ranking[p]] = l) = at(s)
    BY <1>2, <1>4, <2>2
  <2> QED BY <2>1, <2>3, <1>2 DEF OldToNew
<1> QED BY <1>5, <1>7, <1>8

(* The permutation never loses or doubles an expert, for any ranking: the  *)
(* check "Mixed VMM expert permutation is not bijective" cannot fire.      *)
THEOREM LayoutIsBijection ==
  ASSUME NEW ranking \in Seq(Int)
  PROVE  /\ OldToNew(ranking) \in Bijection(Local, Local)
         /\ HotCount(ranking) <= NumLocal
<1> DEFINE n == HotCount(ranking)
           Hot == HotLocals(ranking)
           Cold == Local \ Hot
           hg == HotGlobals(ranking)
           otn == OldToNew(ranking)
<1>1. n \in Nat /\ NumLocal \in Nat
  <2>1. n \in 0 .. CacheSize
    BY HotSlots
  <2> QED BY <2>1, LayoutAssumption
<1>2. IsFiniteSet(Local) /\ Cardinality(Local) = NumLocal /\ Local \in SUBSET Int
  BY <1>1, CardInterval DEF Local
<1>3. Hot \in SUBSET Local
  <2>1. \A s \in 0 .. n - 1 : hg[s] \in Global /\ OrigMap[hg[s]] # -1
    BY HotGlobalsFacts DEF IsLocal
  <2>2. \A s \in 0 .. n - 1 : OrigMap[hg[s]] \in Local
    BY <2>1, LayoutAssumption
  <2> QED BY <2>2, HotGlobalsFacts
<1>4. IsFiniteSet(Hot) /\ Cardinality(Hot) = n
  <2> DEFINE h == [s \in 0 .. n - 1 |-> OrigMap[hg[s]]]
  <2>1. h \in [0 .. n - 1 -> Hot]
    BY HotGlobalsFacts
  <2>2. \A s, u \in 0 .. n - 1 : h[s] = h[u] => s = u
    BY HotGlobalsFacts
  <2>3. h \in Bijection(0 .. n - 1, Hot)
    BY <2>1, <2>2, HotGlobalsFacts DEF Bijection, Injection, Surjection, IsInjective
  <2>4. IsFiniteSet(0 .. n - 1) /\ Cardinality(0 .. n - 1) = n
    BY <1>1, CardInterval
  <2> QED BY <2>3, <2>4, FS_Bijection DEF ExistsBijection
<1>5. n <= NumLocal
  BY <1>2, <1>3, <1>4, FS_Subset
<1>6. IsFiniteSet(Cold) /\ Cardinality(Cold) = NumLocal - n /\ Cold \in SUBSET Int
  <2>1. Local \cap Hot = Hot
    BY <1>3
  <2>2. /\ IsFiniteSet(Local \ Hot)
        /\ Cardinality(Local \ Hot) = Cardinality(Local) - Cardinality(Local \cap Hot)
    BY <1>2, FS_Difference
  <2> QED BY <1>2, <1>4, <2>1, <2>2
<1>7. \A l \in Hot : otn[l] \in 0 .. n - 1
  BY HotGlobalsFacts
<1>8. \A l, m \in Hot : otn[l] = otn[m] => l = m
  BY HotGlobalsFacts
<1>9. Below(Cold) \in Bijection(Cold, 0 .. Cardinality(Cold) - 1)
  BY <1>6, BelowIsBijection
<1>10. \A l \in Cold : otn[l] = n + Below(Cold)[l]
  BY DEF OldToNew, Below
<1>11. \A l \in Cold : Below(Cold)[l] \in 0 .. NumLocal - n - 1
  BY <1>6, <1>9 DEF Bijection, Injection
<1>12. \A l, m \in Cold : otn[l] = otn[m] => l = m
  <2>1. \A l, m \in Cold : Below(Cold)[l] = Below(Cold)[m] => l = m
    BY <1>9 DEF Bijection, Injection, IsInjective
  <2> SUFFICES ASSUME NEW l \in Cold, NEW m \in Cold, otn[l] = otn[m]
               PROVE  Below(Cold)[l] = Below(Cold)[m]
    BY <2>1
  <2>2. Below(Cold)[l] \in Int /\ Below(Cold)[m] \in Int
    <3>1. /\ Below(Cold)[l] \in 0 .. NumLocal - n - 1
          /\ Below(Cold)[m] \in 0 .. NumLocal - n - 1
      BY <1>11
    <3> QED BY <3>1
  <2>3. n + Below(Cold)[l] = n + Below(Cold)[m]
    BY <1>10
  <2> QED BY <1>1, <2>2, <2>3
<1>13. \A l \in Cold : otn[l] \in n .. NumLocal - 1
  <2> SUFFICES ASSUME NEW l \in Cold
               PROVE  otn[l] \in n .. NumLocal - 1
    OBVIOUS
  <2>1. Below(Cold)[l] \in 0 .. NumLocal - n - 1
    BY <1>11
  <2>2. otn[l] = n + Below(Cold)[l]
    BY <1>10
  <2> QED BY <1>1, <1>5, <2>1, <2>2
<1>14. \A l \in Local : otn[l] \in Local
  BY <1>1, <1>5, <1>7, <1>13 DEF Local
<1>15. \A l, m \in Local : otn[l] = otn[m] => l = m
  BY <1>1, <1>7, <1>8, <1>12, <1>13
<1>16. otn \in Injection(Local, Local)
  <2>1. otn = [l \in Local |-> otn[l]]
    BY DEF OldToNew
  <2> QED BY <1>14, <1>15, <2>1 DEF Injection, IsInjective
<1>17. otn \in Surjection(Local, Local)
  BY <1>2, <1>16, FS_Injection
<1> QED BY <1>5, <1>16, <1>17 DEF Bijection

LEMMA NewToOldInverts ==
  ASSUME NEW ranking \in Seq(Int)
  PROVE  /\ NewToOld(ranking) \in [Local -> Local]
         /\ \A l \in Local : NewToOld(ranking)[OldToNew(ranking)[l]] = l
<1>1. /\ OldToNew(ranking) \in [Local -> Local]
      /\ \A l, m \in Local : OldToNew(ranking)[l] = OldToNew(ranking)[m] => l = m
      /\ \A k \in Local : \E l \in Local : OldToNew(ranking)[l] = k
  BY LayoutIsBijection DEF Bijection, Injection, Surjection, IsInjective
<1>2. \A k \in Local : NewToOld(ranking)[k] \in Local
                       /\ OldToNew(ranking)[NewToOld(ranking)[k]] = k
  BY <1>1 DEF NewToOld
<1>3. NewToOld(ranking) = [k \in Local |-> NewToOld(ranking)[k]]
  BY DEF NewToOld
<1> QED BY <1>1, <1>2, <1>3

-----------------------------------------------------------------------------
(* The cache. *)

USE LayoutAssumption, CacheAssumption

LEMMA NatMin ==
  ASSUME NEW T \in SUBSET Nat, T # {}
  PROVE  \E x \in T : \A y \in T : x <= y
<1> DEFINE R == OpToRel(<, Nat)
<1>1. IsWellFoundedOn(R, Nat)
  BY NatLessThanWellFounded
<1>2. \A x, y \in Nat : <<y, x>> \in R <=> y < x
  BY DEF OpToRel
<1> HIDE DEF R
<1>3. \E x \in T : \A y \in T : ~ (<<y, x>> \in R)
  BY <1>1, WFMin
<1>4. PICK x \in T : \A y \in T : ~ (<<y, x>> \in R)
  BY <1>3
<1>5. \A y \in T : ~ (y < x)
  BY <1>2, <1>4
<1>6. \A y \in T : x <= y
  BY <1>5
<1> QED BY <1>6

LEMMA Int32Range ==
  ASSUME NEW x \in Int
  PROVE  /\ ToInt32(x) \in -HalfInt .. HalfInt - 1
         /\ x \in 0 .. HalfInt - 1 => ToInt32(x) = x
<1>1. HalfInt \in Nat /\ HalfInt > 0 /\ CacheSize \in Nat
  OBVIOUS
<1>2. (x + HalfInt) % (2 * HalfInt) \in 0 .. 2 * HalfInt - 1
  BY <1>1
<1>3. ASSUME x \in 0 .. HalfInt - 1
      PROVE  (x + HalfInt) % (2 * HalfInt) = x + HalfInt
  BY <1>1, <1>3
<1> QED BY <1>1, <1>2, <1>3 DEF ToInt32

(* The kernel's argmin names a slot, whatever the ages and the protection. *)
LEMMA VictimExists ==
  ASSUME TypeOK
  PROVE  Victim \in Slots /\ IsVictim(Victim)
<1>1. /\ cap \in Nat \ {0} /\ Slots = 0 .. cap - 1 /\ HalfInt \in Nat
      /\ \A s \in Slots : VictimAge(s) \in -HalfInt .. HalfInt - 1
  <2>1. /\ cap \in 0 .. CacheSize /\ Slots = 0 .. cap - 1
        /\ slot_ages \in [Slots -> -HalfInt .. HalfInt - 1]
    BY DEF TypeOK, Slots
  <2>2. cap \in Nat \ {0} /\ HalfInt \in Nat /\ HalfInt > 0
    BY DEF TypeOK
  <2>3. Sentinel \in -HalfInt .. HalfInt - 1
    BY <2>2 DEF Sentinel
  <2> QED BY <2>1, <2>2, <2>3 DEF VictimAge
<1> DEFINE Keys == {VictimAge(s) + HalfInt : s \in Slots}
<1>2. \A s \in Slots : VictimAge(s) + HalfInt \in Nat
  BY <1>1
<1>3. Keys \in SUBSET Nat /\ Keys # {}
  <2>1. Keys \in SUBSET Nat
    BY <1>2
  <2>2. 0 \in Slots
    BY <1>1
  <2> QED BY <2>1, <2>2
<1>4. PICK k \in Keys : \A y \in Keys : k <= y
  BY <1>3, NatMin
<1> DEFINE Lowest == {s \in Slots : VictimAge(s) + HalfInt = k}
<1>5. Lowest \in SUBSET Nat /\ Lowest # {}
  <2>1. Lowest \in SUBSET Nat
    BY <1>1
  <2>2. \E s \in Slots : VictimAge(s) + HalfInt = k
    BY <1>4
  <2> QED BY <2>1, <2>2
<1>6. PICK s \in Lowest : \A x \in Lowest : s <= x
  BY <1>5, NatMin
<1>7. \A x \in Slots : VictimAge(s) <= VictimAge(x)
  <2> SUFFICES ASSUME NEW x \in Slots PROVE VictimAge(s) <= VictimAge(x)
    OBVIOUS
  <2>1. VictimAge(s) + HalfInt <= VictimAge(x) + HalfInt
    BY <1>4
  <2> QED BY <2>1, <1>1
<1>8. \A x \in 0 .. s - 1 : VictimAge(s) # VictimAge(x)
  <2> SUFFICES ASSUME NEW x \in 0 .. s - 1, VictimAge(s) = VictimAge(x) PROVE FALSE
    OBVIOUS
  <2>1. x \in Slots /\ x < s
    BY <1>1
  <2>2. x \in Lowest
    BY <2>1
  <2> QED BY <1>6, <2>1, <2>2, <1>1
<1>9. s \in Slots /\ IsVictim(s)
  BY <1>7, <1>8 DEF IsVictim
<1> QED BY <1>9 DEF Victim
-----------------------------------------------------------------------------
(* What the installer leaves behind, for any ranking with a hot expert.    *)
LEMMA InstalledFacts ==
  ASSUME NEW ranking \in Rankings, HotCount(ranking) > 0, Installed(ranking)
  PROVE  /\ cap \in 1 .. CacheSize /\ cap <= NumLocal
         /\ slot_global_ids \in [Slots -> {g \in Global : IsLocal(g)}]
         /\ hot_map \in [Global -> Slots \cup {-1}]
         /\ cold_map \in [Global -> -1 .. cap + NumLocal - 1]
         /\ rows \in [Tensors -> [0 .. cap + NumLocal - 1 -> Local]]
         /\ HostCopies /\ SlotsMirrorMap /\ OneLocation
         /\ \A t \in Tensors, s \in Slots :
              rows[t][s] = OrigMap[slot_global_ids[s]]
<1> DEFINE otn == OldToNew(ranking)
           nto == NewToOld(ranking)
<1>1. ranking \in Seq(Int)
  OBVIOUS
<1>2. cap = HotCount(ranking) /\ cap \in 1 .. CacheSize /\ cap <= NumLocal
  <2>1. HotCount(ranking) \in 0 .. CacheSize /\ HotCount(ranking) <= NumLocal
    BY <1>1, HotSlots, LayoutIsBijection
  <2> QED BY <2>1 DEF Installed
<1>3. /\ slot_global_ids \in [Slots -> {g \in Global : IsLocal(g)}]
      /\ \A s \in Slots : otn[OrigMap[slot_global_ids[s]]] = s
  BY <1>1, <1>2, HotGlobalsFacts DEF Installed, Slots
<1>4. /\ otn \in [Local -> Local] /\ nto \in [Local -> Local]
      /\ \A l, m \in Local : otn[l] = otn[m] => l = m
      /\ \A l \in Local : nto[otn[l]] = l
  BY <1>1, LayoutIsBijection, NewToOldInverts DEF Bijection, Injection, IsInjective
<1>5. \A g \in Global : IsLocal(g) => OrigMap[g] \in Local /\ otn[OrigMap[g]] \in Local
  BY <1>4 DEF IsLocal
<1>6. \A s, u \in Slots : slot_global_ids[s] = slot_global_ids[u] => s = u
  BY <1>3
<1>7. hot_map = [g \in Global |->
                   IF \E s \in Slots : slot_global_ids[s] = g
                     THEN CHOOSE s \in Slots : slot_global_ids[s] = g ELSE -1]
  BY DEF Installed
<1>8. hot_map \in [Global -> Slots \cup {-1}]
  BY <1>7
<1>9. SlotsMirrorMap
  <2>1. ASSUME NEW s \in Slots PROVE hot_map[slot_global_ids[s]] = s
    BY <1>3, <1>6, <1>7
  <2>2. ASSUME NEW g \in Global, hot_map[g] # -1
        PROVE  slot_global_ids[hot_map[g]] = g
    BY <1>7, <2>2
  <2> QED BY <2>1, <2>2 DEF SlotsMirrorMap
<1>10. cold_map = [g \in Global |-> IF IsLocal(g) THEN cap + otn[OrigMap[g]] ELSE -1]
  BY <1>2 DEF Installed, ColdRow
<1>11. \A g \in Global : IsLocal(g) => cold_map[g] \in cap .. cap + NumLocal - 1
  <2> SUFFICES ASSUME NEW g \in Global, IsLocal(g)
               PROVE  cold_map[g] \in cap .. cap + NumLocal - 1
    OBVIOUS
  <2>1. otn[OrigMap[g]] \in 0 .. NumLocal - 1
    BY <1>5 DEF Local
  <2> QED BY <1>2, <1>10, <2>1
<1>12. cold_map \in [Global -> -1 .. cap + NumLocal - 1]
  BY <1>2, <1>10, <1>11
<1>13. \A t \in Tensors : rows[t] = FillNewToOld(ranking)
  BY DEF Installed
<1>14. rows \in [Tensors -> [0 .. cap + NumLocal - 1 -> Local]]
  <2>1. FillNewToOld(ranking) \in [0 .. cap + NumLocal - 1 -> Local]
    <3> SUFFICES ASSUME NEW r \in 0 .. cap + NumLocal - 1
                 PROVE  FillNewToOld(ranking)[r] \in Local
      BY <1>2 DEF FillNewToOld, Rows
    <3>1. r \in Rows(ranking)
      BY <1>2 DEF Rows
    <3>2. r < cap => r \in Local
      BY <1>2 DEF Local
    <3>3. ~(r < cap) => r - cap \in Local
      BY <1>2 DEF Local
    <3> QED BY <1>2, <1>4, <3>1, <3>2, <3>3 DEF FillNewToOld
  <2> QED BY <2>1 DEF Installed
<1>15. ASSUME NEW t \in Tensors, NEW s \in Slots
       PROVE  rows[t][s] = OrigMap[slot_global_ids[s]]
  <2>1. s \in Rows(ranking) /\ s < HotCount(ranking)
    BY <1>2 DEF Rows, Slots
  <2>2. rows[t][s] = nto[s]
    BY <1>13, <2>1 DEF FillNewToOld
  <2>3. OrigMap[slot_global_ids[s]] \in Local
    BY <1>3, <1>5
  <2> QED BY <1>3, <1>4, <2>2, <2>3
<1>16. HostCopies
  <2> SUFFICES ASSUME NEW g \in Global, IsLocal(g), NEW t \in Tensors
               PROVE  rows[t][cold_map[g]] = OrigMap[g]
    BY <1>10, <1>11 DEF HostCopies
  <2> DEFINE r == cap + otn[OrigMap[g]]
  <2>1. cold_map[g] = r /\ r \in Rows(ranking)
    BY <1>2, <1>10, <1>11 DEF Rows
  <2>2. otn[OrigMap[g]] \in Nat
    BY <1>5 DEF Local
  <2>3. ~(r < HotCount(ranking)) /\ r - HotCount(ranking) = otn[OrigMap[g]]
    BY <1>2, <2>2
  <2>4. FillNewToOld(ranking)[r] = nto[r - HotCount(ranking)]
    BY <2>1, <2>3 DEF FillNewToOld
  <2> QED BY <1>4, <1>5, <1>13, <2>1, <2>3, <2>4
<1>17. OneLocation
  <2> SUFFICES ASSUME NEW g \in Global
               PROVE  rot_map[g] = IF hot_map[g] # -1 THEN hot_map[g] ELSE cold_map[g]
    BY DEF OneLocation
  <2>1. rot_map[g] = ServedRow(ranking, g)
    BY DEF Installed
  <2>2. CASE ~IsLocal(g)
    <3>1. hot_map[g] = -1
      BY <1>3, <1>7, <2>2
    <3> QED BY <1>10, <2>1, <2>2, <3>1 DEF ServedRow
  <2>3. CASE IsLocal(g) /\ otn[OrigMap[g]] < cap
    <3> DEFINE s == otn[OrigMap[g]]
    <3>1. s \in Slots
      BY <1>2, <1>5, <2>3 DEF Slots, Local
    <3>2. OrigMap[slot_global_ids[s]] \in Local /\ IsLocal(slot_global_ids[s])
      BY <1>3, <1>5, <3>1
    <3>3. OrigMap[slot_global_ids[s]] = OrigMap[g]
      BY <1>3, <1>4, <1>5, <2>3, <3>1, <3>2
    <3>4. slot_global_ids[s] = g
      BY <2>3, <3>2, <3>3 DEF IsLocal
    <3>5. hot_map[g] = s /\ s # -1
      BY <1>9, <3>1, <3>4 DEF SlotsMirrorMap, Slots
    <3>6. ServedRow(ranking, g) = s
      BY <1>2, <1>5, <2>3, <3>1 DEF ServedRow, Slots
    <3> QED BY <2>1, <3>5, <3>6
  <2>4. CASE IsLocal(g) /\ ~(otn[OrigMap[g]] < cap)
    <3>1. ASSUME NEW s \in Slots PROVE slot_global_ids[s] # g
      BY <1>2, <1>3, <2>4 DEF Slots
    <3>2. hot_map[g] = -1
      BY <1>7, <3>1
    <3>3. ServedRow(ranking, g) = cap + otn[OrigMap[g]]
      <4>1. otn[OrigMap[g]] \in Int
        BY <1>5, <2>4 DEF Local
      <4>2. otn[OrigMap[g]] >= HotCount(ranking)
        BY <1>2, <2>4, <4>1
      <4> QED BY <1>2, <2>4, <4>2 DEF ServedRow
    <3> QED BY <1>10, <2>1, <2>4, <3>2, <3>3
  <2> QED BY <2>2, <2>3, <2>4
<1> QED BY <1>2, <1>3, <1>8, <1>9, <1>12, <1>14, <1>15, <1>16, <1>17
-----------------------------------------------------------------------------
LEMMA TypeInit == Init => TypeOK
<1> SUFFICES ASSUME Init PROVE TypeOK
  OBVIOUS
<1>1. PICK ranking \in Rankings : HotCount(ranking) > 0 /\ Installed(ranking)
  BY DEF Init
<1>2. /\ cap \in 1 .. CacheSize /\ cap <= NumLocal
      /\ slot_global_ids \in [Slots -> {g \in Global : IsLocal(g)}]
      /\ hot_map \in [Global -> Slots \cup {-1}]
      /\ cold_map \in [Global -> -1 .. cap + NumLocal - 1]
      /\ rows \in [Tensors -> [0 .. cap + NumLocal - 1 -> Local]]
      /\ OneLocation
  BY <1>1, InstalledFacts
<1>3. rot_map \in [Global -> -1 .. cap + NumLocal - 1]
  <2>1. DOMAIN rot_map = Global /\ rot_map = [g \in Global |-> rot_map[g]]
    BY <1>1 DEF Installed
  <2>2. ASSUME NEW g \in Global
        PROVE  rot_map[g] \in -1 .. cap + NumLocal - 1
    <3>1. CASE hot_map[g] # -1
      <4>1. hot_map[g] \in 0 .. cap - 1
        BY <1>2, <3>1 DEF Slots
      <4> QED BY <1>2, <3>1, <4>1 DEF OneLocation
    <3>2. CASE hot_map[g] = -1
      BY <1>2, <3>2 DEF OneLocation
    <3> QED BY <3>1, <3>2
  <2> QED BY <2>1, <2>2
<1>4. slot_ages \in [Slots -> -HalfInt .. HalfInt - 1] /\ clock \in -HalfInt .. HalfInt - 1
  BY <1>1, <1>2 DEF Installed, Slots
<1>5. /\ miss_local_ids \in [1 .. MissRows -> Int]
      /\ miss_slots \in [1 .. MissRows -> Slots \cup {-1}]
  BY <1>2 DEF Init, Slots
<1>6. /\ pc \in {"idle", "plain", "update", "gather", "done"}
      /\ pc # "update" /\ ids \in Seq(Ids) /\ pos \in Nat
      /\ protected \subseteq Slots /\ todo \subseteq Tensors
  BY DEF Init
<1> QED BY <1>2, <1>3, <1>4, <1>5, <1>6 DEF TypeOK

LEMMA BatchType ==
  ASSUME NEW n \in 1 .. MaxBatch, NEW batch \in [1 .. n * TopK -> Ids]
  PROVE  batch \in Seq(Ids) /\ Len(batch) \in Nat /\ DOMAIN batch = 1 .. Len(batch)
<1>1. n * TopK \in Nat
  OBVIOUS
<1> QED BY <1>1

LEMMA TypeNext == TypeOK /\ [Next]_vars => TypeOK'
<1> SUFFICES ASSUME TypeOK, [Next]_vars PROVE TypeOK'
  OBVIOUS
<1>1. CASE RoutePlain
  <2>1. ids' \in Seq(Ids)
    BY <1>1, BatchType DEF RoutePlain
  <2> QED BY <1>1, <2>1 DEF RoutePlain, TypeOK, Slots, maps, slots, misses
<1>2. CASE RouteDecode
  <2>1. ids' \in Seq(Ids)
    BY <1>2, BatchType DEF RouteDecode
  <2>2. protected' \subseteq Slots
    BY <1>2 DEF RouteDecode, Requested
  <2> QED BY <1>2, <2>1, <2>2 DEF RouteDecode, TypeOK, Slots, maps, slots, misses
<1>3. NewAge \in -HalfInt .. HalfInt - 1
  <2>1. clock + pos \in Int
    BY DEF TypeOK
  <2> QED BY <2>1, Int32Range DEF NewAge
<1>4. ASSUME NextRequest
      PROVE  /\ cap' = cap /\ Slots' = Slots /\ pos' \in Nat
             /\ UNCHANGED <<cold_map, clock, rows, pc, ids, launch_map, todo>>
             /\ pc = "update"
  BY <1>4 DEF NextRequest, Slots, TypeOK
<1>5. ASSUME NoMiss
      PROVE  /\ miss_local_ids' \in [1 .. MissRows -> Int]
             /\ miss_slots' \in [1 .. MissRows -> Slots \cup {-1}]
  <2>1. /\ miss_local_ids \in [1 .. MissRows -> Int]
        /\ miss_slots \in [1 .. MissRows -> Slots \cup {-1}]
    BY DEF TypeOK
  <2>2. miss_local_ids' \in [1 .. MissRows -> Int]
    <3>1. miss_local_ids' = [miss_local_ids EXCEPT ![pos] = -1]
      BY <1>5 DEF NoMiss
    <3>2. -1 \in Int
      OBVIOUS
    <3> QED BY <2>1, <3>1, <3>2, Zenon
  <2>3. miss_slots' \in [1 .. MissRows -> Slots \cup {-1}]
    BY <1>5, <2>1 DEF NoMiss
  <2> QED BY <2>2, <2>3
<1>6. CASE RequestNothing
  BY <1>4, <1>5, <1>6 DEF RequestNothing, TypeOK, maps, slots
<1>7. CASE RequestHit
  <2>1. NextRequest /\ NoMiss /\ UNCHANGED <<hot_map, slot_global_ids, protected>>
    BY <1>7 DEF RequestHit
  <2>2. ids[pos] \in Global
    BY <1>7 DEF RequestHit, IsLocal
  <2>3. PICK slot \in CacheSlot(ids[pos]) \ {-1} :
          /\ rot_map' = [rot_map EXCEPT ![ids[pos]] = slot]
          /\ slot_ages' = [slot_ages EXCEPT ![slot] = NewAge]
    BY <1>7 DEF RequestHit
  <2>4. slot \in Slots
    <3>1. /\ hot_map[ids[pos]] \in Slots \cup {-1}
          /\ launch_map[ids[pos]] \in Slots \cup {-1}
      BY <1>4, <2>1, <2>2 DEF TypeOK
    <3> QED BY <2>3, <3>1 DEF CacheSlot
  <2>5. slot \in -1 .. cap + NumLocal - 1
    BY <2>4 DEF TypeOK, Slots
  <2>6. rot_map' \in [Global -> -1 .. cap + NumLocal - 1]
    BY <2>3, <2>5 DEF TypeOK
  <2>7. slot_ages' \in [Slots -> -HalfInt .. HalfInt - 1]
    BY <1>3, <2>3 DEF TypeOK
  <2> QED BY <1>4, <1>5, <2>1, <2>6, <2>7 DEF TypeOK
<1>8. CASE RequestMiss
  <2> DEFINE g == ids[pos]
             slot == Victim
             old == slot_global_ids[slot]
  <2>1. slot \in Slots
    BY VictimExists
  <2>2. g \in Global /\ IsLocal(g) /\ old \in Global
    BY <1>8, <2>1 DEF RequestMiss, IsLocal, TypeOK
  <2>3. /\ NextRequest
        /\ hot_map' = [hot_map EXCEPT ![g] = slot, ![old] = -1]
        /\ rot_map' = [rot_map EXCEPT ![g] = slot, ![old] = cold_map[old]]
        /\ slot_global_ids' = [slot_global_ids EXCEPT ![slot] = g]
        /\ slot_ages' = [slot_ages EXCEPT ![slot] = NewAge]
        /\ protected' = protected \cup {slot}
        /\ miss_local_ids' = [miss_local_ids EXCEPT ![pos] = cold_map[g]]
        /\ miss_slots' = [miss_slots EXCEPT ![pos] = slot]
    BY <1>8 DEF RequestMiss, AfterEviction
  <2> HIDE DEF slot, old, g
  <2>4. slot \in -1 .. cap + NumLocal - 1
    BY <2>1 DEF TypeOK, Slots
  <2>5. hot_map' \in [Global -> Slots \cup {-1}]
    BY <2>1, <2>2, <2>3 DEF TypeOK
  <2>6. rot_map' \in [Global -> -1 .. cap + NumLocal - 1]
    <3>1. cold_map[old] \in -1 .. cap + NumLocal - 1
      BY <2>2 DEF TypeOK
    <3> QED BY <2>2, <2>3, <2>4, <3>1 DEF TypeOK
  <2>7. slot_global_ids' \in [Slots -> {x \in Global : IsLocal(x)}]
    BY <2>1, <2>2, <2>3 DEF TypeOK
  <2>8. slot_ages' \in [Slots -> -HalfInt .. HalfInt - 1]
    BY <1>3, <2>1, <2>3 DEF TypeOK
  <2>9. miss_local_ids' \in [1 .. MissRows -> Int]
    <3>1. cold_map[g] \in Int
      BY <2>2 DEF TypeOK
    <3> QED BY <2>3, <3>1 DEF TypeOK
  <2>10. miss_slots' \in [1 .. MissRows -> Slots \cup {-1}]
    BY <2>1, <2>3 DEF TypeOK
  <2> QED BY <1>4, <2>1, <2>3, <2>5, <2>6, <2>7, <2>8, <2>9, <2>10 DEF TypeOK
<1>9. CASE UpdateDone
  <2>1. clock + Len(ids) \in Int
    BY DEF TypeOK
  <2>2. clock' \in -HalfInt .. HalfInt - 1
    BY <1>9, <2>1, Int32Range DEF UpdateDone
  <2> QED BY <1>9, <2>2 DEF UpdateDone, TypeOK, Slots, maps, slots, misses
<1>10. CASE Gather
  <2>1. PICK t \in todo, after \in [Slots -> Local] :
          /\ rows' = [rows EXCEPT ![t] = [r \in DOMAIN rows[t] |->
                         IF r \in Slots THEN after[r] ELSE rows[t][r]]]
          /\ todo' = todo \ {t}
    BY <1>10 DEF Gather
  <2>2. rows' \in [Tensors -> [0 .. cap + NumLocal - 1 -> Local]]
    BY <2>1 DEF TypeOK
  <2> QED BY <1>10, <2>1, <2>2 DEF Gather, TypeOK, Slots, maps, slots, misses
<1>11. CASE ApplyPlain
  BY <1>11 DEF ApplyPlain, Apply, TypeOK, Slots, maps, slots, misses
<1>12. CASE ApplyDecode
  BY <1>12 DEF ApplyDecode, Apply, TypeOK, Slots, maps, slots, misses
<1>13. CASE Return
  <2>1. ids' \in Seq(Ids) /\ pos' \in Nat /\ protected' \subseteq Slots
    BY <1>13 DEF Return
  <2> QED BY <1>13, <2>1 DEF Return, TypeOK, Slots, maps, slots, misses
<1>14. CASE UNCHANGED vars
  BY <1>14 DEF vars, TypeOK, Slots, maps, slots, misses
<1> QED BY <1>1, <1>2, <1>6, <1>7, <1>8, <1>9, <1>10, <1>11, <1>12, <1>13, <1>14
        DEF Next

(* Every reachable state is well typed, however far the clock has wrapped. *)
THEOREM TypeCorrect == Spec => []TypeOK
<1>1. Init => TypeOK
  BY TypeInit
<1>2. TypeOK /\ [Next]_vars => TypeOK'
  BY TypeNext
<1> QED BY <1>1, <1>2, PTL DEF Spec
-----------------------------------------------------------------------------
(* The invariant that carries coherence.  Below, the clock stays below the  *)
(* age that marks a protected slot: ClockLimit <= Sentinel.                 *)

LEMMA InvInit == Init => IInv
<1> SUFFICES ASSUME Init PROVE IInv
  OBVIOUS
<1>1. TypeOK
  BY TypeInit
<1>2. PICK ranking \in Rankings : HotCount(ranking) > 0 /\ Installed(ranking)
  BY DEF Init
<1>3. /\ HostCopies /\ SlotsMirrorMap /\ OneLocation
      /\ \A t \in Tensors, s \in Slots : rows[t][s] = OrigMap[slot_global_ids[s]]
      /\ cap \in 1 .. CacheSize
  BY <1>2, InstalledFacts
<1>4. pc = "idle"
  BY DEF Init
<1>5. CacheInv
  BY <1>3, <1>4 DEF CacheInv, BatchResident, SlotBytes
<1>6. clock = cap /\ \A s \in Slots : slot_ages[s] = cap - s
  BY <1>2 DEF Installed
<1>7. KernelInv
  BY <1>3, <1>4, <1>6 DEF KernelInv, Slots
<1> QED BY <1>1, <1>5, <1>7 DEF IInv

(* While an id of the batch has no slot, some slot is not protected: the   *)
(* protected ones belong to other ids of a batch that fits the cache.      *)
LEMMA UnprotectedSlot ==
  ASSUME IInv, pc = "update", NEW k \in Requests,
         \A s \in Slots : slot_global_ids[s] # ids[k]
  PROVE  \E s \in Slots : s \notin protected
<1> SUFFICES ASSUME Slots \subseteq protected PROVE FALSE
  OBVIOUS
<1> DEFINE Others == Requests \ {k}
           at(s) == CHOOSE j \in Others : slot_global_ids[s] = ids[j]
           f == [s \in Slots |-> at(s)]
<1>1. cap \in Nat /\ Len(ids) \in Nat /\ Len(ids) <= cap
  BY DEF IInv, KernelInv, TypeOK
<1>2. protected = Requested(ids) /\ DOMAIN ids = Requests
  BY DEF IInv, CacheInv, BatchResident, TypeOK, Requests
<1>3. \A s \in Slots : \E j \in Others : slot_global_ids[s] = ids[j]
  BY <1>2 DEF Requested
<1>4. \A s \in Slots : at(s) \in Others /\ slot_global_ids[s] = ids[at(s)]
  BY <1>3
<1>5. \A s, u \in Slots : slot_global_ids[s] = slot_global_ids[u] => s = u
  BY DEF IInv, CacheInv, SlotsMirrorMap
<1>6. f \in [Slots -> Others] /\ \A s, u \in Slots : f[s] = f[u] => s = u
  BY <1>4, <1>5
<1>7. IsFiniteSet(Slots) /\ Cardinality(Slots) = cap
  BY <1>1, CardInterval DEF Slots
<1>8. IsFiniteSet(Others) /\ Cardinality(Others) = Len(ids) - 1
  <2>1. IsFiniteSet(Requests) /\ Cardinality(Requests) = Len(ids)
    <3>1. 1 \in Int /\ Len(ids) \in Int
      BY <1>1
    <3>2. /\ IsFiniteSet(1 .. Len(ids))
          /\ Cardinality(1 .. Len(ids)) = IF 1 > Len(ids) THEN 0 ELSE Len(ids) - 1 + 1
      BY <3>1, FS_Interval
    <3> QED BY <1>1, <3>2 DEF Requests
  <2> QED BY <2>1, FS_RemoveElement
<1>9. \E s, u \in Slots : s # u /\ f[s] = f[u]
  <2>1. Cardinality(Others) < Cardinality(Slots)
    BY <1>1, <1>7, <1>8
  <2> HIDE DEF f, Others
  <2> QED BY <1>6, <1>7, <1>8, <2>1, FS_PigeonHole
<1> QED BY <1>6, <1>9

(* Then the victim is not one the batch needs: its age is below the mark.  *)
LEMMA VictimUnprotected ==
  ASSUME IInv, ClockLimit <= Sentinel, pc = "update", pos \in Requests,
         \A s \in Slots : slot_global_ids[s] # ids[pos]
  PROVE  Victim \in Slots /\ Victim \notin protected
<1>1. Victim \in Slots /\ IsVictim(Victim)
  BY VictimExists DEF IInv
<1>2. PICK s \in Slots : s \notin protected
  BY UnprotectedSlot
<1>3. slot_ages[s] \in Int /\ slot_ages[s] <= clock + pos - 1
  BY DEF IInv, KernelInv, TypeOK
<1>4. clock \in Int /\ pos \in Int /\ Len(ids) \in Int
      /\ pos <= Len(ids) /\ clock + Len(ids) <= ClockLimit
  BY DEF IInv, KernelInv, TypeOK, Requests
<1>5. slot_ages[s] < Sentinel /\ Sentinel \in Int
  BY <1>3, <1>4 DEF Sentinel
<1>6. VictimAge(Victim) <= slot_ages[s]
  BY <1>1, <1>2 DEF IsVictim, VictimAge
<1>7. ASSUME Victim \in protected PROVE FALSE
  BY <1>3, <1>5, <1>6, <1>7 DEF VictimAge
<1> QED BY <1>1, <1>7
-----------------------------------------------------------------------------
(* One lemma per iteration of the kernel's loop that changes the maps.     *)

(* The kernel's output buffers have an entry for every request.            *)
LEMMA RequestHasEntry ==
  ASSUME IInv, pc = "update", pos \in Requests
  PROVE  pos \in 1 .. MissRows /\ \A k \in 1 .. pos - 1 : k \in 1 .. MissRows
<1>1. MissRows \in Nat
  BY DEF MissRows
<1>2. Len(ids) <= MissRows
  BY DEF IInv, KernelInv
<1>3. Len(ids) \in Nat
  BY DEF IInv, TypeOK
<1>4. pos \in 1 .. Len(ids)
  BY DEF Requests
<1> HIDE DEF MissRows
<1> QED BY <1>1, <1>2, <1>3, <1>4

LEMMA NothingKeepsInv ==
  ASSUME IInv, RequestNothing
  PROVE  CacheInv' /\ KernelInv'
<1>1. /\ pc = "update" /\ pos \in Requests /\ pos' = pos + 1
      /\ UNCHANGED <<cap, cold_map, clock, rows, pc, ids, launch_map, todo,
                     hot_map, rot_map, slot_global_ids, slot_ages, protected>>
      /\ miss_local_ids' = [miss_local_ids EXCEPT ![pos] = -1]
      /\ miss_slots' = [miss_slots EXCEPT ![pos] = -1]
      /\ IsLocal(ids[pos]) => AppearedBefore(pos)
  BY DEF RequestNothing, NextRequest, NoMiss, maps, slots
<1>2. Slots' = Slots /\ Requests' = Requests /\ pos \in Nat \ {0}
      /\ 1 .. pos' - 1 = (1 .. pos - 1) \cup {pos}
  <2>1. Slots' = Slots /\ Requests' = Requests
    BY <1>1 DEF Slots, Requests
  <2>2. pos \in Nat \ {0} /\ pos' = pos + 1
    BY <1>1 DEF Requests
  <2>3. 1 .. pos' - 1 = (1 .. pos - 1) \cup {pos}
    BY <2>2
  <2> QED BY <2>1, <2>2, <2>3
<1>3. pos \in 1 .. MissRows
  BY <1>1, RequestHasEntry
<1>4. /\ miss_local_ids \in [1 .. MissRows -> Int]
      /\ miss_slots \in [1 .. MissRows -> Slots \cup {-1}]
  BY DEF IInv, TypeOK
<1>5. miss_slots'[pos] = -1 /\ miss_local_ids'[pos] = -1
  BY <1>1, <1>3, <1>4
<1>6. \A k \in 1 .. pos - 1 : miss_slots'[k] = miss_slots[k]
                             /\ miss_local_ids'[k] = miss_local_ids[k] /\ k # pos
  BY <1>1, <1>2, <1>3, <1>4
<1>7. HostCopies' /\ SlotsMirrorMap' /\ OneLocation'
  BY <1>1, <1>2 DEF IInv, CacheInv, HostCopies, SlotsMirrorMap, OneLocation
<1>8. BatchResident'
  <2>1. /\ protected = Requested(ids)
        /\ \A k \in 1 .. pos - 1 : IsLocal(ids[k]) => hot_map[ids[k]] # -1
    BY <1>1 DEF IInv, CacheInv, BatchResident
  <2>2. protected' = Requested(ids)'
    BY <1>1, <1>2, <2>1 DEF Requested
  <2>3. IsLocal(ids[pos]) => hot_map[ids[pos]] # -1
    BY <1>1, <2>1 DEF AppearedBefore
  <2> QED BY <1>1, <1>2, <2>1, <2>2, <2>3 DEF BatchResident
<1>9. SlotBytes'
  <2>1. ASSUME NEW t \in Tensors, NEW s \in Slots, Pending(t, s)
        PROVE  Pending(t, s)'
    <3>1. PICK k \in 1 .. pos - 1 : k \in Missed(s)
      BY <2>1 DEF Pending
    <3>2. k \in Missed(s)'
      BY <1>2, <1>6, <3>1 DEF Missed
    <3> QED BY <1>1, <1>2, <3>1, <3>2 DEF Pending
  <2>2. \A t \in Tensors, s \in Slots :
          Pending(t, s)' \/ rows'[t][s] = OrigMap[slot_global_ids'[s]]
    BY <1>1, <2>1 DEF IInv, CacheInv, SlotBytes
  <2>3. \A k \in 1 .. pos - 1 :
          IF miss_slots'[k] = -1 THEN miss_local_ids'[k] = -1
          ELSE /\ slot_global_ids'[miss_slots'[k]] = ids'[k]
               /\ miss_local_ids'[k] = cold_map'[ids'[k]]
    BY <1>1, <1>6 DEF IInv, CacheInv, SlotBytes
  <2> QED BY <1>1, <1>2, <1>5, <2>2, <2>3 DEF SlotBytes
<1>10. KernelInv'
  <2>1. \A s \in Slots : slot_ages[s] \in Int /\ slot_ages[s] <= clock + pos - 1
    BY <1>1 DEF IInv, KernelInv, TypeOK
  <2>2. clock \in Int /\ Len(ids) \in Nat
    BY DEF IInv, KernelInv, TypeOK
  <2>3. pos' \in 1 .. Len(ids') + 1
    BY <1>1, <1>2, <2>2 DEF Requests
  <2>4. \A s \in Slots : slot_ages'[s] <= clock' + pos' - 1
    BY <1>1, <1>2, <2>1, <2>2
  <2>5. \A k \in Requests : IsLocal(ids[k]) =>
          \/ launch_map[ids[k]] = hot_map[ids[k]]
          \/ launch_map[ids[k]] = -1 /\ \E j \in 1 .. pos' - 1 : ids[j] = ids[k]
    BY <1>1, <1>2 DEF IInv, KernelInv
  <2>6. /\ clock \in 0 .. HalfInt - 1 /\ Len(ids) <= MissRows /\ Len(ids) <= cap
        /\ clock + Len(ids) <= ClockLimit
    BY <1>1 DEF IInv, KernelInv
  <2> QED BY <1>1, <1>2, <2>3, <2>4, <2>5, <2>6 DEF KernelInv
<1> QED BY <1>7, <1>8, <1>9, <1>10 DEF CacheInv

LEMMA HitKeepsInv ==
  ASSUME IInv, ClockLimit <= Sentinel, RequestHit
  PROVE  CacheInv' /\ KernelInv'
<1> DEFINE g == ids[pos]
<1>1. /\ pc = "update" /\ pos \in Requests /\ pos' = pos + 1
      /\ UNCHANGED <<cap, cold_map, clock, rows, pc, ids, launch_map, todo,
                     hot_map, slot_global_ids, protected>>
      /\ miss_local_ids' = [miss_local_ids EXCEPT ![pos] = -1]
      /\ miss_slots' = [miss_slots EXCEPT ![pos] = -1]
      /\ IsLocal(g) /\ g \in Global
  BY DEF RequestHit, NextRequest, NoMiss, IsLocal
<1>2. Slots' = Slots /\ Requests' = Requests /\ pos \in Nat \ {0}
      /\ 1 .. pos' - 1 = (1 .. pos - 1) \cup {pos}
  <2>1. Slots' = Slots /\ Requests' = Requests
    BY <1>1 DEF Slots, Requests
  <2>2. pos \in Nat \ {0} /\ pos' = pos + 1
    BY <1>1 DEF Requests
  <2>3. 1 .. pos' - 1 = (1 .. pos - 1) \cup {pos}
    BY <2>2
  <2> QED BY <2>1, <2>2, <2>3
<1>3. PICK slot \in CacheSlot(g) \ {-1} :
        /\ rot_map' = [rot_map EXCEPT ![g] = slot]
        /\ slot_ages' = [slot_ages EXCEPT ![slot] = NewAge]
  BY DEF RequestHit
<1>4. slot = hot_map[g]
  BY <1>1, <1>3 DEF CacheSlot, IInv, KernelInv
<1>5. rot_map' = rot_map
  <2>1. rot_map[g] = slot
    BY <1>1, <1>3, <1>4 DEF IInv, CacheInv, OneLocation
  <2>2. rot_map \in [Global -> -1 .. cap + NumLocal - 1]
    BY DEF IInv, TypeOK
  <2> QED BY <1>1, <1>3, <2>1, <2>2
<1>6. pos \in 1 .. MissRows
  BY <1>1, RequestHasEntry
<1>7. /\ miss_local_ids \in [1 .. MissRows -> Int]
      /\ miss_slots \in [1 .. MissRows -> Slots \cup {-1}]
  BY DEF IInv, TypeOK
<1>8. miss_slots'[pos] = -1 /\ miss_local_ids'[pos] = -1
  BY <1>1, <1>6, <1>7
<1>9. \A k \in 1 .. pos - 1 : miss_slots'[k] = miss_slots[k]
                             /\ miss_local_ids'[k] = miss_local_ids[k] /\ k # pos
  BY <1>1, <1>2, <1>6, <1>7
<1>10. HostCopies' /\ SlotsMirrorMap' /\ OneLocation'
  BY <1>1, <1>2, <1>5 DEF IInv, CacheInv, HostCopies, SlotsMirrorMap, OneLocation
<1>11. BatchResident'
  <2>1. /\ protected = Requested(ids)
        /\ \A k \in 1 .. pos - 1 : IsLocal(ids[k]) => hot_map[ids[k]] # -1
    BY <1>1 DEF IInv, CacheInv, BatchResident
  <2>2. protected' = Requested(ids)'
    BY <1>1, <1>2, <2>1 DEF Requested
  <2> QED BY <1>1, <1>2, <1>3, <1>4, <2>1, <2>2 DEF BatchResident
<1>12. SlotBytes'
  <2>1. ASSUME NEW t \in Tensors, NEW s \in Slots, Pending(t, s)
        PROVE  Pending(t, s)'
    <3>1. PICK k \in 1 .. pos - 1 : k \in Missed(s)
      BY <2>1 DEF Pending
    <3>2. k \in Missed(s)'
      BY <1>2, <1>9, <3>1 DEF Missed
    <3> QED BY <1>1, <1>2, <3>1, <3>2 DEF Pending
  <2>2. \A t \in Tensors, s \in Slots :
          Pending(t, s)' \/ rows'[t][s] = OrigMap[slot_global_ids'[s]]
    BY <1>1, <2>1 DEF IInv, CacheInv, SlotBytes
  <2>3. \A k \in 1 .. pos - 1 :
          IF miss_slots'[k] = -1 THEN miss_local_ids'[k] = -1
          ELSE /\ slot_global_ids'[miss_slots'[k]] = ids'[k]
               /\ miss_local_ids'[k] = cold_map'[ids'[k]]
    BY <1>1, <1>9 DEF IInv, CacheInv, SlotBytes
  <2> QED BY <1>1, <1>2, <1>8, <2>2, <2>3 DEF SlotBytes
<1>13. KernelInv'
  <2>1. /\ \A s \in Slots : slot_ages[s] \in Int /\ slot_ages[s] <= clock + pos - 1
        /\ slot_ages \in [Slots -> -HalfInt .. HalfInt - 1]
    BY <1>1 DEF IInv, KernelInv, TypeOK
  <2>2. /\ clock \in 0 .. HalfInt - 1 /\ Len(ids) \in Nat
        /\ Len(ids) <= MissRows /\ Len(ids) <= cap
        /\ clock + Len(ids) <= ClockLimit
    BY <1>1 DEF IInv, KernelInv, TypeOK
  <2>3. pos' \in 1 .. Len(ids') + 1
    BY <1>1, <1>2, <2>2 DEF Requests
  <2>4. NewAge = clock + pos
    <3>1. clock + pos \in 0 .. HalfInt - 1
      BY <1>1, <1>2, <2>2 DEF Requests, Sentinel
    <3> QED BY <3>1, Int32Range DEF NewAge
  <2>5. \A s \in Slots : slot_ages'[s] <= clock' + pos' - 1
    BY <1>1, <1>2, <1>3, <2>1, <2>2, <2>4
  <2>6. \A k \in Requests : IsLocal(ids[k]) =>
          \/ launch_map[ids[k]] = hot_map[ids[k]]
          \/ launch_map[ids[k]] = -1 /\ \E j \in 1 .. pos' - 1 : ids[j] = ids[k]
    BY <1>1, <1>2 DEF IInv, KernelInv
  <2> QED BY <1>1, <1>2, <2>2, <2>3, <2>5, <2>6 DEF KernelInv
<1> QED BY <1>10, <1>11, <1>12, <1>13 DEF CacheInv

(* The heart of the argument: the victim of a miss is no expert of the     *)
(* batch, so nothing the batch relies on loses its slot or its entry.      *)
LEMMA MissKeepsInv ==
  ASSUME IInv, ClockLimit <= Sentinel, RequestMiss
  PROVE  CacheInv' /\ KernelInv'
<1> DEFINE g == ids[pos]
           slot == Victim
           old == slot_global_ids[slot]
<1>1. /\ pc = "update" /\ pos \in Requests /\ pos' = pos + 1
      /\ UNCHANGED <<cap, cold_map, clock, rows, pc, ids, launch_map, todo>>
      /\ IsLocal(g) /\ g \in Global
      /\ ~AppearedBefore(pos) /\ -1 \in CacheSlot(g)
  BY DEF RequestMiss, NextRequest, IsLocal
<1>2. /\ hot_map' = [hot_map EXCEPT ![g] = slot, ![old] = -1]
      /\ rot_map' = [rot_map EXCEPT ![g] = slot, ![old] = cold_map[old]]
      /\ slot_global_ids' = [slot_global_ids EXCEPT ![slot] = g]
      /\ slot_ages' = [slot_ages EXCEPT ![slot] = NewAge]
      /\ protected' = protected \cup {slot}
      /\ miss_local_ids' = [miss_local_ids EXCEPT ![pos] = cold_map[g]]
      /\ miss_slots' = [miss_slots EXCEPT ![pos] = slot]
  BY DEF RequestMiss, AfterEviction
<1>3. Slots' = Slots /\ Requests' = Requests /\ pos \in Nat \ {0}
      /\ 1 .. pos' - 1 = (1 .. pos - 1) \cup {pos}
  <2>1. Slots' = Slots /\ Requests' = Requests
    BY <1>1 DEF Slots, Requests
  <2>2. pos \in Nat \ {0} /\ pos' = pos + 1
    BY <1>1 DEF Requests
  <2>3. 1 .. pos' - 1 = (1 .. pos - 1) \cup {pos}
    BY <2>2
  <2> QED BY <2>1, <2>2, <2>3
<1>4. hot_map[g] = -1 /\ launch_map[g] = -1
  BY <1>1 DEF CacheSlot, AppearedBefore, IInv, KernelInv
<1>5. -1 \notin Slots
  BY DEF Slots
<1>6. \A s \in Slots : slot_global_ids[s] # g
  BY <1>4, <1>5 DEF IInv, CacheInv, SlotsMirrorMap
<1>7. slot \in Slots /\ slot \notin protected
  BY <1>1, <1>6, VictimUnprotected
<1>8. /\ \A s \in Slots : slot_global_ids[s] \in Global
      /\ old # g /\ old \in Global /\ hot_map[old] = slot
  BY <1>6, <1>7 DEF IInv, TypeOK, CacheInv, SlotsMirrorMap
<1>9. protected = Requested(ids) /\ DOMAIN ids = Requests
  BY <1>1 DEF IInv, TypeOK, CacheInv, BatchResident, Requests
<1>10. \A k \in Requests : ids[k] # old
  BY <1>7, <1>9 DEF Requested
<1> HIDE DEF g, slot, old
<1>11. /\ hot_map'[g] = slot /\ hot_map'[old] = -1
       /\ \A x \in Global : x # g /\ x # old => hot_map'[x] = hot_map[x]
  <2>1. hot_map \in [Global -> Slots \cup {-1}]
    BY DEF IInv, TypeOK
  <2> QED BY <1>1, <1>2, <1>8, <2>1
<1>12. /\ rot_map'[g] = slot /\ rot_map'[old] = cold_map[old]
       /\ \A x \in Global : x # g /\ x # old => rot_map'[x] = rot_map[x]
  <2>1. rot_map \in [Global -> -1 .. cap + NumLocal - 1]
    BY DEF IInv, TypeOK
  <2> QED BY <1>1, <1>2, <1>8, <2>1
<1>13. /\ slot_global_ids'[slot] = g
       /\ \A s \in Slots : s # slot => slot_global_ids'[s] = slot_global_ids[s]
  <2>1. slot_global_ids \in [Slots -> {x \in Global : IsLocal(x)}]
    BY DEF IInv, TypeOK
  <2> QED BY <1>2, <1>7, <2>1
<1>14. slot_global_ids[slot] = old
  BY DEF old
<1>15. /\ miss_slots'[pos] = slot /\ miss_local_ids'[pos] = cold_map[g]
       /\ \A k \in 1 .. pos - 1 : miss_slots'[k] = miss_slots[k]
                                  /\ miss_local_ids'[k] = miss_local_ids[k]
  <2>1. pos \in 1 .. MissRows
    BY <1>1, RequestHasEntry
  <2>2. /\ miss_local_ids \in [1 .. MissRows -> Int]
        /\ miss_slots \in [1 .. MissRows -> Slots \cup {-1}]
    BY DEF IInv, TypeOK
  <2>3. \A k \in 1 .. pos - 1 : k \in 1 .. MissRows
    BY <1>1, RequestHasEntry
  <2>4. \A k \in 1 .. pos - 1 : k # pos
    BY <1>3
  <2> QED BY <1>2, <2>1, <2>2, <2>3, <2>4
<1>16. HostCopies'
  BY <1>1 DEF IInv, CacheInv, HostCopies
<1>17. SlotsMirrorMap'
  <2>1. \A s \in Slots : hot_map[slot_global_ids[s]] = s
    BY DEF IInv, CacheInv, SlotsMirrorMap
  <2>2. \A x \in Global : hot_map[x] # -1 => slot_global_ids[hot_map[x]] = x
    BY DEF IInv, CacheInv, SlotsMirrorMap
  <2>3. ASSUME NEW s \in Slots PROVE hot_map'[slot_global_ids'[s]] = s
    <3>1. CASE s = slot
      BY <1>11, <1>13, <3>1
    <3>2. CASE s # slot
      <4>1. slot_global_ids[s] # g /\ slot_global_ids[s] # old
        BY <1>6, <1>8, <2>1, <3>2
      <4> QED BY <1>8, <1>11, <1>13, <2>1, <3>2, <4>1
    <3> QED BY <3>1, <3>2
  <2>4. ASSUME NEW x \in Global, hot_map'[x] # -1
        PROVE  slot_global_ids'[hot_map'[x]] = x
    <3>1. CASE x = g
      BY <1>11, <1>13, <3>1
    <3>2. CASE x # g
      <4>1. x # old
        BY <1>11, <2>4
      <4>2. hot_map'[x] = hot_map[x] /\ slot_global_ids[hot_map[x]] = x
        BY <1>11, <2>2, <2>4, <3>2, <4>1
      <4>3. hot_map[x] # slot
        BY <1>14, <4>1, <4>2
      <4>4. hot_map[x] \in Slots
        BY <2>4, <4>2 DEF IInv, TypeOK
      <4> QED BY <1>13, <4>2, <4>3, <4>4
    <3> QED BY <3>1, <3>2
  <2> QED BY <1>3, <2>3, <2>4 DEF SlotsMirrorMap
<1>18. OneLocation'
  <2>1. ASSUME NEW x \in Global
        PROVE  rot_map'[x] = IF hot_map'[x] # -1 THEN hot_map'[x] ELSE cold_map'[x]
    <3>1. CASE x = g
      BY <1>5, <1>7, <1>11, <1>12, <3>1
    <3>2. CASE x = old
      BY <1>1, <1>11, <1>12, <3>2
    <3>3. CASE x # g /\ x # old
      BY <1>1, <1>11, <1>12, <3>3 DEF IInv, CacheInv, OneLocation
    <3> QED BY <3>1, <3>2, <3>3
  <2> QED BY <2>1 DEF OneLocation
<1>19. BatchResident'
  <2>1. protected' = Requested(ids)'
    <3>1. ids[pos] = g /\ pos \in DOMAIN ids
      BY <1>1, <1>9 DEF g
    <3>2. \A s \in Slots : s \in Requested(ids)' <=>
            \E k \in DOMAIN ids : slot_global_ids'[s] = ids[k]
      BY <1>1, <1>3 DEF Requested
    <3>3. \A s \in Slots : s \in protected' <=> s = slot \/ s \in Requested(ids)
      BY <1>2, <1>9
    <3>4. \A s \in Slots : s \in protected' <=> s \in Requested(ids)'
      BY <1>13, <3>1, <3>2, <3>3 DEF Requested
    <3>5. protected' \subseteq Slots /\ Requested(ids)' \subseteq Slots
      BY <1>2, <1>3, <1>7, <1>9 DEF Requested
    <3> QED BY <3>4, <3>5
  <2>2. ASSUME NEW k \in 1 .. pos' - 1, IsLocal(ids[k])
        PROVE  hot_map'[ids[k]] # -1
    <3>1. CASE ids[k] = g
      BY <1>5, <1>7, <1>11, <3>1
    <3>2. CASE ids[k] # g
      <4>1. k \in 1 .. pos - 1
        BY <1>3, <3>2 DEF g
      <4>2. k \in Requests
        BY <1>1, <1>3, <4>1 DEF Requests
      <4>3. hot_map[ids[k]] # -1
        BY <1>1, <2>2, <4>1 DEF IInv, CacheInv, BatchResident
      <4>4. ids[k] \in Global /\ ids[k] # old
        BY <1>10, <2>2, <4>2 DEF IsLocal
      <4> QED BY <1>11, <3>2, <4>3, <4>4
    <3> QED BY <3>1, <3>2
  <2> QED BY <1>1, <2>1, <2>2 DEF BatchResident
<1>20. SlotBytes'
  <2>1. \A k \in 1 .. pos - 1 : k \in Requests
    BY <1>1, <1>3 DEF Requests
  <2>2. \A k \in 1 .. pos - 1 : miss_slots[k] # -1 =>
          /\ miss_slots[k] \in Slots /\ miss_slots[k] # slot
          /\ slot_global_ids[miss_slots[k]] = ids[k]
          /\ miss_local_ids[k] = cold_map[ids[k]]
    <3>1. ASSUME NEW k \in 1 .. pos - 1, miss_slots[k] # -1
          PROVE  /\ miss_slots[k] \in Slots
                 /\ slot_global_ids[miss_slots[k]] = ids[k]
                 /\ miss_local_ids[k] = cold_map[ids[k]]
      <4>1. k \in 1 .. MissRows
        BY <1>1, RequestHasEntry
      <4>2. miss_slots \in [1 .. MissRows -> Slots \cup {-1}]
        BY DEF IInv, TypeOK
      <4> QED BY <1>1, <3>1, <4>1, <4>2 DEF IInv, CacheInv, SlotBytes
    <3> QED BY <1>10, <1>14, <2>1, <3>1
  <2>3. ASSUME NEW t \in Tensors, NEW s \in Slots
        PROVE  Pending(t, s)' \/ rows'[t][s] = OrigMap[slot_global_ids'[s]]
    <3>1. CASE s = slot
      <4>1. cold_map[g] \in cap .. cap + NumLocal - 1 /\ cap \in Nat
        BY <1>1 DEF IInv, TypeOK, CacheInv, HostCopies
      <4>2. pos \in Missed(s)'
        BY <1>1, <1>3, <1>15, <3>1, <4>1 DEF Missed
      <4> QED BY <1>1, <1>3, <4>2 DEF Pending
    <3>2. CASE s # slot
      <4>1. ASSUME Pending(t, s) PROVE Pending(t, s)'
        <5>1. PICK k \in 1 .. pos - 1 : k \in Missed(s)
          BY <4>1 DEF Pending
        <5>2. k \in Missed(s)'
          BY <1>3, <1>15, <5>1 DEF Missed
        <5> QED BY <1>1, <1>3, <5>1, <5>2 DEF Pending
      <4> QED BY <1>1, <1>13, <3>2, <4>1 DEF IInv, CacheInv, SlotBytes
    <3> QED BY <3>1, <3>2
  <2>4. ASSUME NEW k \in 1 .. pos' - 1
        PROVE  IF miss_slots'[k] = -1 THEN miss_local_ids'[k] = -1
               ELSE /\ slot_global_ids'[miss_slots'[k]] = ids'[k]
                    /\ miss_local_ids'[k] = cold_map'[ids'[k]]
    <3>1. CASE k = pos
      BY <1>1, <1>5, <1>7, <1>13, <1>15, <3>1 DEF g
    <3>2. CASE k \in 1 .. pos - 1
      <4>1. miss_slots[k] = -1 => miss_local_ids[k] = -1
        BY <1>1, <3>2 DEF IInv, CacheInv, SlotBytes
      <4> QED BY <1>1, <1>13, <1>15, <2>2, <3>2, <4>1
    <3> QED BY <1>3, <3>1, <3>2
  <2> QED BY <1>1, <1>3, <2>3, <2>4 DEF SlotBytes
<1>21. KernelInv'
  <2>1. /\ \A s \in Slots : slot_ages[s] \in Int /\ slot_ages[s] <= clock + pos - 1
        /\ slot_ages \in [Slots -> -HalfInt .. HalfInt - 1]
    BY <1>1 DEF IInv, KernelInv, TypeOK
  <2>2. /\ clock \in 0 .. HalfInt - 1 /\ Len(ids) \in Nat
        /\ Len(ids) <= MissRows /\ Len(ids) <= cap
        /\ clock + Len(ids) <= ClockLimit
    BY <1>1 DEF IInv, KernelInv, TypeOK
  <2>3. pos' \in 1 .. Len(ids') + 1
    BY <1>1, <1>3, <2>2 DEF Requests
  <2>4. NewAge = clock + pos
    <3>1. clock + pos \in 0 .. HalfInt - 1
      BY <1>1, <1>3, <2>2 DEF Requests, Sentinel
    <3> QED BY <3>1, Int32Range DEF NewAge
  <2>5. \A s \in Slots : slot_ages'[s] <= clock' + pos' - 1
    <3> SUFFICES ASSUME NEW s \in Slots PROVE slot_ages'[s] <= clock' + pos' - 1
      BY <1>3
    <3>1. clock \in Int /\ pos \in Int /\ clock' = clock /\ pos' = pos + 1
      BY <1>1, <1>3, <2>2
    <3>2. CASE s = slot
      BY <1>2, <1>7, <2>1, <2>4, <3>1, <3>2
    <3>3. CASE s # slot
      <4>1. slot_ages'[s] = slot_ages[s]
        BY <1>2, <1>7, <2>1, <3>3
      <4> QED BY <2>1, <3>1, <4>1
    <3> QED BY <3>2, <3>3
  <2>6. ASSUME NEW k \in Requests, IsLocal(ids[k])
        PROVE  \/ launch_map[ids[k]] = hot_map'[ids[k]]
               \/ launch_map[ids[k]] = -1 /\ \E j \in 1 .. pos' - 1 : ids[j] = ids[k]
    <3>1. CASE ids[k] = g
      BY <1>3, <1>4, <3>1 DEF g
    <3>2. CASE ids[k] # g
      <4>1. hot_map'[ids[k]] = hot_map[ids[k]]
        BY <1>10, <1>11, <2>6, <3>2 DEF IsLocal
      <4> QED BY <1>1, <1>3, <2>6, <4>1 DEF IInv, KernelInv
    <3> QED BY <3>1, <3>2
  <2> QED BY <1>1, <1>3, <2>2, <2>3, <2>5, <2>6 DEF KernelInv
<1> QED BY <1>16, <1>17, <1>18, <1>19, <1>20, <1>21 DEF CacheInv
-----------------------------------------------------------------------------
(* The steps around the kernel's loop. *)

LEMMA RouteKeepsInv ==
  ASSUME IInv, RouteDecode
  PROVE  CacheInv' /\ KernelInv'
<1>1. PICK n \in 1 .. MaxBatch : \E batch \in [1 .. n * TopK -> Ids] :
        /\ ~TakesPlainPath(n, batch) /\ clock + Len(batch) <= ClockLimit
        /\ ids' = batch /\ protected' = Requested(batch)
  BY DEF RouteDecode
<1>2. /\ pc = "idle" /\ pc' = "update" /\ pos' = 1 /\ launch_map' = hot_map
      /\ UNCHANGED <<cap, cold_map, hot_map, rot_map, slot_global_ids, slot_ages,
                     clock, miss_local_ids, miss_slots, rows, todo>>
  BY DEF RouteDecode, maps, slots, misses
<1>3. ids' \in Seq(Ids) /\ pos' = 1 /\ 1 .. pos' - 1 = {}
  <2>1. TypeOK'
    BY TypeNext DEF IInv, Next
  <2> QED BY <1>2, <2>1 DEF TypeOK
<1>4. Slots' = Slots
  BY <1>2 DEF Slots
<1>5. HostCopies' /\ SlotsMirrorMap' /\ OneLocation'
  BY <1>2, <1>4 DEF IInv, CacheInv, HostCopies, SlotsMirrorMap, OneLocation
<1>6. BatchResident'
  <2>1. protected' = Requested(ids)'
    <3>1. protected' = Requested(ids')
      BY <1>1
    <3> QED BY <1>2, <1>4, <3>1 DEF Requested
  <2> QED BY <1>3, <2>1 DEF BatchResident
<1>7. SlotBytes'
  <2>1. \A t \in Tensors, s \in Slots : rows[t][s] = OrigMap[slot_global_ids[s]]
    BY <1>2 DEF IInv, CacheInv, SlotBytes, Pending
  <2> QED BY <1>2, <1>3, <1>4, <2>1 DEF SlotBytes
<1>8. KernelInv'
  <2>1. /\ clock \in 0 .. HalfInt - 1
        /\ \A s \in Slots : slot_ages[s] \in Int /\ slot_ages[s] <= clock
    BY <1>2 DEF IInv, KernelInv, TypeOK
  <2>2. Len(ids') \in Nat
    BY <1>3
  <2>3. cap \in Nat /\ MissRows \in Nat
    BY DEF IInv, TypeOK, MissRows
  <2>4. Len(ids') <= MissRows /\ Len(ids') <= cap /\ clock + Len(ids') <= ClockLimit
    <3>1. ~(Len(ids') > MissRows) /\ ~(Len(ids') > cap) /\ clock + Len(ids') <= ClockLimit
      BY <1>1 DEF TakesPlainPath
    <3> HIDE DEF MissRows
    <3> QED BY <2>2, <2>3, <3>1
  <2>5. \A s \in Slots : slot_ages'[s] <= clock' + pos' - 1
    BY <1>2, <2>1
  <2> QED BY <1>2, <1>4, <2>1, <2>2, <2>4, <2>5 DEF KernelInv
<1> QED BY <1>5, <1>6, <1>7, <1>8 DEF CacheInv

LEMMA DoneKeepsInv ==
  ASSUME IInv, ClockLimit <= Sentinel, UpdateDone
  PROVE  CacheInv' /\ KernelInv'
<1>1. /\ pc = "update" /\ pc' = "gather" /\ todo' = Tensors
      /\ pos = Len(ids) + 1 /\ clock' = ToInt32(clock + Len(ids))
      /\ UNCHANGED <<cap, cold_map, hot_map, rot_map, slot_global_ids, slot_ages,
                     miss_local_ids, miss_slots, rows, ids, pos, protected>>
  BY DEF UpdateDone, maps, slots, misses
<1>2. Slots' = Slots /\ Requests' = Requests /\ MissRows' = MissRows
  BY <1>1 DEF Slots, Requests, MissRows
<1>3. HostCopies' /\ SlotsMirrorMap' /\ OneLocation' /\ BatchResident'
  BY <1>1, <1>2 DEF IInv, CacheInv, HostCopies, SlotsMirrorMap, OneLocation,
                    BatchResident, Requested
<1>4. SlotBytes'
  <2>1. ASSUME NEW t \in Tensors, NEW s \in Slots, Pending(t, s)
        PROVE  Pending(t, s)'
    BY <1>1, <1>2, <2>1 DEF Pending, Missed
  <2> QED BY <1>1, <1>2, <2>1 DEF IInv, CacheInv, SlotBytes
<1>5. KernelInv'
  <2>1. /\ clock \in 0 .. HalfInt - 1 /\ Len(ids) \in Nat
        /\ clock + Len(ids) <= ClockLimit /\ Len(ids) <= MissRows
        /\ \A s \in Slots : slot_ages[s] \in Int /\ slot_ages[s] <= clock + pos - 1
    BY <1>1 DEF IInv, KernelInv, TypeOK
  <2>2. clock + Len(ids) \in 0 .. HalfInt - 1
    BY <2>1 DEF Sentinel
  <2>3. clock' = clock + Len(ids)
    BY <1>1, <2>2, Int32Range
  <2>4. \A s \in Slots : slot_ages'[s] <= clock'
    BY <1>1, <2>1, <2>3
  <2> QED BY <1>1, <1>2, <2>1, <2>2, <2>3, <2>4 DEF KernelInv
<1> QED BY <1>3, <1>4, <1>5 DEF CacheInv

(* A gather writes slots only, and only with the host row of the occupant. *)
LEMMA GatherKeepsInv ==
  ASSUME IInv, Gather
  PROVE  CacheInv' /\ KernelInv'
<1>1. PICK t \in todo, after \in [Slots -> Local] :
        /\ Gathered(rows[t], after)
        /\ rows' = [rows EXCEPT ![t] = [r \in DOMAIN rows[t] |->
                       IF r \in Slots THEN after[r] ELSE rows[t][r]]]
        /\ todo' = todo \ {t}
  BY DEF Gather
<1>2. /\ pc = "gather"
      /\ UNCHANGED <<cap, cold_map, hot_map, rot_map, slot_global_ids, slot_ages,
                     clock, miss_local_ids, miss_slots, pc, ids, pos, launch_map,
                     protected>>
  BY DEF Gather, maps, slots, misses
<1>3. Slots' = Slots /\ Requests' = Requests
  BY <1>2 DEF Slots, Requests
<1>4. /\ rows \in [Tensors -> [0 .. cap + NumLocal - 1 -> Local]]
      /\ todo \subseteq Tensors /\ cap \in Nat /\ NumLocal \in Nat
      /\ slot_global_ids \in [Slots -> {x \in Global : IsLocal(x)}]
  BY DEF IInv, TypeOK
<1>5. \A s \in Slots : s \in 0 .. cap + NumLocal - 1
  BY <1>4 DEF Slots
<1>6. /\ \A s \in Slots : rows'[t][s] = after[s]
      /\ \A r \in 0 .. cap + NumLocal - 1 : r \notin Slots => rows'[t][r] = rows[t][r]
      /\ \A u \in Tensors : u # t => rows'[u] = rows[u]
  BY <1>1, <1>4, <1>5
<1>7. HostCopies'
  <2>1. ASSUME NEW x \in Global, IsLocal(x)
        PROVE  /\ cold_map'[x] \in cap' .. cap' + NumLocal - 1
               /\ \A u \in Tensors : rows'[u][cold_map'[x]] = OrigMap[x]
    <3>1. /\ cold_map[x] \in cap .. cap + NumLocal - 1
          /\ \A u \in Tensors : rows[u][cold_map[x]] = OrigMap[x]
      BY <2>1 DEF IInv, CacheInv, HostCopies
    <3>2. cold_map[x] \in 0 .. cap + NumLocal - 1 /\ cold_map[x] \notin Slots
      BY <1>4, <3>1 DEF Slots
    <3> QED BY <1>2, <1>6, <3>1, <3>2
  <2>2. ASSUME NEW x \in Global, ~IsLocal(x)
        PROVE  cold_map'[x] = -1
    BY <1>2, <2>2 DEF IInv, CacheInv, HostCopies
  <2> QED BY <2>1, <2>2 DEF HostCopies
<1>8. SlotsMirrorMap' /\ OneLocation' /\ BatchResident'
  BY <1>2, <1>3 DEF IInv, CacheInv, SlotsMirrorMap, OneLocation, BatchResident,
                    Requested
<1>9. \A k \in 1 .. pos - 1 :
        IF miss_slots[k] = -1 THEN miss_local_ids[k] = -1
        ELSE /\ slot_global_ids[miss_slots[k]] = ids[k]
             /\ miss_local_ids[k] = cold_map[ids[k]]
  BY <1>2 DEF IInv, CacheInv, SlotBytes
<1>10. pos = Len(ids) + 1 /\ Requests = 1 .. pos - 1
  BY <1>2 DEF IInv, KernelInv, TypeOK, Requests
<1>11. \A s \in Slots : Missed(s)' = Missed(s)
  BY <1>2, <1>3 DEF Missed
<1>12. ASSUME NEW s \in Slots
       PROVE  rows'[t][s] = OrigMap[slot_global_ids[s]]
  <2>1. CASE Missed(s) = {}
    <3>1. after[s] = rows[t][s]
      BY <1>1, <2>1 DEF Gathered
    <3>2. ~Pending(t, s)
      BY <2>1 DEF Pending
    <3> QED BY <1>1, <1>4, <1>6, <3>1, <3>2 DEF IInv, CacheInv, SlotBytes
  <2>2. CASE Missed(s) # {}
    <3>1. PICK k \in Missed(s) : after[s] = rows[t][miss_local_ids[k]]
      BY <1>1, <2>2 DEF Gathered, GatherInto
    <3>2. k \in 1 .. pos - 1 /\ miss_slots[k] = s /\ miss_slots[k] # -1
      BY <1>10, <3>1 DEF Missed, Slots
    <3>3. miss_local_ids[k] = cold_map[ids[k]] /\ slot_global_ids[s] = ids[k]
      BY <1>9, <3>2
    <3>4. ids[k] \in Global /\ IsLocal(ids[k])
      BY <1>4, <3>3
    <3> QED BY <1>1, <1>4, <1>6, <3>1, <3>3, <3>4 DEF IInv, CacheInv, HostCopies
  <2> QED BY <2>1, <2>2
<1>13. SlotBytes'
  <2>1. ASSUME NEW u \in Tensors, NEW s \in Slots
        PROVE  Pending(u, s)' \/ rows'[u][s] = OrigMap[slot_global_ids'[s]]
    <3>1. CASE u = t
      BY <1>2, <1>12, <3>1
    <3>2. CASE u # t
      <4>1. Pending(u, s) => Pending(u, s)'
        BY <1>1, <1>2, <1>11, <3>2 DEF Pending
      <4> QED BY <1>2, <1>6, <3>2, <4>1 DEF IInv, CacheInv, SlotBytes
    <3> QED BY <3>1, <3>2
  <2> QED BY <1>2, <1>3, <1>9, <2>1 DEF SlotBytes
<1>14. KernelInv'
  BY <1>2, <1>3 DEF IInv, KernelInv
<1> QED BY <1>7, <1>8, <1>13, <1>14 DEF CacheInv

(* Routing a plain batch, applying and returning touch no part of the cache. *)
LEMMA OtherStepsKeepInv ==
  ASSUME IInv, RoutePlain \/ ApplyPlain \/ ApplyDecode \/ Return \/ UNCHANGED vars
  PROVE  CacheInv' /\ KernelInv'
<1>1. CASE UNCHANGED vars
  <2>1. Slots' = Slots /\ Requests' = Requests
    BY <1>1 DEF vars, Slots, Requests
  <2> QED BY <1>1, <2>1 DEF vars, maps, slots, misses, IInv, CacheInv, KernelInv,
            HostCopies, SlotsMirrorMap, OneLocation, BatchResident, Requested,
            SlotBytes, Pending, Missed
<1>2. CASE RoutePlain \/ ApplyPlain \/ ApplyDecode \/ Return
  <2>1. /\ UNCHANGED <<cap, cold_map, hot_map, rot_map, slot_global_ids, slot_ages,
                       clock, miss_local_ids, miss_slots, rows, todo>>
        /\ pc # "update" /\ pc' \notin {"update", "gather"}
        /\ pc = "gather" => todo = {}
    BY <1>2 DEF RoutePlain, ApplyPlain, ApplyDecode, Apply, Return, maps, slots, misses
  <2>2. Slots' = Slots
    BY <2>1 DEF Slots
  <2>3. HostCopies' /\ SlotsMirrorMap' /\ OneLocation' /\ BatchResident'
    BY <2>1, <2>2 DEF IInv, CacheInv, HostCopies, SlotsMirrorMap, OneLocation,
                      BatchResident
  <2>4. \A t \in Tensors, s \in Slots : rows[t][s] = OrigMap[slot_global_ids[s]]
    BY <2>1 DEF IInv, CacheInv, SlotBytes, Pending
  <2>5. SlotBytes'
    BY <2>1, <2>2, <2>4 DEF SlotBytes
  <2>6. KernelInv'
    BY <2>1, <2>2 DEF IInv, KernelInv
  <2> QED BY <2>3, <2>5, <2>6 DEF CacheInv
<1> QED BY <1>1, <1>2

(* In every reachable state, whatever was requested, hit, missed and        *)
(* evicted before: each expert keeps its host copy, the maps agree with the *)
(* slots and with each other, a batch in progress keeps all its experts,    *)
(* and a slot holds its occupant's bytes unless a launched gather is about  *)
(* to copy them.  The clock must stay below the age of a protected slot.    *)
THEOREM CacheIsCoherent ==
  ASSUME ClockLimit <= Sentinel
  PROVE  Spec => []IInv
<1>1. Init => IInv
  BY InvInit
<1>2. IInv /\ [Next]_vars => IInv'
  <2> SUFFICES ASSUME IInv, [Next]_vars PROVE IInv'
    OBVIOUS
  <2>1. TypeOK'
    BY TypeNext DEF IInv
  <2>2. CacheInv' /\ KernelInv'
    BY NothingKeepsInv, HitKeepsInv, MissKeepsInv, RouteKeepsInv, DoneKeepsInv,
       GatherKeepsInv, OtherStepsKeepInv DEF Next
  <2> QED BY <2>1, <2>2 DEF IInv
<1> QED BY <1>1, <1>2, PTL DEF Spec

(* No iteration of the update kernel evicts an expert that its batch needs. *)
THEOREM BatchStaysResident ==
  ASSUME ClockLimit <= Sentinel
  PROVE  Spec => []BatchResident
<1>1. IInv => BatchResident
  BY DEF IInv, CacheInv
<1> QED BY <1>1, CacheIsCoherent, PTL
-----------------------------------------------------------------------------
(* The cache implements the service it is mounted under. *)

(* What the MoE kernel computes, on either path: each expert of the batch   *)
(* from its own bytes, and nothing for an expert of another rank.           *)
LEMMA AppliesOwnBytes ==
  ASSUME IInv, Tensors # {}, NEW map \in {hot_map, rot_map},
         \/ pc = "plain" /\ map = rot_map
         \/ pc = "gather" /\ todo = {} /\ map = hot_map
  PROVE  BytesServed(map) =
           [g \in {ids[k] : k \in Requests} \cap Global |->
              IF IsLocal(g) THEN {OrigMap[g]} ELSE {}]
<1>1. \A t \in Tensors, s \in Slots : rows[t][s] = OrigMap[slot_global_ids[s]]
  BY DEF IInv, CacheInv, SlotBytes, Pending
<1>2. \A g \in Global :
        /\ hot_map[g] \in Slots \cup {-1}
        /\ hot_map[g] # -1 => slot_global_ids[hot_map[g]] = g /\ IsLocal(g)
        /\ rot_map[g] = IF hot_map[g] # -1 THEN hot_map[g] ELSE cold_map[g]
        /\ IF IsLocal(g)
             THEN cold_map[g] # -1 /\ \A t \in Tensors : rows[t][cold_map[g]] = OrigMap[g]
             ELSE cold_map[g] = -1
  <2> SUFFICES ASSUME NEW g \in Global
               PROVE  /\ hot_map[g] \in Slots \cup {-1}
                      /\ hot_map[g] # -1 => slot_global_ids[hot_map[g]] = g /\ IsLocal(g)
                      /\ rot_map[g] = IF hot_map[g] # -1 THEN hot_map[g] ELSE cold_map[g]
                      /\ IF IsLocal(g)
                           THEN /\ cold_map[g] # -1
                                /\ \A t \in Tensors : rows[t][cold_map[g]] = OrigMap[g]
                           ELSE cold_map[g] = -1
    OBVIOUS
  <2>1. hot_map[g] \in Slots \cup {-1}
    BY DEF IInv, TypeOK
  <2>2. hot_map[g] # -1 => slot_global_ids[hot_map[g]] = g
    BY DEF IInv, CacheInv, SlotsMirrorMap
  <2>3. \A s \in Slots : IsLocal(slot_global_ids[s])
    BY DEF IInv, TypeOK
  <2>4. rot_map[g] = IF hot_map[g] # -1 THEN hot_map[g] ELSE cold_map[g]
    BY DEF IInv, CacheInv, OneLocation
  <2>5. cap \in Nat /\ \A x \in cap .. cap + NumLocal - 1 : x # -1
    BY DEF IInv, TypeOK
  <2>6. IF IsLocal(g)
          THEN cold_map[g] # -1 /\ \A t \in Tensors : rows[t][cold_map[g]] = OrigMap[g]
          ELSE cold_map[g] = -1
    BY <2>5 DEF IInv, CacheInv, HostCopies
  <2> QED BY <2>1, <2>2, <2>3, <2>4, <2>6
<1>3. ASSUME NEW k \in Requests, ids[k] \in Global
      PROVE  (map[ids[k]] # -1) <=> IsLocal(ids[k])
  <2>1. CASE pc = "plain" /\ map = rot_map
    BY <1>2, <1>3, <2>1 DEF Slots
  <2>2. CASE pc = "gather" /\ todo = {} /\ map = hot_map
    <3>1. k \in 1 .. pos - 1
      BY <2>2 DEF IInv, KernelInv, TypeOK, Requests
    <3> QED BY <1>2, <1>3, <2>2, <3>1 DEF IInv, CacheInv, BatchResident
  <2> QED BY <2>1, <2>2
<1>4. ASSUME NEW g \in Global, map[g] # -1, NEW t \in Tensors
      PROVE  rows[t][map[g]] = OrigMap[g]
  <2>1. CASE hot_map[g] # -1
    BY <1>1, <1>2, <1>4, <2>1
  <2>2. CASE hot_map[g] = -1
    BY <1>2, <1>4, <2>2
  <2> QED BY <2>1, <2>2
<1>5. ASSUME NEW g \in {ids[k] : k \in Requests} \cap Global
      PROVE  (IF map[g] = -1 THEN {} ELSE {rows[t][map[g]] : t \in Tensors})
               = IF IsLocal(g) THEN {OrigMap[g]} ELSE {}
  <2>1. CASE map[g] = -1
    BY <1>3, <2>1
  <2>2. CASE map[g] # -1
    BY <1>3, <1>4, <2>2
  <2> QED BY <2>1, <2>2
<1> QED BY <1>5 DEF BytesServed

(* Every step of the cache is a step of the service or a stutter: a batch   *)
(* is accepted, answered from its experts' own bytes, and returned.         *)
LEMMA StepImplementsService ==
  ASSUME IInv, Tensors # {}, [Next]_vars
  PROVE  [Service!Next]_(Service!service)
<1> DEFINE phase == CASE pc = "idle" -> "idle" [] pc = "done" -> "answered"
                      [] OTHER -> "busy"
           batch == {ids[k] : k \in Requests} \cap Global
           own   == [g \in Global |-> IF IsLocal(g) THEN {OrigMap[g]} ELSE {}]
<1> USE DEF Service!Next, Service!service, Service!Accept, Service!Answer, Service!Return
<1>1. CASE RoutePlain \/ RouteDecode
  <2>1. phase = "idle" /\ phase' = "busy" /\ served' = served
    BY <1>1 DEF RoutePlain, RouteDecode
  <2>2. batch' \in SUBSET Global
    OBVIOUS
  <2> QED BY <2>1, <2>2
<1>2. CASE ApplyPlain \/ ApplyDecode
  <2>1. phase = "busy" /\ phase' = "answered" /\ batch' = batch
    BY <1>2 DEF ApplyPlain, ApplyDecode, Apply, Requests
  <2>2. served' = [g \in batch |-> IF IsLocal(g) THEN {OrigMap[g]} ELSE {}]
    BY <1>2, AppliesOwnBytes DEF ApplyPlain, ApplyDecode, Apply
  <2>3. served' = [g \in batch |-> own[g]]
    BY <2>2
  <2> QED BY <2>1, <2>3
<1>3. CASE Return
  <2>1. phase = "answered" /\ phase' = "idle" /\ served' = <<>> /\ ids' = <<>>
    BY <1>3 DEF Return
  <2>2. batch' = {}
    BY <2>1 DEF Requests
  <2> QED BY <2>1, <2>2
<1>4. CASE RequestNothing \/ RequestHit \/ RequestMiss \/ UpdateDone \/ Gather
  BY <1>4 DEF RequestNothing, RequestHit, RequestMiss, NextRequest, UpdateDone,
              Gather, Requests
<1>5. CASE UNCHANGED vars
  BY <1>5 DEF vars, Requests
<1> QED BY <1>1, <1>2, <1>3, <1>4, <1>5 DEF Next

(* Safety of the refinement ServesOwnBytes: whatever the history of         *)
(* rotations, no batch is answered from bytes of another expert, on either  *)
(* path.  (That every batch is answered is liveness, and left to TLC.)      *)
THEOREM ImplementsService ==
  ASSUME ClockLimit <= Sentinel, Tensors # {}
  PROVE  Spec => Service!Init /\ [][Service!Next]_(Service!service)
<1>1. Init => Service!Init
  BY DEF Init, Service!Init, Requests
<1>2. IInv /\ [Next]_vars => [Service!Next]_(Service!service)
  BY StepImplementsService
<1>3. Spec => []IInv
  BY CacheIsCoherent
<1> QED BY <1>1, <1>2, <1>3, PTL DEF Spec
-----------------------------------------------------------------------------
(* Recency. *)

(* The order of the ages is the order of the uses: an older slot was not    *)
(* used later.  What the batch in the kernel has handled so far was used    *)
(* by it, which the pairs of a repeated id need: its age is not renewed.    *)
AgesFollowUses ==
  /\ batches \in Nat /\ used \in [Slots -> Int]
  /\ \A s \in Slots : used[s] <= batches
  /\ \A s, x \in Slots : slot_ages[s] <= slot_ages[x] => used[s] <= used[x]
  /\ pc = "update" =>
       \A k \in 1 .. pos - 1 : IsLocal(ids[k]) => used[hot_map[ids[k]]] = batches

LEMMA RecencyHolds == RecencyInit => AgesFollowUses
<1> SUFFICES ASSUME RecencyInit PROVE AgesFollowUses
  OBVIOUS
<1>1. cap \in Int
  BY InvInit DEF RecencyInit, IInv, TypeOK
<1>2. batches = 0 /\ used = [s \in Slots |-> -s] /\ pc = "idle"
  BY DEF RecencyInit, Init
<1>3. slot_ages = [s \in Slots |-> cap - s]
  BY DEF RecencyInit, Init, Installed
<1>4. \A s \in Slots : s \in Nat
  BY <1>1 DEF Slots
<1>5. used \in [Slots -> Int] /\ \A s \in Slots : used[s] <= batches
  BY <1>2, <1>4
<1>6. \A s, x \in Slots : slot_ages[s] <= slot_ages[x] => used[s] <= used[x]
  BY <1>1, <1>2, <1>3, <1>4
<1> QED BY <1>2, <1>5, <1>6 DEF AgesFollowUses

(* The age a request gives a slot is above every other slot's. *)
LEMMA NewestAge ==
  ASSUME IInv, ClockLimit <= Sentinel, pc = "update", pos \in Requests
  PROVE  /\ NewAge \in Int
         /\ \A s \in Slots : slot_ages[s] \in Int /\ slot_ages[s] < NewAge
<1>1. /\ clock \in 0 .. HalfInt - 1 /\ Len(ids) \in Nat /\ clock + Len(ids) <= ClockLimit
      /\ \A s \in Slots : slot_ages[s] \in Int /\ slot_ages[s] <= clock + pos - 1
  BY DEF IInv, KernelInv, TypeOK
<1>2. pos \in 1 .. Len(ids)
  BY DEF Requests
<1>3. clock + pos \in 0 .. HalfInt - 1
  BY <1>1, <1>2, CacheAssumption DEF Sentinel
<1>4. NewAge = clock + pos
  BY <1>3, Int32Range DEF NewAge
<1> QED BY <1>1, <1>2, <1>4

(* A slot that becomes the newest and the latest used keeps the two orders  *)
(* together.                                                                *)
LEMMA NewestIsLatest ==
  ASSUME IInv, ClockLimit <= Sentinel, pc = "update", pos \in Requests, AgesFollowUses,
         NEW slot \in Slots,
         slot_ages' = [slot_ages EXCEPT ![slot] = NewAge],
         used' = [s \in Slots |-> IF s \in {slot} THEN batches ELSE used[s]],
         batches' = batches, cap' = cap
  PROVE  /\ batches' \in Nat /\ used' \in [Slots' -> Int]
         /\ \A s \in Slots' : used'[s] <= batches'
         /\ \A s, x \in Slots' : slot_ages'[s] <= slot_ages'[x] => used'[s] <= used'[x]
<1>1. Slots' = Slots
  BY DEF Slots
<1>2. /\ batches \in Nat /\ used \in [Slots -> Int]
      /\ \A s \in Slots : used[s] <= batches
      /\ \A s, x \in Slots : slot_ages[s] <= slot_ages[x] => used[s] <= used[x]
  BY DEF AgesFollowUses
<1>3. /\ used'[slot] = batches
      /\ \A s \in Slots : s # slot => used'[s] = used[s]
  OBVIOUS
<1>4. /\ slot_ages'[slot] = NewAge
      /\ \A s \in Slots : s # slot => slot_ages'[s] = slot_ages[s]
  BY DEF IInv, TypeOK
<1>5. NewAge \in Int /\ \A s \in Slots : slot_ages[s] \in Int /\ slot_ages[s] < NewAge
  BY NewestAge
<1>6. used' \in [Slots -> Int] /\ \A s \in Slots : used'[s] <= batches
  BY <1>2, <1>3
<1>7. ASSUME NEW s \in Slots, NEW x \in Slots, slot_ages'[s] <= slot_ages'[x]
      PROVE  used'[s] <= used'[x]
  <2>1. CASE x = slot
    BY <1>2, <1>3, <1>6, <2>1
  <2>2. CASE x # slot
    <3>1. s # slot
      BY <1>4, <1>5, <1>7, <2>2
    <3> QED BY <1>2, <1>3, <1>4, <1>7, <2>2, <3>1
  <2> QED BY <2>1, <2>2
<1> QED BY <1>1, <1>2, <1>6, <1>7

LEMMA NothingKeepsOrder ==
  ASSUME IInv, AgesFollowUses, RequestNothing, RecencyNext
  PROVE  AgesFollowUses'
<1>1. /\ pc = "update" /\ pc' = "update" /\ pos \in Requests /\ pos' = pos + 1
      /\ UNCHANGED <<cap, ids, hot_map, slot_ages>>
      /\ IsLocal(ids[pos]) => AppearedBefore(pos)
  BY DEF RequestNothing, NextRequest, maps, slots
<1>2. Slots' = Slots /\ pos \in Nat \ {0}
  BY <1>1 DEF Slots, Requests
<1>3. /\ batches' = batches
      /\ used' = [s \in Slots |-> IF s \in Uses(ids[pos]) THEN batches ELSE used[s]]
  BY <1>1 DEF RecencyNext
<1>4. used \in [Slots -> Int] /\ batches \in Nat
      /\ \A k \in 1 .. pos - 1 : IsLocal(ids[k]) => used[hot_map[ids[k]]] = batches
  BY <1>1 DEF AgesFollowUses
<1>5. ASSUME IsLocal(ids[pos])
      PROVE  used[hot_map[ids[pos]]] = batches
  <2>1. PICK j \in 1 .. pos - 1 : ids[j] = ids[pos]
    BY <1>1, <1>5 DEF AppearedBefore
  <2> QED BY <1>4, <1>5, <2>1
<1>6. \A s \in Uses(ids[pos]) : used[s] = batches
  BY <1>1, <1>5 DEF Uses
<1>7. used' = used
  BY <1>3, <1>4, <1>6
<1>8. \A k \in 1 .. pos' - 1 : k \in 1 .. pos - 1 \/ k = pos
  BY <1>1, <1>2
<1>9. \A k \in 1 .. pos' - 1 : IsLocal(ids'[k]) => used'[hot_map'[ids'[k]]] = batches'
  BY <1>1, <1>3, <1>4, <1>5, <1>7, <1>8
<1> QED BY <1>1, <1>2, <1>3, <1>7, <1>9 DEF AgesFollowUses

LEMMA HitKeepsOrder ==
  ASSUME IInv, ClockLimit <= Sentinel, AgesFollowUses, RequestHit, RecencyNext
  PROVE  AgesFollowUses'
<1>1. /\ pc = "update" /\ pc' = "update" /\ pos \in Requests /\ pos' = pos + 1
      /\ UNCHANGED <<cap, ids, hot_map>> /\ IsLocal(ids[pos])
  BY DEF RequestHit, NextRequest
<1>2. PICK slot \in CacheSlot(ids[pos]) \ {-1} :
        slot_ages' = [slot_ages EXCEPT ![slot] = NewAge]
  BY DEF RequestHit
<1>3. slot = hot_map[ids[pos]] /\ slot \in Slots
  <2>1. slot = hot_map[ids[pos]]
    BY <1>1, <1>2 DEF CacheSlot, IInv, KernelInv
  <2>2. hot_map[ids[pos]] \in Slots \cup {-1}
    BY <1>1 DEF IInv, TypeOK, IsLocal
  <2> QED BY <1>2, <2>1, <2>2
<1>4. /\ batches' = batches
      /\ used' = [s \in Slots |-> IF s \in {slot} THEN batches ELSE used[s]]
  <2>1. Uses(ids[pos]) = {slot}
    BY <1>1, <1>3 DEF Uses
  <2>2. /\ batches' = batches
        /\ used' = [s \in Slots |-> IF s \in Uses(ids[pos]) THEN batches ELSE used[s]]
    BY <1>1 DEF RecencyNext
  <2> QED BY <2>1, <2>2
<1>5. /\ batches' \in Nat /\ used' \in [Slots' -> Int]
      /\ \A s \in Slots' : used'[s] <= batches'
      /\ \A s, x \in Slots' : slot_ages'[s] <= slot_ages'[x] => used'[s] <= used'[x]
  BY <1>1, <1>2, <1>3, <1>4, NewestIsLatest
<1>6. ASSUME NEW k \in 1 .. pos' - 1, IsLocal(ids[k])
      PROVE  used'[hot_map[ids[k]]] = batches
  <2>1. used'[slot] = batches
    BY <1>3, <1>4
  <2>2. CASE k = pos
    BY <1>3, <2>1, <2>2
  <2>3. CASE k # pos
    <3>1. k \in 1 .. pos - 1
      BY <1>1, <2>3 DEF Requests
    <3>2. used[hot_map[ids[k]]] = batches /\ hot_map[ids[k]] \in Slots
      BY <1>1, <1>6, <3>1
         DEF AgesFollowUses, IInv, CacheInv, BatchResident, TypeOK, IsLocal
    <3> QED BY <1>4, <3>2
  <2> QED BY <2>2, <2>3
<1> QED BY <1>1, <1>4, <1>5, <1>6 DEF AgesFollowUses

(* The victim of a miss: no expert of the batch has it, and of the slots no *)
(* expert of the batch has, none is older.                                  *)
LEMMA OldestIsVictim ==
  ASSUME IInv, ClockLimit <= Sentinel, RequestMiss
  PROVE  /\ Victim \in Slots /\ Victim \notin Requested(ids)
         /\ \A x \in Slots \ Requested(ids) : slot_ages[Victim] <= slot_ages[x]
<1>1. /\ pc = "update" /\ pos \in Requests
      /\ IsLocal(ids[pos]) /\ ~AppearedBefore(pos) /\ -1 \in CacheSlot(ids[pos])
  BY DEF RequestMiss, NextRequest
<1>2. hot_map[ids[pos]] = -1
  BY <1>1 DEF CacheSlot, AppearedBefore, IInv, KernelInv
<1>3. \A s \in Slots : slot_global_ids[s] # ids[pos]
  BY <1>2 DEF Slots, IInv, CacheInv, SlotsMirrorMap
<1>4. Victim \in Slots /\ Victim \notin protected /\ IsVictim(Victim)
  BY <1>1, <1>3, VictimUnprotected, VictimExists DEF IInv
<1>5. protected = Requested(ids)
  BY <1>1 DEF IInv, CacheInv, BatchResident
<1> QED BY <1>4, <1>5 DEF IsVictim, VictimAge

LEMMA MissKeepsOrder ==
  ASSUME IInv, ClockLimit <= Sentinel, AgesFollowUses, RequestMiss, RecencyNext
  PROVE  AgesFollowUses'
<1>1. /\ pc = "update" /\ pc' = "update" /\ pos \in Requests /\ pos' = pos + 1
      /\ UNCHANGED <<cap, ids>> /\ IsLocal(ids[pos]) /\ ~AppearedBefore(pos)
  BY DEF RequestMiss, NextRequest
<1>2. PICK slot, old :
        /\ slot = Victim /\ old = slot_global_ids[slot]
        /\ hot_map' = [hot_map EXCEPT ![ids[pos]] = slot, ![old] = -1]
        /\ slot_ages' = [slot_ages EXCEPT ![slot] = NewAge]
  BY DEF RequestMiss, AfterEviction
<1>3. slot \in Slots /\ slot \notin Requested(ids)
  BY <1>2, OldestIsVictim
<1>4. /\ hot_map \in [Global -> Slots \cup {-1}] /\ DOMAIN ids = Requests
      /\ \A k \in Requests : IsLocal(ids[k]) => ids[k] \in Global
  BY DEF IInv, TypeOK, Requests, IsLocal
<1>5. \A k \in Requests : ids[k] # old
  BY <1>2, <1>3, <1>4 DEF Requested
<1>6. /\ hot_map'[ids[pos]] = slot
      /\ \A k \in Requests : IsLocal(ids[k]) /\ ids[k] # ids[pos] =>
           hot_map'[ids[k]] = hot_map[ids[k]]
  BY <1>1, <1>2, <1>4, <1>5
<1>7. /\ batches' = batches
      /\ used' = [s \in Slots |-> IF s \in {slot} THEN batches ELSE used[s]]
  <2>1. Uses(ids[pos]) = {slot}
    BY <1>1, <1>6 DEF Uses
  <2>2. /\ batches' = batches
        /\ used' = [s \in Slots |-> IF s \in Uses(ids[pos]) THEN batches ELSE used[s]]
    BY <1>1 DEF RecencyNext
  <2> QED BY <2>1, <2>2
<1>8. /\ batches' \in Nat /\ used' \in [Slots' -> Int]
      /\ \A s \in Slots' : used'[s] <= batches'
      /\ \A s, x \in Slots' : slot_ages'[s] <= slot_ages'[x] => used'[s] <= used'[x]
  BY <1>1, <1>2, <1>3, <1>7, NewestIsLatest
<1>9. ASSUME NEW k \in 1 .. pos' - 1, IsLocal(ids[k])
      PROVE  used'[hot_map'[ids[k]]] = batches
  <2>1. used'[slot] = batches
    BY <1>3, <1>7
  <2>2. CASE ids[k] = ids[pos]
    BY <1>6, <2>1, <2>2
  <2>3. CASE ids[k] # ids[pos]
    <3>1. Len(ids) \in Nat /\ pos \in 1 .. Len(ids)
      BY <1>1 DEF IInv, TypeOK, Requests
    <3>2. k \in 1 .. pos - 1 /\ k \in Requests
      BY <1>1, <2>3, <3>1 DEF Requests
    <3>3. used[hot_map[ids[k]]] = batches /\ hot_map[ids[k]] \in Slots
      BY <1>1, <1>4, <1>9, <3>2 DEF AgesFollowUses, IInv, CacheInv, BatchResident
    <3>4. hot_map'[ids[k]] = hot_map[ids[k]]
      BY <1>6, <1>9, <2>3, <3>2
    <3> QED BY <1>7, <3>3, <3>4
  <2> QED BY <2>2, <2>3
<1> QED BY <1>1, <1>7, <1>8, <1>9 DEF AgesFollowUses

(* Outside the kernel's loop no slot is used; a decode batch opens a new    *)
(* number, later than every use so far.                                     *)
LEMMA OtherStepsKeepOrder ==
  ASSUME IInv, AgesFollowUses, RecencyNext,
         \/ RoutePlain \/ ApplyPlain \/ RouteDecode \/ UpdateDone
         \/ Gather \/ ApplyDecode \/ Return
  PROVE  AgesFollowUses'
<1>1. UNCHANGED <<cap, slot_ages>> /\ (pc' = "update" => RouteDecode)
      /\ (pc = "update" => UpdateDone)
  BY DEF RoutePlain, ApplyPlain, RouteDecode, UpdateDone, Gather, ApplyDecode, Apply,
         Return, slots
<1>2. Slots' = Slots
  BY <1>1 DEF Slots
<1>3. used' = used
  <2>1. CASE pc = "update"
    <3>1. pos' = pos /\ pos \in Nat
      BY <1>1, <2>1 DEF UpdateDone, IInv, TypeOK
    <3> QED BY <3>1 DEF RecencyNext
  <2>2. CASE pc # "update"
    BY <2>2 DEF RecencyNext
  <2> QED BY <2>1, <2>2
<1>4. /\ batches \in Nat /\ used \in [Slots -> Int]
      /\ \A s \in Slots : used[s] <= batches
      /\ \A s, x \in Slots : slot_ages[s] <= slot_ages[x] => used[s] <= used[x]
  BY DEF AgesFollowUses
<1>5. batches' \in {batches, batches + 1}
  BY DEF RecencyNext
<1>6. batches' \in Nat /\ \A s \in Slots : used[s] <= batches'
  BY <1>4, <1>5
<1>7. pc' = "update" => pos' = 1
  BY <1>1 DEF RouteDecode
<1> QED BY <1>1, <1>2, <1>3, <1>4, <1>6, <1>7 DEF AgesFollowUses

LEMMA StepKeepsOrder ==
  ASSUME IInv, ClockLimit <= Sentinel, AgesFollowUses, [RecencyNext]_recencyVars
  PROVE  AgesFollowUses'
<1>1. CASE RecencyNext
  BY <1>1, NothingKeepsOrder, HitKeepsOrder, MissKeepsOrder, OtherStepsKeepOrder
     DEF RecencyNext, Next
<1>2. CASE UNCHANGED recencyVars
  BY <1>2 DEF recencyVars, vars, maps, slots, AgesFollowUses, Slots
<1> QED BY <1>1, <1>2

(* Only a miss gives a slot away, and it gives away the victim. *)
LEMMA StepEvictsOldest ==
  ASSUME IInv, ClockLimit <= Sentinel, AgesFollowUses, [RecencyNext]_recencyVars,
         NEW s \in Slots, slot_global_ids'[s] # slot_global_ids[s]
  PROVE  \A x \in Slots \ Requested(ids) : used[s] <= used[x]
<1>1. RequestMiss
  BY DEF RecencyNext, recencyVars, Next, RoutePlain, ApplyPlain, RouteDecode,
         RequestNothing, RequestHit, UpdateDone, Gather, ApplyDecode, Apply, Return,
         vars, slots
<1>2. slot_global_ids' = [slot_global_ids EXCEPT ![Victim] = ids[pos]]
  BY <1>1 DEF RequestMiss
<1>3. s = Victim
  BY <1>2 DEF IInv, TypeOK
<1> QED BY <1>1, <1>3, OldestIsVictim DEF AgesFollowUses

(* The cache is least-recently-used over a history of any length: an expert *)
(* the batch does not need loses its slot only if every other such slot was *)
(* used in a decode batch at least as late.  (The clock must not wrap.)     *)
THEOREM EvictionIsLeastRecent ==
  ASSUME ClockLimit <= Sentinel
  PROVE  RecencySpec => EvictsLeastRecent
<1>1. RecencySpec => Spec
  <2>1. RecencyInit => Init
    BY DEF RecencyInit
  <2>2. [RecencyNext]_recencyVars => [Next]_vars
    BY DEF RecencyNext, recencyVars
  <2> QED BY <2>1, <2>2, PTL DEF RecencySpec, Spec
<1>2. RecencySpec => []IInv
  BY <1>1, CacheIsCoherent, PTL
<1>3. IInv /\ AgesFollowUses /\ [RecencyNext]_recencyVars => AgesFollowUses'
  BY StepKeepsOrder
<1>4. IInv /\ AgesFollowUses /\ [RecencyNext]_recencyVars =>
        [\A s \in Slots : slot_global_ids'[s] # slot_global_ids[s] =>
           \A x \in Slots \ Requested(ids) : used[s] <= used[x]]_recencyVars
  BY StepEvictsOldest
<1> QED BY <1>2, <1>3, <1>4, RecencyHolds, PTL DEF RecencySpec, EvictsLeastRecent
=============================================================================
