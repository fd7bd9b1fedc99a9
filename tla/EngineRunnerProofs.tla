------------------------- MODULE EngineRunnerProofs -------------------------
(***************************************************************************)
(* What the model runner holds of a request and what the scheduler counts, *)
(* proved to agree, for any set of requests, limits and configurations:    *)
(* RunInv follows a request through the queues and the steps in flight.    *)
(* FitInv, on top of it, keeps every step within what the runner has room  *)
(* for.                                                                    *)
(***************************************************************************)
EXTENDS EngineProofs

-----------------------------------------------------------------------------
(* What is in flight for a request, in the scheduler and in the runner. *)

(* The result of r in the k-th step in flight, if it is there. *)
Nothing == [n |-> 0, specs |-> 0, gen |-> 0, pos |-> 0]
Brought(k, r) ==
  IF k \in DOMAIN flight /\ r \in DOMAIN Items(flight[k].results)
    THEN Items(flight[k].results)[r] ELSE Nothing

(* The first one counts unless it is stale. *)
Valid(q, x) == IF q.stale = 0 THEN x ELSE Nothing

(* The tokens a result was expected to bring. *)
Expected(x) == IF x.gen = 0 THEN 0 ELSE 1 + x.specs

(* The slot s of the runner is right for the request q, once the results x  *)
(* and y in flight are applied.                                             *)
Agrees(async, q, s, x, y) ==
  /\ q.computed = s.computed + Rejected(x) + Rejected(y)
  /\ q.tokens + x.gen + y.gen = s.len
  /\ q.placeholders = IF async THEN Expected(x) + Expected(y) ELSE 0

(* A slot before and after the end of its prefill. *)
SlotIs(s, x, y) ==
  /\ s.computed \in Nat /\ s.prefill \in Nat \ {0} /\ s.len \in Nat
  /\ s.computed < s.prefill => s.len = s.prefill /\ x.gen = 0 /\ y.gen = 0
  /\ s.computed >= s.prefill => s.len = s.computed + 1

(* The drafts of a request that is not past its prefill; with one batch in  *)
(* flight its chunk says so while the batch runs.                           *)
DraftsAre(async, q, s, b1) ==
  IF async \/ b1.n = 0 THEN s.computed < s.prefill => q.specs = 0
                       ELSE q.chunk <=> s.computed < s.prefill

(* What x and y were sampled for. *)
Follows(q, x, y) ==
  /\ x.n # 0 => x.pos = q.tokens
  /\ y.n # 0 => y.pos = q.tokens + x.gen

RunsRight(async, q, s, new, b1, b2) ==
  /\ q.stale = 0 \/ (q.stale = b1.n /\ q.drop)
  /\ IF new
       THEN /\ q.placeholders = 0 /\ Valid(q, b1).n = 0 /\ b2.n = 0
            /\ async => q.specs = 0
       ELSE /\ Agrees(async, q, s, Valid(q, b1), b2)
            /\ SlotIs(s, Valid(q, b1), b2)
            /\ DraftsAre(async, q, s, b1)
            /\ Follows(q, Valid(q, b1), b2)

IdlesRight(async, q, b1, b2) ==
  /\ q.placeholders = 0
  /\ async => q.specs = 0
  /\ async /\ ~q.drop => Follows(q, b1, b2)
  /\ ~async => b1.n = 0

SignsRight(async, solo, q) ==
  /\ q.computed >= 0 /\ q.stale >= 0
  /\ solo => q.tokens >= 1
  /\ ~async => q.stale = 0

(* An item of the step being put together fits its request. *)
Fitting(q, item) ==
  \/ item.specs = 0 /\ q.computed + item.n <= q.tokens + q.placeholders
  \/ item.n = item.specs + 1 /\ q.computed + 1 = q.tokens + q.placeholders

NewIn(r) == \E i \in DOMAIN pass.items : pass.items[i].id = r /\ pass.items[i].new
Solo == conf.sessions = {}

RunFor(r) ==
  LET q == req[r] IN
  /\ q.status = "running" =>
       RunsRight(Async, q, slots[r], NewIn(r), Brought(1, r), Brought(2, r))
  /\ q.status \notin {"running"} \cup Past =>
       IdlesRight(Async, q, Brought(1, r), Brought(2, r))
  /\ q.status \notin Past => SignsRight(Async, Solo, q)

ItemsFit ==
  /\ \A i \in DOMAIN pass.items : Fitting(req[pass.items[i].id], pass.items[i])
  /\ pass.pc = "running" => \A i \in DOMAIN pass.items : ~pass.items[i].new

LoadsFit ==
  /\ \A r \in Reqs : loads[r].valid >= 0
  /\ \A k \in DOMAIN flight : \A x \in flight[k].recv : x.valid >= 0

(* A slot has these fields. *)
SlotFields == {"computed", "len", "prefill"}
SlotsMade == \A r \in DOMAIN slots : DOMAIN slots[r] = SlotFields

RunInv == (\A r \in Reqs : RunFor(r)) /\ ItemsFit /\ LoadsFit /\ SlotsMade

(* The result in flight of a request. *)
Result3(x) == x.n \in Nat /\ x.specs \in Nat /\ x.gen \in Nat /\ x.gen <= 1 + x.specs

LEMMA NothingIs == Result3(Nothing) /\ Nothing.n = 0 /\ Nothing.gen = 0 /\ Rejected(Nothing) = 0
                   /\ Expected(Nothing) = 0
BY DEF Result3, Nothing, Rejected, Expected

LEMMA BroughtIs ==
  ASSUME FlightInv, SentInv, NEW k, NEW r, NEW x, x = Brought(k, r)
  PROVE  Result3(x) /\ x.n = Share(k, r) /\ (x.n = 0 => x = Nothing)
<1>1. CASE k \notin DOMAIN flight
  BY <1>1, NothingIs DEF Share, Brought
<1>2. CASE k \in DOMAIN flight
  <2>1. PICK S : S = flight[k].results
    OBVIOUS
  <2>2. /\ \A i, j \in DOMAIN S : S[i].id = S[j].id => i = j
        /\ \A i \in DOMAIN S : S[i].n \in Nat \ {0} /\ S[i].specs \in Nat
                               /\ S[i].gen \in 0 .. 1 + S[i].specs
    BY <1>2, <2>1 DEF FlightInv, SentInv
  <2>3. /\ DOMAIN Items(S) = {S[i].id : i \in DOMAIN S}
        /\ \A i \in DOMAIN S : Items(S)[S[i].id] = S[i]
    BY <2>2, ItemsAre
  <2>4. Share(k, r) = IF r \in DOMAIN Items(S) THEN Items(S)[r].n ELSE 0
    BY <1>2, <2>1 DEF Share, ResultIn, NoResult
  <2>5. x = IF r \in DOMAIN Items(S) THEN Items(S)[r] ELSE Nothing
    BY <1>2, <2>1 DEF Brought
  <2>6. CASE r \in DOMAIN Items(S)
    <3>1. PICK i \in DOMAIN S : x = S[i]
      BY <2>3, <2>5, <2>6
    <3>2. x.n \in Nat \ {0} /\ x.specs \in Nat /\ x.gen \in 0 .. 1 + x.specs
      BY <2>2, <3>1
    <3>3. Result3(x) /\ x.n # 0
      BY <3>2 DEF Result3
    <3> QED BY <2>4, <2>5, <2>6, <3>3
  <2>7. CASE r \notin DOMAIN Items(S)
    BY <2>4, <2>5, <2>7, NothingIs
  <2> QED BY <2>6, <2>7
<1> QED BY <1>1, <1>2

LEMMA RejectedIs ==
  ASSUME NEW x, Result3(x)
  PROVE  /\ Rejected(x) \in Nat /\ Expected(x) \in Nat
         /\ Expected(x) = x.gen + Rejected(x)
         /\ Rejected(x) = IF x.specs > 0 /\ x.gen > 0 THEN x.specs - (x.gen - 1) ELSE 0
         /\ Rejected(x) <= x.specs
BY DEF Result3, Rejected, Expected

(* A step goes out with an item for the request. *)
Launched(async, q, s, item, y, p, t) ==
  LET chunk == q.computed + item.n < q.tokens + q.placeholders
  IN  /\ y.n = item.n /\ y.specs = item.specs /\ y.pos = s.len /\ Result3(y)
      /\ IF s.computed + item.n < s.prefill THEN y.gen = 0 ELSE y.gen >= 1
      /\ p.computed = q.computed + item.n /\ p.tokens = q.tokens
      /\ p.chunk <=> chunk
      /\ p.placeholders = IF chunk \/ ~async THEN q.placeholders
                          ELSE q.placeholders + 1 + item.specs
      /\ p.specs = IF chunk \/ ~async THEN q.specs ELSE NumSpec
      /\ t.computed = s.computed + y.n - Rejected(y) /\ t.len = s.len + y.gen
      /\ t.prefill = s.prefill

LEMMA LaunchKeeps ==
  ASSUME NEW async \in BOOLEAN, NEW q, Numbers(q), NEW s, NEW f, Result3(f), NEW item,
         item.n \in Nat \ {0}, item.specs \in Nat, Fitting(q, item),
         Agrees(async, q, s, f, Nothing), SlotIs(s, f, Nothing), Follows(q, f, Nothing),
         async /\ s.computed < s.prefill => q.specs = 0, ~async => f = Nothing,
         NEW y, NEW p, NEW t, Launched(async, q, s, item, y, p, t)
  PROVE  /\ Agrees(async, p, t, f, y) /\ SlotIs(t, f, y) /\ Follows(p, f, y)
         /\ async /\ t.computed < t.prefill => p.specs = 0
         /\ ~async => (p.chunk <=> t.computed < t.prefill)
<1>1. /\ q.computed \in Int /\ q.tokens \in Int /\ q.placeholders \in Int
      /\ s.computed \in Nat /\ s.len \in Nat /\ s.prefill \in Nat \ {0}
      /\ item.n \in Nat \ {0} /\ item.specs \in Nat
      /\ f.gen \in Nat /\ y.gen \in Nat /\ Rejected(f) \in Nat /\ Rejected(y) \in Nat
  BY RejectedIs DEF Numbers, SlotIs, Result3, Launched
<1>2. PICK qc \in Int, qt \in Int, qp \in Int :
        qc = q.computed /\ qt = q.tokens /\ qp = q.placeholders
  BY <1>1
<1>3. PICK sc \in Nat, sl \in Nat, sp \in Nat \ {0} :
        sc = s.computed /\ sl = s.len /\ sp = s.prefill
  BY <1>1
<1>4. PICK n \in Nat \ {0}, m \in Nat : n = item.n /\ m = item.specs
  BY <1>1
<1>5. PICK fg \in Nat, yg \in Nat, fr \in Nat, yr \in Nat :
        fg = f.gen /\ yg = y.gen /\ fr = Rejected(f) /\ yr = Rejected(y)
  BY <1>1
<1>6. /\ y.n = n /\ y.specs = m /\ y.pos = sl /\ yg <= 1 + m
      /\ Expected(f) = fg + fr /\ Expected(y) = yg + yr
      /\ yr = IF yg = 0 THEN 0 ELSE m - (yg - 1)
  <2>1. y.n = n /\ y.specs = m /\ y.pos = sl /\ Result3(y)
    BY <1>3, <1>4 DEF Launched
  <2>2. Expected(f) = fg + fr /\ Expected(y) = yg + yr
    BY <1>5, <2>1, RejectedIs
  <2> QED BY <1>5, <2>1, <2>2 DEF Result3, Rejected
<1>7. /\ qc = sc + fr /\ qt + fg = sl /\ qp = IF async THEN fg + fr ELSE 0
      /\ sc < sp => sl = sp /\ fg = 0
      /\ sc >= sp => sl = sc + 1
      /\ ~async => fg = 0 /\ fr = 0
  <2>1. Rejected(Nothing) = 0 /\ Nothing.gen = 0 /\ Expected(Nothing) = 0
    BY NothingIs
  <2>2. qc = sc + fr + 0 /\ qt + fg + 0 = sl /\ qp = IF async THEN (fg + fr) + 0 ELSE 0
    BY <1>2, <1>3, <1>5, <1>6, <2>1 DEF Agrees
  <2>3. /\ sc < sp => sl = sp /\ fg = 0
        /\ sc >= sp => sl = sc + 1
    BY <1>3, <1>5 DEF SlotIs
  <2>4. ~async => fg = 0 /\ fr = 0
    BY <1>5, <2>1
  <2> QED BY <2>2, <2>3, <2>4
<1>8. qt + qp = sl + fr
  BY <1>7
<1>9. (m = 0 /\ sc + n <= sl) \/ (n = m + 1 /\ sc + 1 = sl)
  <2>1. (m = 0 /\ qc + n <= qt + qp) \/ (n = m + 1 /\ qc + 1 = qt + qp)
    BY <1>2, <1>4 DEF Fitting
  <2> QED BY <1>7, <1>8, <2>1
<1>10. (qc + n < qt + qp) <=> (sc + n < sl)
  BY <1>7, <1>8
<1>11. /\ IF sc + n < sp THEN yg = 0 ELSE yg >= 1
       /\ p.computed = qc + n /\ p.tokens = qt
       /\ p.chunk <=> (sc + n < sl)
       /\ p.placeholders = IF sc + n < sl \/ ~async THEN qp ELSE qp + 1 + m
       /\ p.specs = IF sc + n < sl \/ ~async THEN q.specs ELSE NumSpec
  BY <1>2, <1>3, <1>4, <1>5, <1>10 DEF Launched
<1>12. PICK tc \in Int, tl \in Int, tp \in Nat \ {0} :
         /\ tc = t.computed /\ tl = t.len /\ tp = t.prefill
         /\ tc = sc + n - yr /\ tl = sl + yg /\ tp = sp
  <2>1. /\ t.computed = sc + n - yr /\ t.len = sl + yg /\ t.prefill = sp
    BY <1>3, <1>5, <1>6 DEF Launched
  <2> QED BY <2>1
<1>13. (sc + n < sl) <=> (sc + n < sp)
  BY <1>7
<1>14. ASSUME m = 0, sc + n <= sl
       PROVE  /\ tc < tp => tl = tp /\ yg = 0 /\ fg = 0 /\ sc < sp
              /\ tc >= tp => tl = tc + 1
              /\ (sc + n < sl) <=> (tc < tp)
  <2>1. yr = 0 /\ yg \in {0, 1}
    BY <1>6, <1>14
  <2>2. tc = sc + n
    BY <1>12, <2>1
  <2>3. tc < tp => tl = tp /\ yg = 0 /\ fg = 0 /\ sc < sp
    BY <1>7, <1>11, <1>12, <2>2
  <2>4. tc >= tp => tl = tc + 1
    <3>1. CASE sc < sp
      BY <1>7, <1>11, <1>12, <1>14, <2>1, <2>2, <3>1
    <3>2. CASE sc >= sp
      BY <1>7, <1>11, <1>12, <1>14, <2>1, <2>2, <3>2
    <3> QED BY <3>1, <3>2
  <2> QED BY <1>12, <1>13, <2>2, <2>3, <2>4
<1>15. ASSUME n = m + 1, sc + 1 = sl
       PROVE  /\ tc < tp => tl = tp /\ yg = 0 /\ fg = 0 /\ sc < sp
              /\ tc >= tp => tl = tc + 1
              /\ (sc + n < sl) <=> (tc < tp)
  <2>1. yg >= 1 /\ sc + n >= sp
    <3>1. CASE sc < sp
      BY <1>7, <1>11, <1>15, <3>1
    <3>2. CASE sc >= sp
      BY <1>11, <1>15, <3>2
    <3> QED BY <3>1, <3>2
  <2>2. tc = sc + yg /\ tl = tc + 1
    BY <1>6, <1>12, <1>15, <2>1
  <2>3. sc + 1 >= sp
    BY <1>7, <1>15
  <2>4. tc >= tp
    BY <1>12, <2>1, <2>2, <2>3
  <2> QED BY <1>12, <1>13, <2>1, <2>2, <2>4
<1>16. /\ tc \in Nat
       /\ tc < tp => tl = tp /\ yg = 0 /\ fg = 0 /\ sc < sp
       /\ tc >= tp => tl = tc + 1
       /\ (sc + n < sl) <=> (tc < tp)
  <2>1. tc \in Nat
    <3>1. CASE m = 0
      BY <1>6, <1>12, <3>1
    <3>2. CASE n = m + 1
      BY <1>6, <1>12, <3>2
    <3> QED BY <1>9, <3>1, <3>2
  <2> QED BY <1>9, <1>14, <1>15, <1>12, <1>13, <2>1
<1>17. Agrees(async, p, t, f, y)
  <2>1. p.placeholders = IF async THEN (fg + fr) + (yg + yr) ELSE 0
    <3>1. CASE ~async
      BY <1>7, <1>11, <3>1
    <3>2. CASE async /\ sc + n < sl
      <4>1. yg = 0 /\ yr = 0
        BY <1>6, <1>11, <1>13, <3>2
      <4> QED BY <1>7, <1>11, <3>2, <4>1
    <3>3. CASE async /\ ~(sc + n < sl)
      <4>1. yg + yr = 1 + m
        BY <1>6, <1>11, <1>13, <3>3
      <4> QED BY <1>7, <1>11, <3>3, <4>1
    <3> QED BY <3>1, <3>2, <3>3
  <2>2. p.computed = tc + fr + yr /\ p.tokens + fg + yg = tl
    BY <1>7, <1>11, <1>12
  <2> QED BY <1>5, <1>6, <1>12, <2>1, <2>2 DEF Agrees
<1>18. SlotIs(t, f, y)
  <2>1. tl \in Nat
    BY <1>12
  <2> QED BY <1>5, <1>12, <1>16, <2>1 DEF SlotIs
<1>19. Follows(p, f, y)
  <2>1. y.pos = qt + fg
    BY <1>6, <1>7
  <2> QED BY <1>2, <1>5, <1>11, <2>1 DEF Follows
<1>20. async /\ t.computed < t.prefill => p.specs = 0
  BY <1>3, <1>11, <1>12, <1>16
<1>21. p.chunk <=> t.computed < t.prefill
  BY <1>11, <1>12, <1>16
<1> QED BY <1>17, <1>18, <1>19, <1>20, <1>21

-----------------------------------------------------------------------------
(* A step goes out. *)

LEMMA SwapIs ==
  ASSUME NEW async, NEW q, NEW s, NEW y, Result3(y), Numbers(q),
         Agrees(async, q, s, Nothing, y), SlotIs(s, Nothing, y), Follows(q, Nothing, y)
  PROVE  Agrees(async, q, s, y, Nothing) /\ SlotIs(s, y, Nothing) /\ Follows(q, y, Nothing)
<1>1. /\ Rejected(y) \in Nat /\ Expected(y) \in Nat /\ y.gen \in Nat
      /\ Rejected(Nothing) = 0 /\ Expected(Nothing) = 0 /\ Nothing.gen = 0 /\ Nothing.n = 0
  BY RejectedIs, NothingIs DEF Result3
<1>2. Agrees(async, q, s, y, Nothing)
  <2>1. s.computed \in Nat /\ q.tokens \in Int
    BY DEF SlotIs, Numbers
  <2>2. /\ s.computed + 0 + Rejected(y) = s.computed + Rejected(y) + 0
        /\ q.tokens + 0 + y.gen = q.tokens + y.gen + 0
        /\ 0 + Expected(y) = Expected(y) + 0
    BY <1>1, <2>1
  <2> QED BY <1>1, <2>2 DEF Agrees
<1>3. SlotIs(s, y, Nothing)
  BY <1>1 DEF SlotIs
<1>4. Follows(q, y, Nothing)
  <2>1. q.tokens \in Int
    BY DEF Numbers
  <2> QED BY <1>1, <2>1 DEF Follows
<1> QED BY <1>2, <1>3, <1>4

LEMMA ScheduledNumbersAre ==
  ASSUME NEW q, DOMAIN q = Fields, Numbers(q), NEW item, item.n \in Int, item.specs \in Int,
         NEW seq, NEW p, p = AfterSchedule(q, item, seq)
  PROVE  LET chunk == q.computed + item.n < q.tokens + q.placeholders
         IN  /\ p.computed = q.computed + item.n /\ p.tokens = q.tokens
             /\ p.chunk <=> chunk
             /\ p.placeholders = IF chunk \/ ~Async THEN q.placeholders
                                 ELSE q.placeholders + 1 + item.specs
             /\ p.specs = IF chunk \/ ~Async THEN q.specs ELSE NumSpec
<1> DEFINE chunk == q.computed + item.n < q.tokens + q.placeholders
<1>1. PICK c : c = chunk
  OBVIOUS
<1>2. PICK g : g = [q EXCEPT !.computed = @ + item.n, !.inFlight = @ + item.n,
                             !.lastSeq = seq, !.chunk = c]
  OBVIOUS
<1>3. p = IF c \/ ~Async THEN g
          ELSE [g EXCEPT !.placeholders = @ + 1 + item.specs, !.specs = NumSpec]
  BY <1>1, <1>2 DEF AfterSchedule
<1>4. /\ DOMAIN g = Fields /\ g.computed = q.computed + item.n /\ g.tokens = q.tokens
      /\ g.chunk = c /\ g.placeholders = q.placeholders /\ g.specs = q.specs
  BY <1>2, FieldsAre
<1>5. CASE c \/ ~Async
  BY <1>1, <1>3, <1>4, <1>5
<1>6. CASE ~(c \/ ~Async)
  <2>1. /\ p.computed = g.computed /\ p.tokens = g.tokens /\ p.chunk = g.chunk
        /\ p.placeholders = g.placeholders + 1 + item.specs /\ p.specs = NumSpec
    BY <1>3, <1>4, <1>6, FieldsAre
  <2> QED BY <1>1, <1>4, <1>6, <2>1
<1> QED BY <1>5, <1>6

LEMMA PostUpdateIs ==
  ASSUME NEW s, DOMAIN s = SlotFields, NEW x, NEW t, t = PostUpdate(s, x)
  PROVE  /\ t.computed = s.computed + x.n - Rejected(x) /\ t.len = s.len + x.gen
         /\ t.prefill = s.prefill /\ DOMAIN t = SlotFields
BY DEF PostUpdate, SlotFields

(* What an emission puts in flight for a request. *)
LEMMA EmitBrings ==
  ASSUME QueueInv, BlockInv, pass.pc = "emit", NEW out, Emitted(out), NEW n, n = Len(flight)
  PROVE  /\ n \in {0, 1}
         /\ \A r : \A k : k # n + 1 => Brought(k, r)' = Brought(k, r)
         /\ \A r : (\A k : k > n => Brought(k, r) = Nothing)
         /\ \A i \in DOMAIN pass.items : \A r :
              pass.items[i].id = r => Brought(n + 1, r)' = out.results[i]
         /\ \A r : (\A i \in DOMAIN pass.items : pass.items[i].id # r)
                      => Brought(n + 1, r)' = Nothing
<1>1. /\ n \in {0, 1} /\ DOMAIN flight = 1 .. n /\ DOMAIN flight' = 1 .. n + 1
      /\ flight'[n + 1] = out /\ \A k \in 1 .. n : flight'[k] = flight[k]
  BY LongerFlight DEF BlockInv, Emitted
<1>2. PICK S : S = out.results
  OBVIOUS
<1>3. /\ DOMAIN S = DOMAIN pass.items
      /\ \A i \in DOMAIN S : S[i].id = pass.items[i].id
  BY <1>2 DEF Emitted, Made
<1>4. \A i, j \in DOMAIN S : S[i].id = S[j].id => i = j
  BY <1>3 DEF QueueInv, PassInv
<1>5. /\ DOMAIN Items(S) = {S[i].id : i \in DOMAIN S}
      /\ \A i \in DOMAIN S : Items(S)[S[i].id] = S[i]
  BY <1>4, ItemsAre
<1>6. \A r : Brought(n + 1, r)' = IF r \in DOMAIN Items(S) THEN Items(S)[r] ELSE Nothing
  BY <1>1, <1>2 DEF Brought
<1>7. ASSUME NEW r, NEW k, k # n + 1
      PROVE  Brought(k, r)' = Brought(k, r)
  <2>1. k \in DOMAIN flight' <=> k \in DOMAIN flight
    BY <1>1, <1>7
  <2>2. k \in DOMAIN flight => flight'[k] = flight[k]
    BY <1>1
  <2> QED BY <2>1, <2>2 DEF Brought
<1>8. \A r : (\A k : k > n => Brought(k, r) = Nothing)
  BY <1>1 DEF Brought
<1>9. \A i \in DOMAIN pass.items : \A r :
              pass.items[i].id = r => Brought(n + 1, r)' = out.results[i]
  BY <1>2, <1>3, <1>5, <1>6
<1>10. \A r : (\A i \in DOMAIN pass.items : pass.items[i].id # r)
                      => Brought(n + 1, r)' = Nothing
  BY <1>3, <1>5, <1>6
<1> QED BY <1>1, <1>7, <1>8, <1>9, <1>10

(* The slot with which a request of the step runs. *)
Ready(r, s) ==
  IF NewIn(r) THEN /\ s.computed = req[r].computed /\ s.len = req[r].tokens
                   /\ s.prefill = req[r].tokens /\ DOMAIN s = SlotFields
              ELSE s = slots[r] /\ DOMAIN s = SlotFields

LEMMA ReadyIs ==
  ASSUME QueueInv, HoldInv, SlotsMade, NEW out, Emitted(out), NEW r \in Reqs
  PROVE  /\ \A i \in DOMAIN pass.items : pass.items[i].id = r =>
              \E s : Ready(r, s) /\ Made(out.results[i], pass.items[i], s)
                     /\ slots'[r] = PostUpdate(s, out.results[i])
         /\ (\A i \in DOMAIN pass.items : pass.items[i].id # r) /\ req[r].status = "running"
              => slots'[r] = slots[r]
         /\ SlotsMade'
<1>1. PICK ready, S : ready = SlotsAfter(Output) /\ S = out.results
  OBVIOUS
<1>2. PICK added : added = {pass.items[i].id : i \in {j \in DOMAIN pass.items : pass.items[j].new}}
  OBVIOUS
<1>3. ready = [q \in (DOMAIN slots \ Released) \cup added |->
                 IF q \in added THEN [computed |-> req[q].computed, len |-> req[q].tokens,
                                      prefill |-> req[q].tokens]
                 ELSE slots[q]]
  BY <1>1, <1>2 DEF SlotsAfter, Output, Released
<1>4. \A q \in DOMAIN ready : DOMAIN ready[q] = SlotFields
  BY <1>3 DEF SlotsMade, SlotFields
<1>5. /\ DOMAIN S = DOMAIN pass.items
      /\ \A i \in DOMAIN S : /\ S[i].id = pass.items[i].id /\ pass.items[i].id \in DOMAIN ready
                             /\ Made(S[i], pass.items[i], ready[pass.items[i].id])
  BY <1>1 DEF Emitted, Made
<1>6. \A i, j \in DOMAIN S : S[i].id = S[j].id => i = j
  BY <1>5 DEF QueueInv, PassInv
<1>7. /\ DOMAIN Items(S) = {S[i].id : i \in DOMAIN S}
      /\ \A i \in DOMAIN S : Items(S)[S[i].id] = S[i]
  BY <1>6, ItemsAre
<1>8. slots' = [q \in DOMAIN ready |->
                  IF q \in DOMAIN Items(S) THEN PostUpdate(ready[q], Items(S)[q]) ELSE ready[q]]
  BY <1>1 DEF Emitted
<1>9. SlotsMade'
  <2>1. ASSUME NEW q \in DOMAIN ready
        PROVE  DOMAIN slots'[q] = SlotFields
    <3>1. PICK s : s = ready[q] /\ DOMAIN s = SlotFields
      BY <1>4
    <3>2. \A x : DOMAIN PostUpdate(s, x) = SlotFields
      BY <3>1, PostUpdateIs
    <3> QED BY <1>8, <3>1, <3>2
  <2>2. DOMAIN slots' = DOMAIN ready
    BY <1>8
  <2> QED BY <2>1, <2>2 DEF SlotsMade
<1>10. ASSUME NEW i \in DOMAIN pass.items, pass.items[i].id = r
       PROVE  \E s : Ready(r, s) /\ Made(out.results[i], pass.items[i], s)
                     /\ slots'[r] = PostUpdate(s, out.results[i])
  <2>1. PICK s : s = ready[r]
    OBVIOUS
  <2>2. r \in DOMAIN ready /\ Made(S[i], pass.items[i], s) /\ r \in DOMAIN Items(S)
        /\ Items(S)[r] = S[i]
    BY <1>5, <1>7, <1>10, <2>1
  <2>3. slots'[r] = PostUpdate(s, S[i])
    BY <1>8, <2>1, <2>2
  <2>4. NewIn(r) <=> r \in added
    BY <1>2 DEF NewIn
  <2>5. Ready(r, s)
    BY <1>3, <1>4, <2>1, <2>2, <2>4 DEF Ready
  <2> QED BY <1>1, <2>2, <2>3, <2>5
<1>11. ASSUME \A i \in DOMAIN pass.items : pass.items[i].id # r, req[r].status = "running"
       PROVE  slots'[r] = slots[r]
  <2>1. r \in Held
    BY <1>11 DEF HoldInv
  <2>2. r \in DOMAIN ready /\ r \notin added
    BY <1>2, <1>3, <1>11, <2>1 DEF Held, Released
  <2>3. r \notin DOMAIN Items(S)
    BY <1>5, <1>7, <1>11
  <2> QED BY <1>3, <1>8, <2>2, <2>3
<1> QED BY <1>9, <1>10, <1>11

LEMMA ReadyFits ==
  ASSUME NEW r \in Reqs, NEW q, q = req[r], Numbers(q), SignsRight(Async, Solo, q),
         NEW b1, b1 = Brought(1, r), Result3(b1), b1.n = 0 => b1 = Nothing,
         NEW item, item.n \in Nat \ {0}, Fitting(q, item),
         NEW s, Ready(r, s), RunsRight(Async, q, slots[r], NewIn(r), b1, Nothing)
  PROVE  LET f == Valid(q, b1) IN
         /\ Agrees(Async, q, s, f, Nothing) /\ SlotIs(s, f, Nothing) /\ Follows(q, f, Nothing)
         /\ Async /\ s.computed < s.prefill => q.specs = 0
         /\ DOMAIN s = SlotFields /\ Result3(f)
         /\ Async \/ b1 = Nothing => f = b1 \/ f = Nothing
<1>1. PICK f : f = Valid(q, b1)
  OBVIOUS
<1>2. f \in {b1, Nothing} /\ Result3(f)
  BY <1>1, NothingIs DEF Valid
<1>3. CASE NewIn(r)
  <2>1. q.placeholders = 0 /\ f.n = 0 /\ (Async => q.specs = 0)
    BY <1>1, <1>3 DEF RunsRight
  <2>2. f = Nothing
    BY <1>2, <2>1
  <2>3. s.computed = q.computed /\ s.len = q.tokens /\ s.prefill = q.tokens /\ DOMAIN s = SlotFields
    BY <1>3 DEF Ready
  <2>4. q.computed \in Nat /\ q.tokens \in Int
    BY DEF SignsRight, Numbers
  <2>5. q.tokens > q.computed
    BY <2>1, <2>4 DEF Fitting
  <2>6. Agrees(Async, q, s, Nothing, Nothing)
    BY <2>1, <2>3, <2>4, NothingIs DEF Agrees
  <2>7. SlotIs(s, Nothing, Nothing)
    BY <2>3, <2>4, <2>5, NothingIs DEF SlotIs
  <2>8. Follows(q, Nothing, Nothing)
    BY NothingIs DEF Follows
  <2> QED BY <1>1, <1>2, <2>1, <2>2, <2>3, <2>6, <2>7, <2>8
<1>4. CASE ~NewIn(r)
  <2>1. s = slots[r] /\ DOMAIN s = SlotFields
    BY <1>4 DEF Ready
  <2>2. /\ Agrees(Async, q, s, f, Nothing) /\ SlotIs(s, f, Nothing) /\ Follows(q, f, Nothing)
        /\ DraftsAre(Async, q, s, b1)
    BY <1>1, <1>4, <2>1 DEF RunsRight
  <2>3. Async /\ s.computed < s.prefill => q.specs = 0
    BY <2>2 DEF DraftsAre
  <2> QED BY <1>1, <1>2, <2>1, <2>2, <2>3
<1> QED BY <1>3, <1>4

LEMMA ResultsAre ==
  ASSUME QueueInv, BlockInv, NEW k, NEW r
  PROVE  Result3(Brought(k, r)) /\ (Brought(k, r).n = 0 => Brought(k, r) = Nothing)
BY BroughtIs DEF QueueInv, BlockInv, NumInv

LEMMA AsyncIs ==
  ASSUME QueueInv, ShareInv
  PROVE  Async \in BOOLEAN /\ (~Async => conf.concurrent = 1) /\ (Async => conf.concurrent = 2)
<1>1. conf.concurrent \in {1, 2}
  BY FlightIs DEF QueueInv
<1> QED BY <1>1 DEF Async

(* A request of the step that goes out. *)
LEMMA EmitOne ==
  ASSUME QueueInv, BlockInv, HoldInv, RunInv, Emit, pass.pc = "emit", NEW out, Emitted(out),
         NEW seq, Sent(out, seq), NEW i \in DOMAIN pass.items, NEW r, r = pass.items[i].id
  PROVE  RunFor(r)'
<1>1. PICK q, p, item, y : q = req[r] /\ p = req'[r] /\ item = pass.items[i] /\ y = out.results[i]
  OBVIOUS
<1>2. /\ r \in Reqs /\ q.status = "running" /\ p.status = "running"
      /\ p.stale = q.stale /\ p.drop = q.drop /\ Numbers(q) /\ DOMAIN q = Fields /\ Numbers(p)
  <2>1. r \in Reqs
    BY DEF Sent
  <2>2. Numbers(q) /\ DOMAIN q = Fields
    BY <1>1, <2>1, NumbersAre DEF QueueInv
  <2> QED BY <1>1, <2>1, <2>2 DEF Sent, Grows
<1>3. PICK n \in {0, 1} :
        /\ n = Len(flight) /\ n < conf.concurrent
        /\ \A k : k # n + 1 => Brought(k, r)' = Brought(k, r)
        /\ \A k : k > n => Brought(k, r) = Nothing
        /\ Brought(n + 1, r)' = y
  <2>1. PICK n : n = Len(flight)
    OBVIOUS
  <2>2. n < conf.concurrent
    BY <2>1 DEF BlockInv, ShareInv
  <2> QED BY <1>1, <2>1, <2>2, EmitBrings
<1>4. PICK b : b = Brought(1, r)
  OBVIOUS
<1>5. Result3(b) /\ (b.n = 0 => b = Nothing) /\ Brought(2, r) = Nothing /\ (n = 0 => b = Nothing)
  <2>1. 2 > n /\ (n = 0 => 1 > n)
    OBVIOUS
  <2>2. Brought(2, r) = Nothing /\ (n = 0 => b = Nothing)
    BY <1>3, <1>4, <2>1
  <2> QED BY <1>4, <2>2, ResultsAre
<1>6. /\ RunsRight(Async, q, slots[r], NewIn(r), b, Nothing) /\ SignsRight(Async, Solo, q)
  BY <1>1, <1>2, <1>4, <1>5 DEF RunInv, RunFor, Past
<1>7. item.n \in Nat \ {0} /\ item.specs \in Nat /\ Fitting(q, item)
  BY <1>1 DEF BlockInv, NumInv, ItemInv, RunInv, ItemsFit
<1>8. PICK s : Ready(r, s) /\ Made(y, item, s) /\ slots'[r] = PostUpdate(s, y)
  BY <1>1, <1>2, ReadyIs DEF RunInv
<1>9. PICK f : f = Valid(q, b)
  OBVIOUS
<1>10. /\ Agrees(Async, q, s, f, Nothing) /\ SlotIs(s, f, Nothing) /\ Follows(q, f, Nothing)
       /\ Async /\ s.computed < s.prefill => q.specs = 0
       /\ DOMAIN s = SlotFields /\ Result3(f) /\ (b = Nothing => f = Nothing)
  BY <1>1, <1>2, <1>4, <1>5, <1>6, <1>7, <1>8, <1>9, ReadyFits
<1>11. Async \in BOOLEAN /\ (~Async => n = 0) /\ Async' = Async /\ Solo' = Solo
  <2>1. conf' = conf
    BY DEF Sent
  <2>2. Async \in BOOLEAN /\ (~Async => conf.concurrent = 1)
    BY AsyncIs DEF BlockInv
  <2> QED BY <1>3, <2>1, <2>2 DEF Async, Solo
<1>12. PICK t : t = slots'[r]
  OBVIOUS
<1>13. Launched(Async, q, s, item, y, p, t)
  <2>1. p = AfterSchedule(q, item, seq)
    <3>1. PICK of : of = Items(pass.items)
      OBVIOUS
    <3>2. /\ DOMAIN of = {pass.items[j].id : j \in DOMAIN pass.items}
          /\ \A j \in DOMAIN pass.items : of[pass.items[j].id] = pass.items[j]
      BY <3>1, ItemsAre DEF QueueInv, PassInv
    <3>3. req' = [x \in Reqs |-> IF x \in DOMAIN of THEN AfterSchedule(req[x], of[x], seq)
                                                    ELSE req[x]]
      BY <3>1 DEF Emit, FinishSchedule, Sent
    <3> QED BY <1>1, <1>2, <3>2, <3>3
  <2>2. LET chunk == q.computed + item.n < q.tokens + q.placeholders
        IN  /\ p.computed = q.computed + item.n /\ p.tokens = q.tokens
            /\ p.chunk <=> chunk
            /\ p.placeholders = IF chunk \/ ~Async THEN q.placeholders
                                ELSE q.placeholders + 1 + item.specs
            /\ p.specs = IF chunk \/ ~Async THEN q.specs ELSE NumSpec
    <3>1. item.n \in Int /\ item.specs \in Int
      BY <1>7
    <3> QED BY <1>2, <2>1, <3>1, ScheduledNumbersAre
  <2>3. /\ t.computed = s.computed + y.n - Rejected(y) /\ t.len = s.len + y.gen
        /\ t.prefill = s.prefill
    <3>1. t = PostUpdate(s, y) /\ DOMAIN s = SlotFields
      BY <1>8, <1>10, <1>12
    <3> QED BY <3>1, PostUpdateIs
  <2>4. y.n = item.n /\ y.specs = item.specs /\ y.pos = s.len
    BY <1>8 DEF Made
  <2>5. y.gen \in 0 .. 1 + item.specs /\ IF s.computed + item.n < s.prefill THEN y.gen = 0 ELSE y.gen >= 1
    <3>1. PICK g \in Sampled(s, item) : y.gen = g.gen
      BY <1>8 DEF Made
    <3>2. g.gen \in 0 .. 1 + item.specs
      BY <1>7, SampledIs
    <3>3. IF s.computed + item.n < s.prefill THEN g.gen = 0 ELSE g.gen >= 1
      <4>1. CASE s.computed + item.n < s.prefill
        BY <4>1 DEF Sampled
      <4>2. CASE ~(s.computed + item.n < s.prefill)
        <5>1. g \in [gen : 1 .. (1 + item.specs), eos : 0 .. (1 + item.specs)]
          BY <4>2 DEF Sampled
        <5> QED BY <1>7, <4>2, <5>1
      <4> QED BY <4>1, <4>2
    <3> QED BY <3>1, <3>2, <3>3
  <2>6. Result3(y)
    BY <1>7, <2>4, <2>5 DEF Result3
  <2> QED BY <2>2, <2>3, <2>4, <2>5, <2>6 DEF Launched
<1>14. /\ Agrees(Async, p, t, f, y) /\ SlotIs(t, f, y) /\ Follows(p, f, y)
       /\ Async /\ t.computed < t.prefill => p.specs = 0
       /\ ~Async => (p.chunk <=> t.computed < t.prefill)
  <2>1. ~Async => f = Nothing
    BY <1>5, <1>10, <1>11
  <2> QED BY <1>2, <1>7, <1>10, <1>11, <1>13, <2>1, LaunchKeeps
<1>15. y.n # 0 /\ Result3(y) /\ Valid(p, b) = f
  BY <1>2, <1>7, <1>9, <1>13 DEF Launched, Valid
<1>16. RunsRight(Async, p, t, FALSE, Brought(1, r)', Brought(2, r)')
  <2>1. CASE n = 0
    <3>1. Brought(1, r)' = y /\ Brought(2, r)' = Nothing /\ b = Nothing /\ f = Nothing
      BY <1>3, <1>5, <1>10, <2>1
    <3>2. p.stale = 0
      BY <1>2, <1>6, <3>1, NothingIs DEF RunsRight
    <3>3. Valid(p, y) = y
      BY <3>2 DEF Valid
    <3>4. Agrees(Async, p, t, y, Nothing) /\ SlotIs(t, y, Nothing) /\ Follows(p, y, Nothing)
      BY <1>2, <1>14, <1>15, <3>1, SwapIs
    <3>5. DraftsAre(Async, p, t, y)
      BY <1>14, <1>15 DEF DraftsAre
    <3> QED BY <3>1, <3>2, <3>3, <3>4, <3>5 DEF RunsRight
  <2>2. CASE n = 1
    <3>1. Brought(1, r)' = b /\ Brought(2, r)' = y
      BY <1>3, <1>4, <2>2
    <3>2. DraftsAre(Async, p, t, b)
      BY <1>11, <1>14, <2>2 DEF DraftsAre
    <3>3. p.stale = 0 \/ (p.stale = b.n /\ p.drop)
      BY <1>2, <1>6 DEF RunsRight
    <3> QED BY <1>14, <1>15, <3>1, <3>2, <3>3 DEF RunsRight
  <2> QED BY <2>1, <2>2
<1>17. SignsRight(Async, Solo, p)
  <2>1. p.computed = q.computed + item.n /\ p.tokens = q.tokens
    BY <1>13 DEF Launched
  <2>2. q.computed \in Int /\ item.n \in Nat
    BY <1>2, <1>7 DEF Numbers
  <2> QED BY <1>2, <1>6, <2>1, <2>2 DEF SignsRight
<1>18. NewIn(r)' = FALSE
  <2>1. pass'.items = <<>>
    BY DEF Sent, NoPass
  <2> QED BY <2>1 DEF NewIn
<1> QED BY <1>1, <1>2, <1>11, <1>12, <1>16, <1>17, <1>18 DEF RunFor, Past

LEMMA EmitOther ==
  ASSUME QueueInv, BlockInv, HoldInv, RunInv, pass.pc = "emit", NEW out, Emitted(out),
         NEW seq, Sent(out, seq), NEW r \in Reqs,
         \A i \in DOMAIN pass.items : pass.items[i].id # r
  PROVE  RunFor(r)'
<1>1. req'[r] = req[r] /\ conf' = conf /\ pass' = NoPass
  BY DEF Sent
<1>2. PICK n : n = Len(flight)
  OBVIOUS
<1>3. /\ n \in {0, 1}
      /\ \A k : k # n + 1 => Brought(k, r)' = Brought(k, r)
      /\ \A k : k > n => Brought(k, r) = Nothing
      /\ Brought(n + 1, r)' = Nothing
  BY <1>2, EmitBrings
<1>4. \A k : Brought(k, r)' = Brought(k, r)
  <2>1. n + 1 > n
    BY <1>3
  <2> QED BY <1>3, <2>1
<1>5. Async' = Async /\ Solo' = Solo
  BY <1>1 DEF Async, Solo
<1>6. NewIn(r) = FALSE /\ NewIn(r)' = FALSE
  <2>1. pass'.items = <<>>
    BY <1>1 DEF NoPass
  <2> QED BY <2>1 DEF NewIn
<1>7. req[r].status = "running" => slots'[r] = slots[r]
  BY ReadyIs DEF RunInv
<1>8. RunFor(r)
  BY DEF RunInv
<1>9. PICK q, b1, b2 : q = req[r] /\ b1 = Brought(1, r) /\ b2 = Brought(2, r)
  OBVIOUS
<1>10. Brought(1, r)' = b1 /\ Brought(2, r)' = b2 /\ req'[r] = q
  BY <1>1, <1>4, <1>9
<1>11. CASE q.status = "running"
  <2>1. RunsRight(Async, q, slots[r], FALSE, b1, b2) /\ SignsRight(Async, Solo, q)
    BY <1>6, <1>8, <1>9, <1>11 DEF RunFor, Past
  <2> QED BY <1>5, <1>6, <1>7, <1>9, <1>10, <1>11, <2>1 DEF RunFor
<1>12. CASE q.status # "running"
  <2>1. /\ q.status \notin {"running"} \cup Past => IdlesRight(Async, q, b1, b2)
        /\ q.status \notin Past => SignsRight(Async, Solo, q)
    BY <1>8, <1>9 DEF RunFor
  <2> QED BY <1>5, <1>10, <1>12, <2>1 DEF RunFor
<1> QED BY <1>11, <1>12

LEMMA EmitRuns ==
  ASSUME QueueInv, BlockInv, HoldInv, RunInv, Emit
  PROVE  RunInv'
<1>1. pass.pc = "emit"
  BY DEF Emit, FinishSchedule
<1>2. PICK out : Emitted(out)
  BY EmittedIs
<1>3. PICK seq : Sent(out, seq)
  BY <1>2, SentIs
<1>4. \A r \in Reqs : RunFor(r)'
  <2> TAKE r \in Reqs
  <2>1. CASE \E i \in DOMAIN pass.items : pass.items[i].id = r
    BY <1>1, <1>2, <1>3, <2>1, EmitOne
  <2>2. CASE \A i \in DOMAIN pass.items : pass.items[i].id # r
    BY <1>1, <1>2, <1>3, <2>2, EmitOther
  <2> QED BY <2>1, <2>2
<1>5. ItemsFit'
  <2>1. pass'.items = <<>>
    BY <1>3 DEF Sent, NoPass
  <2> QED BY <2>1 DEF ItemsFit
<1>6. LoadsFit'
  <2>1. PICK n : n = Len(flight)
    OBVIOUS
  <2>2. /\ DOMAIN flight' = 1 .. n + 1 /\ n \in {0, 1} /\ DOMAIN flight = 1 .. n
        /\ flight'[n + 1] = out /\ \A k \in 1 .. n : flight'[k] = flight[k]
    BY <1>1, <1>2, <2>1, LongerFlight DEF BlockInv, Emitted
  <2>3. \A x \in out.recv : x.valid >= 0
    BY <1>2 DEF Emitted, RunInv, LoadsFit
  <2>4. \A k \in 1 .. n : \A x \in flight[k].recv : x.valid >= 0
    BY <2>2 DEF RunInv, LoadsFit
  <2>5. \A k \in DOMAIN flight' : \A x \in flight'[k].recv : x.valid >= 0
    BY <2>2, <2>3, <2>4
  <2>6. \A r \in Reqs : loads'[r].valid >= 0
    BY <1>2 DEF Emitted, NoTransfer, RunInv, LoadsFit
  <2> QED BY <2>5, <2>6 DEF LoadsFit
<1>7. SlotsMade'
  <2>1. CASE Reqs = {}
    <3>1. DOMAIN slots' = {}
      <4>1. \A r \in DOMAIN slots' : r \in DOMAIN slots \/ \E i \in DOMAIN pass.items : r = pass.items[i].id
        BY SlotsEmitted
      <4>2. \A r \in DOMAIN slots' : r \in Reqs
        BY <1>3, <4>1 DEF HoldInv, Sent
      <4> QED BY <2>1, <4>2
    <3> QED BY <3>1 DEF SlotsMade
  <2>2. CASE Reqs # {}
    BY <1>2, <2>2, ReadyIs DEF RunInv
  <2> QED BY <2>1, <2>2
<1> QED BY <1>4, <1>5, <1>6, <1>7 DEF RunInv

-----------------------------------------------------------------------------
(* The oldest output is applied. *)

LEMMA DeliveredNumbersAre ==
  ASSUME NEW q, DOMAIN q = Fields, NEW x, Result3(x), NEW a, a = Delivered(q, x)
  PROVE  LET fresh == q.stale = 0 IN
         /\ DOMAIN a = Fields /\ a.status = q.status /\ a.drop = q.drop /\ a.chunk = q.chunk
         /\ a.specs = q.specs /\ a.updates = q.updates
         /\ a.stale = IF q.stale > 0 THEN q.stale - x.n ELSE 0
         /\ a.tokens = q.tokens + Kept(q, x)
         /\ a.computed = IF fresh /\ q.computed > 0 THEN q.computed - Rejected(x) ELSE q.computed
         /\ a.placeholders = (IF fresh /\ q.placeholders > 0 THEN q.placeholders - Rejected(x)
                                                            ELSE q.placeholders)
                             - (IF fresh /\ Async THEN Kept(q, x) ELSE 0)
<1>1. PICK rej : rej = Rejected(x)
  OBVIOUS
<1>2. rej = IF x.specs > 0 /\ x.gen > 0 THEN x.specs - (x.gen - 1) ELSE 0
  BY <1>1, RejectedIs
<1>3. PICK d : d = Drained(q, x.n)
  OBVIOUS
<1>4. /\ DOMAIN d = Fields /\ d.status = q.status /\ d.drop = q.drop /\ d.chunk = q.chunk
      /\ d.specs = q.specs /\ d.updates = q.updates /\ d.tokens = q.tokens
      /\ d.computed = q.computed /\ d.placeholders = q.placeholders
      /\ d.stale = IF q.stale > 0 THEN q.stale - x.n ELSE 0
  BY <1>3, FieldsAre DEF Drained
<1>5. PICK c, p, t :
        /\ c = IF q.stale = 0 /\ d.computed > 0 THEN d.computed - rej ELSE d.computed
        /\ p = (IF q.stale = 0 /\ d.placeholders > 0 THEN d.placeholders - rej ELSE d.placeholders)
                 - (IF q.stale = 0 /\ Async THEN Kept(q, x) ELSE 0)
        /\ t = d.tokens + Kept(q, x)
  OBVIOUS
<1>6. a = [d EXCEPT !.computed = c, !.placeholders = p, !.tokens = t]
  BY <1>2, <1>3, <1>5 DEF Delivered
<1>7. /\ DOMAIN a = Fields /\ a.status = d.status /\ a.drop = d.drop /\ a.chunk = d.chunk
      /\ a.specs = d.specs /\ a.updates = d.updates /\ a.stale = d.stale
      /\ a.computed = c /\ a.placeholders = p /\ a.tokens = t
  BY <1>4, <1>6, FieldsAre
<1> QED BY <1>1, <1>4, <1>5, <1>7

LEMMA StoppedNumbersAre ==
  ASSUME NEW r, NEW q, DOMAIN q = Fields, NEW a, a = Stopped(r, q)
  PROVE  /\ a.computed = q.computed /\ a.placeholders = q.placeholders /\ a.stale = q.stale
         /\ a.drop = q.drop
<1>1. CASE r \notin conf.sessions
  BY <1>1, FieldsAre DEF Stopped
<1>2. CASE r \in conf.sessions /\ q.updates = <<>>
  BY <1>2, FieldsAre DEF Stopped
<1>3. CASE r \in conf.sessions /\ q.updates # <<>>
  <2>1. PICK rest : rest = [q EXCEPT !.updates = Tail(@)]
    OBVIOUS
  <2>2. /\ DOMAIN rest = Fields /\ rest.computed = q.computed /\ rest.drop = q.drop
        /\ rest.placeholders = q.placeholders /\ rest.stale = q.stale
    BY <2>1, FieldsAre
  <2>3. a = IF Head(q.updates) = "end" THEN [rest EXCEPT !.status = "finished"]
                                       ELSE AsSession(rest)
    BY <1>3, <2>1 DEF Stopped
  <2>4. CASE Head(q.updates) = "end"
    BY <2>2, <2>3, <2>4, FieldsAre
  <2>5. CASE Head(q.updates) # "end"
    <3>1. PICK n : n = Min({rest.tokens, rest.computed}) + UpdateTokens
      OBVIOUS
    <3>2. a = [rest EXCEPT !.status = "waiting", !.tokens = n, !.prompt = n]
      BY <2>3, <2>5, <3>1 DEF AsSession
    <3> QED BY <2>2, <3>2, FieldsAre
  <2> QED BY <2>4, <2>5
<1> QED BY <1>1, <1>2, <1>3

(* g is the request q before its result is applied: a load may have failed. *)
Loaded(g, q, recv) ==
  /\ DOMAIN g = Fields /\ Numbers(g) /\ g.status = q.status /\ g.tokens = q.tokens
  /\ g.placeholders = q.placeholders /\ g.stale = q.stale /\ g.drop = q.drop
  /\ g.chunk = q.chunk /\ g.specs = q.specs
  /\ \/ g.computed = q.computed
     \/ q.status = "remote" /\ \E x \in recv : g.computed = x.valid

(* p is the request r, which was a, once the output for S is applied. *)
Settles(r, p, a, S) ==
  /\ p.tokens = a.tokens
  /\ p.status \notin Past =>
       /\ p.status = a.status /\ p.computed = a.computed
       /\ p.placeholders = a.placeholders /\ p.stale = a.stale /\ p.drop = a.drop
       /\ p.chunk = a.chunk
       /\ p.specs = IF ~Async /\ r \in S /\ p.status \notin Over THEN DraftsOf(a) ELSE a.specs

LEMMA UpdatedIs ==
  ASSUME QueueInv, \A q \in Reqs : Numbers(req[q]),
         NEW results, NEW recv, NEW sent, NEW send, Applies(results, recv, sent),
         UpdateFromOutput(results, recv, sent, send), NEW r \in Reqs
  PROVE  LET of == Items(results) IN
         \E g, a :
           /\ Loaded(g, req[r], recv)
           /\ r \notin DOMAIN of => a = g
           /\ r \in DOMAIN of => \/ a = Drained(g, of[r].n) /\ req[r].status = "remote"
                                 \/ a = AfterOutput(r, g, of[r])
           /\ Settles(r, req'[r], a, DOMAIN of)
<1> DEFINE
      of == Items(results)
      counted == DeferBlockFree /\ results # <<>>
      aged == [q \in Reqs |-> IF counted THEN [req[q] EXCEPT !.lastSeq = Max({@ - 1, 0})]
                              ELSE req[q]]
      failed == LoadsFailed(recv)
      loaded == AfterLoads(aged, recv)
      after == [q \in Reqs |-> IF q \in DOMAIN of
                                THEN IF q \in failed /\ ~conf.recompute
                                       THEN Drained(loaded[q], of[q].n)
                                       ELSE AfterOutput(q, loaded[q], of[q])
                                ELSE loaded[q]]
      order == [i \in DOMAIN results |-> results[i].id]
      stopped == {q \in DOMAIN of : StopsRequest(loaded[q], of[q])}
                 \ (IF conf.recompute THEN {} ELSE failed)
      finished == {q \in stopped : after[q].status = "finished"}
      wrong == {q \in grammarErrors \cup (IF conf.recompute THEN {} ELSE failed) :
                    after[q].status \notin Over}
      marked == [q \in Reqs |-> IF q \in wrong THEN [after[q] EXCEPT !.status = "finished"]
                                ELSE after[q]]
      kept == (finished \cup wrong) \cap send
      release == Within(order, finished \ kept)
                 \o SetToSeq((wrong \ kept) \ failed)
                 \o SetToSeq(Received(marked, {x.id : x \in recv}))
                 \o SetToSeq(sent)
<1>1. req' = UpdateDraftTokenIds(Deleted(marked, ToSet(release)), IF Async THEN {} ELSE DOMAIN of)
  BY Zenon DEF UpdateFromOutput
<1>2. PICK errors, X :
        req' = UpdateDraftTokenIds(
                 Deleted([q \in Reqs |-> IF q \in errors THEN [after[q] EXCEPT !.status = "finished"]
                                         ELSE after[q]], X),
                 IF Async THEN {} ELSE DOMAIN of)
  <2>1. PICK errors, X : errors = wrong /\ X = ToSet(release)
    OBVIOUS
  <2> HIDE DEF after, release, wrong, of
  <2> QED BY <1>1, <2>1
<1> HIDE DEF release, kept, marked, wrong, finished, stopped, order
<1>3. PICK o, g, a : o = req[r] /\ g = loaded[r] /\ a = after[r]
  OBVIOUS
<1>4. DOMAIN o = Fields /\ Numbers(o)
  BY <1>3 DEF QueueInv, RequestInv
<1>5. PICK h : h = aged[r]
  OBVIOUS
<1>6. /\ DOMAIN h = Fields /\ h.status = o.status /\ h.tokens = o.tokens
      /\ h.placeholders = o.placeholders /\ h.stale = o.stale /\ h.drop = o.drop
      /\ h.chunk = o.chunk /\ h.specs = o.specs /\ h.computed = o.computed
  <2>1. h = IF counted THEN [o EXCEPT !.lastSeq = Max({@ - 1, 0})] ELSE o
    BY <1>3, <1>5
  <2> HIDE DEF counted
  <2> QED BY <1>4, <2>1, FieldsAre
<1>7. \/ g = h
      \/ o.status = "remote" /\ \E x \in recv : x.valid \in Int /\ g = [h EXCEPT !.computed = x.valid]
  <2>1. CASE r \notin failed
    <3>1. g = h
      BY <1>3, <1>5, <2>1 DEF AfterLoads
    <3> QED BY <3>1
  <2>2. CASE r \in failed
    <3>1. PICK x : x = CHOOSE y \in recv : y.id = r
      OBVIOUS
    <3>2. o.status = "remote" /\ \E y \in recv : y.id = r
      BY <1>3, <2>2 DEF LoadsFailed
    <3>3. x \in recv
      BY <3>1, <3>2
    <3>4. x.valid \in Int
      BY <3>3 DEF Applies
    <3>5. g = [h EXCEPT !.computed = x.valid]
      BY <1>3, <1>5, <2>2, <3>1 DEF AfterLoads
    <3> QED BY <3>2, <3>3, <3>4, <3>5
  <2> QED BY <2>1, <2>2
<1> HIDE DEF loaded, aged
<1>8. Numbers(g)
  <2>1. Renumbered(g, o, counted)
    <3>1. h = IF counted THEN [o EXCEPT !.lastSeq = Max({@ - 1, 0})] ELSE o
      BY <1>3, <1>5 DEF aged
    <3>2. \E v \in Int : g = h \/ g = [h EXCEPT !.computed = v]
      BY <1>7
    <3>3. PICK v \in Int : g = h \/ g = [h EXCEPT !.computed = v]
      BY <3>2
    <3> HIDE DEF counted
    <3> QED BY <1>4, <3>1, <3>3, RenumberedIs
  <2> QED BY <2>1 DEF Renumbered
<1>9. Loaded(g, o, recv)
  <2>1. CASE g = h
    BY <1>6, <1>8, <2>1 DEF Loaded
  <2>2. CASE o.status = "remote" /\ \E x \in recv : x.valid \in Int /\ g = [h EXCEPT !.computed = x.valid]
    <3>1. PICK x \in recv : g = [h EXCEPT !.computed = x.valid]
      BY <2>2
    <3>2. /\ DOMAIN g = Fields /\ g.status = h.status /\ g.tokens = h.tokens
          /\ g.placeholders = h.placeholders /\ g.stale = h.stale /\ g.drop = h.drop
          /\ g.chunk = h.chunk /\ g.specs = h.specs /\ g.computed = x.valid
      BY <1>6, <3>1, FieldsAre
    <3> QED BY <1>6, <1>8, <2>2, <3>2 DEF Loaded
  <2> QED BY <1>7, <2>1, <2>2
<1>10. /\ r \notin DOMAIN of => a = g
       /\ r \in DOMAIN of => \/ a = Drained(g, of[r].n) /\ o.status = "remote"
                             \/ a = AfterOutput(r, g, of[r])
  <2>1. r \in failed => o.status = "remote"
    BY <1>3 DEF LoadsFailed, Applies
  <2> HIDE DEF failed
  <2> QED BY <1>3, <2>1
<1> HIDE DEF after, of
<1>11. DOMAIN a = Fields
  <2>1. DOMAIN g = Fields
    BY <1>9 DEF Loaded
  <2> QED BY <1>10, <2>1, DrainedIs, AfterOutputIs DEF Turned
<1>12. PICK m, e, p : /\ m = IF r \in errors THEN [a EXCEPT !.status = "finished"] ELSE a
                      /\ e = IF r \in X THEN [m EXCEPT !.status = "gone", !.blocks = <<>>] ELSE m
                      /\ p = req'[r]
  OBVIOUS
<1>13. p = IF r \in (IF Async THEN {} ELSE DOMAIN of) /\ e.status \notin Over
             THEN [e EXCEPT !.specs = DraftsOf(e)] ELSE e
  <2>1. PICK Y, D : Y = (IF Async THEN {} ELSE DOMAIN of) /\ D = Deleted([q \in Reqs |->
             IF q \in errors THEN [after[q] EXCEPT !.status = "finished"] ELSE after[q]], X)
    OBVIOUS
  <2>2. D[r] = e
    BY <1>3, <1>12, <2>1 DEF Deleted
  <2>3. req' = UpdateDraftTokenIds(D, Y)
    BY <1>2, <2>1
  <2>4. req'[r] = IF r \in Y /\ D[r].status \notin Over THEN [D[r] EXCEPT !.specs = DraftsOf(D[r])] ELSE D[r]
    BY <2>3 DEF UpdateDraftTokenIds
  <2> QED BY <1>12, <2>1, <2>2, <2>4
<1>14. DOMAIN m = Fields /\ (r \in errors => m.status = "finished")
  BY <1>11, <1>12, FieldsAre
<1>15. DOMAIN e = Fields /\ (r \in errors \cup X => e.status \in Past)
  BY <1>12, <1>14, FieldsAre DEF Past
<1>16. p.status = e.status
  BY <1>13, <1>15, FieldsAre
<1>17. p.tokens = a.tokens
  <2>1. m.tokens = a.tokens
    BY <1>11, <1>12, FieldsAre
  <2>2. e.tokens = m.tokens
    BY <1>12, <1>14, FieldsAre
  <2>3. p.tokens = e.tokens
    BY <1>13, <1>15, FieldsAre
  <2> QED BY <2>1, <2>2, <2>3
<1>18. Settles(r, p, a, DOMAIN of)
  <2>1. SUFFICES ASSUME p.status \notin Past
                 PROVE  Settles(r, p, a, DOMAIN of)
    BY <1>17 DEF Settles
  <2>2. e = a
    BY <1>12, <1>15, <1>16, <2>1
  <2>3. p = IF ~Async /\ r \in DOMAIN of /\ a.status \notin Over
              THEN [a EXCEPT !.specs = DraftsOf(a)] ELSE a
    BY <1>13, <2>2
  <2>4. CASE ~Async /\ r \in DOMAIN of /\ a.status \notin Over
    <3>1. p = [a EXCEPT !.specs = DraftsOf(a)]
      BY <2>3, <2>4
    <3>2. /\ p.status = a.status /\ p.tokens = a.tokens /\ p.computed = a.computed
          /\ p.placeholders = a.placeholders /\ p.stale = a.stale /\ p.drop = a.drop
          /\ p.chunk = a.chunk /\ p.specs = DraftsOf(a)
      BY <1>11, <3>1, FieldsAre
    <3> QED BY <2>4, <3>2 DEF Settles
  <2>5. CASE ~(~Async /\ r \in DOMAIN of /\ a.status \notin Over)
    <3>1. p = a
      BY <2>3, <2>5
    <3> QED BY <2>5, <3>1 DEF Settles
  <2> QED BY <2>4, <2>5
<1> QED BY <1>3, <1>9, <1>10, <1>12, <1>18 DEF of

(* A running request whose first result in flight is past. *)
LEMMA NextRuns ==
  ASSUME NEW async \in BOOLEAN, NEW p, Numbers(p), p.stale = 0, NEW s, NEW y, Result3(y),
         Agrees(async, p, s, Nothing, y), SlotIs(s, Nothing, y), Follows(p, Nothing, y),
         ~async => y.n = 0, s.computed < s.prefill => p.specs = 0
  PROVE  RunsRight(async, p, s, FALSE, y, Nothing)
<1>1. Agrees(async, p, s, y, Nothing) /\ SlotIs(s, y, Nothing) /\ Follows(p, y, Nothing)
  BY SwapIs
<1>2. Valid(p, y) = y
  BY DEF Valid
<1>3. DraftsAre(async, p, s, y)
  BY DEF DraftsAre
<1> QED BY <1>1, <1>2, <1>3 DEF RunsRight

LEMMA DeliveredRuns ==
  ASSUME NEW async \in BOOLEAN, NEW q, Numbers(q), NEW s, NEW x, Result3(x), x.n # 0,
         NEW y, Result3(y),
         Agrees(async, q, s, x, y), SlotIs(s, x, y), Follows(q, x, y), NEW a,
         a.tokens = q.tokens + x.gen,
         a.computed = IF q.computed > 0 THEN q.computed - Rejected(x) ELSE q.computed,
         a.placeholders = (IF q.placeholders > 0 THEN q.placeholders - Rejected(x)
                                                 ELSE q.placeholders)
                          - (IF async THEN x.gen ELSE 0)
  PROVE  /\ Agrees(async, a, s, Nothing, y) /\ SlotIs(s, Nothing, y) /\ Follows(a, Nothing, y)
         /\ a.computed >= 0
<1>1. /\ q.computed \in Int /\ q.tokens \in Int /\ q.placeholders \in Int
      /\ s.computed \in Nat /\ s.len \in Nat
      /\ x.gen \in Nat /\ y.gen \in Nat /\ Rejected(x) \in Nat /\ Rejected(y) \in Nat
      /\ Expected(x) = x.gen + Rejected(x) /\ Expected(y) \in Nat
  BY RejectedIs DEF Numbers, SlotIs, Result3
<1>2. PICK qc \in Int, qt \in Int, qp \in Int :
        qc = q.computed /\ qt = q.tokens /\ qp = q.placeholders
  BY <1>1
<1>3. PICK sc \in Nat, sl \in Nat : sc = s.computed /\ sl = s.len
  BY <1>1
<1>4. PICK xg \in Nat, yg \in Nat, xr \in Nat, yr \in Nat, ye \in Nat :
        xg = x.gen /\ yg = y.gen /\ xr = Rejected(x) /\ yr = Rejected(y) /\ ye = Expected(y)
  BY <1>1
<1>5. /\ qc = sc + xr + yr /\ qt + xg + yg = sl
      /\ qp = IF async THEN (xg + xr) + ye ELSE 0
  BY <1>1, <1>2, <1>3, <1>4 DEF Agrees
<1>6. /\ a.tokens = qt + xg /\ a.computed = IF qc > 0 THEN qc - xr ELSE qc
      /\ a.placeholders = (IF qp > 0 THEN qp - xr ELSE qp) - (IF async THEN xg ELSE 0)
  BY <1>2, <1>4
<1>7. a.computed = sc + 0 + yr
  BY <1>5, <1>6
<1>8. a.placeholders = IF async THEN 0 + ye ELSE 0
  <2>1. CASE async
    BY <1>5, <1>6, <2>1
  <2>2. CASE ~async
    <3>1. qp = 0
      BY <1>5, <2>2
    <3>2. a.placeholders = (IF qp > 0 THEN qp - xr ELSE qp) - 0
      BY <1>6, <2>2
    <3>3. a.placeholders = 0
      BY <3>1, <3>2
    <3> QED BY <2>2, <3>3
  <2> QED BY <2>1, <2>2
<1>9. a.tokens + 0 + yg = sl
  BY <1>5, <1>6
<1>10. Agrees(async, a, s, Nothing, y)
  BY <1>3, <1>4, <1>7, <1>8, <1>9, NothingIs DEF Agrees
<1>11. SlotIs(s, Nothing, y)
  BY NothingIs DEF SlotIs
<1>12. Follows(a, Nothing, y)
  <2>1. y.n # 0 => y.pos = a.tokens
    BY <1>2, <1>4, <1>6 DEF Follows
  <2>2. a.tokens + 0 = a.tokens
    BY <1>6
  <2> QED BY <2>1, <2>2, NothingIs DEF Follows
<1>13. a.computed >= 0
  BY <1>7
<1> QED BY <1>10, <1>11, <1>12, <1>13

(* What the flight holds for a request once its oldest step is applied. *)
LEMMA ProcessBrings ==
  ASSUME NEW out, NEW n, Shifted(out, n), NEW r
  PROVE  /\ Brought(1, r) = IF r \in DOMAIN Items(out.results) THEN Items(out.results)[r] ELSE Nothing
         /\ Brought(1, r)' = Brought(2, r) /\ Brought(2, r)' = Nothing
         /\ n = 1 => Brought(2, r) = Nothing
<1>1. /\ n \in {1, 2} /\ DOMAIN flight = 1 .. n /\ DOMAIN flight' = 1 .. n - 1
      /\ out = flight[1] /\ (n = 2 => flight'[1] = flight[2])
  BY DEF Shifted
<1>2. Brought(1, r) = IF r \in DOMAIN Items(out.results) THEN Items(out.results)[r] ELSE Nothing
  BY <1>1 DEF Brought
<1>3. CASE n = 1
  <2>1. 1 \notin DOMAIN flight' /\ 2 \notin DOMAIN flight' /\ 2 \notin DOMAIN flight
    BY <1>1, <1>3
  <2> QED BY <1>2, <2>1 DEF Brought
<1>4. CASE n = 2
  <2>1. 1 \in DOMAIN flight' /\ 2 \notin DOMAIN flight' /\ 2 \in DOMAIN flight /\ flight'[1] = flight[2]
    BY <1>1, <1>4
  <2> QED BY <1>2, <1>4, <2>1 DEF Brought
<1> QED BY <1>1, <1>3, <1>4

LEMMA BroughtShares ==
  ASSUME QueueInv, BlockInv, NEW k, NEW r
  PROVE  Share(k, r) = Brought(k, r).n
BY BroughtIs DEF QueueInv, BlockInv, NumInv

(* Applying the oldest output: what is known of a request before and after. *)
Turns(r, out, n) ==
  /\ Shifted(out, n) /\ pass.pc = "idle" /\ pass' = pass /\ conf' = conf /\ slots' = slots
  /\ \A x \in out.recv : x.valid >= 0
  /\ LET of == Items(out.results) IN
     \E g, a :
       /\ Loaded(g, req[r], out.recv)
       /\ r \notin DOMAIN of => a = g
       /\ r \in DOMAIN of => \/ a = Drained(g, of[r].n) /\ req[r].status = "remote" /\ req[r].drop
                             \/ a = AfterOutput(r, g, of[r])
       /\ Settles(r, req'[r], a, DOMAIN of)

(* No result: a request stays what it is, and a load may have failed. *)
LEMMA NoResultRuns ==
  ASSUME QueueInv, BlockInv, RunInv, NEW r \in Reqs, Numbers(req'[r]),
         NEW out, NEW n, Turns(r, out, n), r \notin DOMAIN Items(out.results),
         NEW p, p = req'[r], p.status \notin Past, ~Async => n = 1
  PROVE  /\ p.status = "running" => RunsRight(Async, p, slots[r], FALSE, Brought(2, r), Nothing)
         /\ p.status # "running" => IdlesRight(Async, p, Brought(2, r), Nothing)
         /\ SignsRight(Async, Solo, p)
<1>1. PICK q : q = req[r]
  OBVIOUS
<1>2. PICK g : Loaded(g, q, out.recv) /\ Settles(r, p, g, DOMAIN Items(out.results))
  BY <1>1 DEF Turns
<1>3. PICK y : y = Brought(2, r)
  OBVIOUS
<1>4. Brought(1, r) = Nothing /\ Result3(y) /\ (~Async => y = Nothing)
  BY <1>3, ProcessBrings, ResultsAre DEF Turns
<1>5. /\ p.status = q.status /\ p.tokens = q.tokens /\ p.placeholders = q.placeholders
      /\ p.stale = q.stale /\ p.drop = q.drop /\ p.specs = q.specs
      /\ p.computed = q.computed \/ (q.status = "remote" /\ p.computed >= 0)
  <2>1. /\ p.status = g.status /\ p.tokens = g.tokens /\ p.placeholders = g.placeholders
        /\ p.stale = g.stale /\ p.drop = g.drop /\ p.specs = g.specs /\ p.computed = g.computed
    BY <1>2 DEF Settles
  <2>2. \A x \in out.recv : x.valid >= 0
    BY DEF Turns
  <2> QED BY <1>2, <2>1, <2>2 DEF Loaded
<1>6. NewIn(r) = FALSE
  <2>1. pass.items = <<>>
    BY DEF Turns, QueueInv, PassInv
  <2> QED BY <2>1 DEF NewIn
<1>7. /\ q.status = "running" => RunsRight(Async, q, slots[r], FALSE, Nothing, y)
      /\ q.status # "running" => IdlesRight(Async, q, Nothing, y)
      /\ SignsRight(Async, Solo, q)
  <2>1. RunFor(r)
    BY DEF RunInv
  <2>2. q.status \notin Past
    BY <1>5
  <2> QED BY <1>1, <1>3, <1>4, <1>6, <2>1, <2>2 DEF RunFor
<1>8. SignsRight(Async, Solo, p)
  BY <1>5, <1>7 DEF SignsRight
<1>9. Numbers(q) /\ Numbers(p) /\ Nothing.n = 0 /\ Async \in BOOLEAN
  <2>1. Numbers(q)
    BY <1>1, NumbersAre DEF QueueInv
  <2>2. Async \in BOOLEAN
    BY AsyncIs DEF BlockInv
  <2> QED BY <2>1, <2>2, NothingIs
<1>10. ASSUME p.status = "running"
       PROVE  RunsRight(Async, p, slots[r], FALSE, y, Nothing)
  <2>1. PICK s : s = slots[r]
    OBVIOUS
  <2>2. RunsRight(Async, q, s, FALSE, Nothing, y) /\ p.computed = q.computed
    BY <1>5, <1>7, <1>10, <2>1
  <2>3. q.stale = 0 /\ Valid(q, Nothing) = Nothing
    BY <1>9, <2>2 DEF RunsRight, Valid
  <2>4. /\ Agrees(Async, q, s, Nothing, y) /\ SlotIs(s, Nothing, y) /\ Follows(q, Nothing, y)
        /\ s.computed < s.prefill => q.specs = 0
    BY <1>9, <2>2, <2>3 DEF RunsRight, DraftsAre
  <2>5. Agrees(Async, p, s, Nothing, y) /\ Follows(p, Nothing, y)
    BY <1>5, <2>2, <2>4 DEF Agrees, Follows
  <2>6. RunsRight(Async, p, s, FALSE, y, Nothing)
    BY <1>4, <1>5, <1>9, <2>3, <2>4, <2>5, NextRuns
  <2> QED BY <2>1, <2>6
<1>11. ASSUME p.status # "running"
       PROVE  IdlesRight(Async, p, y, Nothing)
  <2>1. IdlesRight(Async, q, Nothing, y)
    BY <1>5, <1>7, <1>11
  <2>2. Async /\ ~p.drop => Follows(p, y, Nothing)
    <3>1. SUFFICES ASSUME Async, ~p.drop PROVE Follows(p, y, Nothing)
      OBVIOUS
    <3>2. Follows(q, Nothing, y)
      BY <1>5, <2>1, <3>1 DEF IdlesRight
    <3>3. y.n # 0 => y.pos = q.tokens + 0
      BY <3>2, NothingIs DEF Follows
    <3>4. q.tokens + 0 = q.tokens
      BY <1>9 DEF Numbers
    <3> QED BY <1>5, <1>9, <3>3, <3>4 DEF Follows
  <2> QED BY <1>4, <1>5, <1>9, <2>1, <2>2 DEF IdlesRight
<1> QED BY <1>3, <1>8, <1>10, <1>11

LEMMA DrainedNumbersAre ==
  ASSUME NEW q, DOMAIN q = Fields, NEW n, NEW a, a = Drained(q, n)
  PROVE  /\ DOMAIN a = Fields /\ a.status = q.status /\ a.tokens = q.tokens
         /\ a.computed = q.computed /\ a.placeholders = q.placeholders /\ a.drop = q.drop
         /\ a.chunk = q.chunk /\ a.specs = q.specs
         /\ a.stale = IF q.stale > 0 THEN q.stale - n ELSE 0
BY FieldsAre DEF Drained

(* A result that reaches a request that runs. *)
LEMMA RunningTurns ==
  ASSUME QueueInv, BlockInv, RunInv, Alone, NEW r \in Reqs, Numbers(req'[r]),
         NEW q, q = req[r], q.status = "running", NEW p, p = req'[r], p.status \notin Past,
         NEW x, Result3(x), x.n # 0, NEW y, Result3(y), ~Async => y = Nothing,
         NEW s, RunsRight(Async, q, s, FALSE, x, y), SignsRight(Async, Solo, q),
         NEW g, NEW recv, Loaded(g, q, recv), NEW a, a = AfterOutput(r, g, x),
         NEW S, r \in S, Settles(r, p, a, S)
  PROVE  /\ p.status = "running" => RunsRight(Async, p, s, FALSE, y, Nothing)
         /\ p.status # "running" => IdlesRight(Async, p, y, Nothing)
         /\ SignsRight(Async, Solo, p)
<1>1. /\ DOMAIN g = Fields /\ Numbers(g) /\ g.status = "running" /\ g.tokens = q.tokens
      /\ g.placeholders = q.placeholders /\ g.stale = q.stale /\ g.drop = q.drop
      /\ g.chunk = q.chunk /\ g.specs = q.specs /\ g.computed = q.computed
  BY DEF Loaded
<1>2. /\ p.status = a.status /\ p.tokens = a.tokens /\ p.computed = a.computed
      /\ p.placeholders = a.placeholders /\ p.stale = a.stale /\ p.drop = a.drop
      /\ p.chunk = a.chunk
      /\ p.specs = IF ~Async /\ p.status \notin Over THEN DraftsOf(a) ELSE a.specs
  BY DEF Settles
<1>3. Async \in BOOLEAN /\ Numbers(q) /\ Numbers(p)
  <2>1. Numbers(q)
    BY NumbersAre DEF QueueInv
  <2>2. Async \in BOOLEAN
    BY AsyncIs DEF BlockInv
  <2> QED BY <2>1, <2>2
<1>4. Agrees(Async, q, s, Valid(q, x), y) /\ SlotIs(s, Valid(q, x), y)
      /\ DraftsAre(Async, q, s, x) /\ Follows(q, Valid(q, x), y)
  BY DEF RunsRight
<1>5. CASE q.stale > 0
  <2>1. q.stale = x.n /\ q.drop /\ Valid(q, x) = Nothing
    BY <1>3, <1>5 DEF RunsRight, Valid, Numbers
  <2>2. Discarded(g)
    BY <1>1, <1>5, <2>1 DEF Discarded
  <2>3. a = Drained(g, x.n)
    BY <1>1, <2>2 DEF AfterOutput
  <2>4. Async
    BY <1>5 DEF SignsRight
  <2>5. /\ a.status = "running" /\ a.tokens = q.tokens /\ a.computed = q.computed
        /\ a.placeholders = q.placeholders /\ a.specs = q.specs /\ a.stale = q.stale - x.n
    BY <1>1, <1>5, <2>3, DrainedNumbersAre
  <2>6. p.stale = 0
    BY <1>2, <2>1, <2>5 DEF Result3
  <2>7. p.status = "running" /\ p.tokens = q.tokens /\ p.computed = q.computed
        /\ p.placeholders = q.placeholders /\ p.specs = q.specs
    BY <1>2, <2>4, <2>5
  <2>8. Agrees(Async, p, s, Nothing, y) /\ SlotIs(s, Nothing, y) /\ Follows(p, Nothing, y)
    BY <1>4, <2>1, <2>7 DEF Agrees, Follows
  <2>9. s.computed < s.prefill => p.specs = 0
    BY <1>4, <2>4, <2>7 DEF DraftsAre
  <2>10. RunsRight(Async, p, s, FALSE, y, Nothing)
    BY <1>3, <2>4, <2>6, <2>8, <2>9, NextRuns
  <2>11. SignsRight(Async, Solo, p)
    BY <2>4, <2>6, <2>7 DEF SignsRight
  <2> QED BY <2>7, <2>10, <2>11
<1>6. CASE ~(q.stale > 0)
  <2>1. q.stale = 0 /\ Valid(q, x) = x
    BY <1>3, <1>6 DEF SignsRight, Valid, Numbers
  <2>2. ~Discarded(g) /\ g.status # "gone"
    BY <1>1, <1>6 DEF Discarded, Over
  <2>3. PICK d : d = Delivered(g, x)
    OBVIOUS
  <2>4. a = IF StopsAt(g, x) = {} THEN d ELSE Stopped(r, d)
    BY <2>2, <2>3 DEF AfterOutput
  <2>5. /\ DOMAIN d = Fields /\ d.status = "running" /\ d.drop = q.drop /\ d.chunk = q.chunk
        /\ d.specs = q.specs /\ d.stale = 0 /\ d.tokens = q.tokens + Kept(g, x)
        /\ d.computed = IF q.computed > 0 THEN q.computed - Rejected(x) ELSE q.computed
        /\ d.placeholders = (IF q.placeholders > 0 THEN q.placeholders - Rejected(x)
                                                   ELSE q.placeholders)
                            - (IF Async THEN Kept(g, x) ELSE 0)
    BY <1>1, <2>1, <2>3, DeliveredNumbersAre
  <2>6. CASE StopsAt(g, x) = {}
    <3>1. a = d /\ Kept(g, x) = x.gen
      BY <2>4, <2>6 DEF Kept
    <3>2. /\ Agrees(Async, d, s, Nothing, y) /\ SlotIs(s, Nothing, y) /\ Follows(d, Nothing, y)
          /\ d.computed >= 0
      BY <1>3, <1>4, <2>1, <2>5, <3>1, DeliveredRuns
    <3>3. /\ p.status = "running" /\ p.tokens = d.tokens /\ p.computed = d.computed
          /\ p.placeholders = d.placeholders /\ p.stale = 0
          /\ p.specs = IF ~Async THEN DraftsOf(d) ELSE q.specs
      BY <1>2, <2>5, <3>1 DEF Over
    <3>4. Agrees(Async, p, s, Nothing, y) /\ Follows(p, Nothing, y)
      BY <3>2, <3>3 DEF Agrees, Follows
    <3>5. s.computed < s.prefill => p.specs = 0
      BY <1>4, <2>5, <3>3 DEF DraftsAre, DraftsOf
    <3>6. ~Async => y.n = 0
      BY NothingIs
    <3>7. RunsRight(Async, p, s, FALSE, y, Nothing)
      BY <1>3, <3>2, <3>3, <3>4, <3>5, <3>6, NextRuns
    <3>8. SignsRight(Async, Solo, p)
      <4>1. x.gen \in Nat /\ q.tokens \in Int /\ p.tokens = q.tokens + x.gen
        BY <1>3, <2>5, <3>1, <3>3 DEF Numbers, Result3
      <4> QED BY <3>2, <3>3, <4>1 DEF SignsRight
    <3> QED BY <3>3, <3>7, <3>8
  <2>7. CASE StopsAt(g, x) # {}
    <3>1. a = Stopped(r, d)
      BY <2>4, <2>7
    <3>2. a.status \in {"finished", "stream", "waiting"}
          /\ (a.status \in {"stream", "waiting"} => r \in conf.sessions)
      BY <2>5, <3>1, StoppedIs
    <3>3. r \in conf.sessions /\ p.status # "running"
      BY <1>2, <3>2 DEF Past
    <3>4. ~Async /\ ~Solo
      BY <3>3 DEF Alone, Async, Solo
    <3>5. a.computed = d.computed /\ a.placeholders = d.placeholders /\ a.stale = 0
      BY <2>5, <3>1, StoppedNumbersAre
    <3>6. q.placeholders = 0
      BY <1>4, <3>4 DEF Agrees
    <3>7. p.placeholders = 0 /\ p.stale = 0
      BY <1>2, <2>5, <3>4, <3>5, <3>6
    <3>8. p.computed >= 0
      <4>1. q.computed = s.computed + Rejected(x) + Rejected(Nothing) /\ s.computed \in Nat
        BY <1>4, <2>1, <3>4 DEF Agrees, SlotIs
      <4>2. Rejected(x) \in Nat /\ Rejected(Nothing) = 0
        BY RejectedIs, NothingIs
      <4>3. p.computed = IF q.computed > 0 THEN q.computed - Rejected(x) ELSE q.computed
        BY <1>2, <2>5, <3>5
      <4> QED BY <4>1, <4>2, <4>3
    <3>9. IdlesRight(Async, p, y, Nothing)
      BY <3>4, <3>7, NothingIs DEF IdlesRight
    <3>10. SignsRight(Async, Solo, p)
      BY <3>4, <3>7, <3>8 DEF SignsRight
    <3> QED BY <3>3, <3>9, <3>10
  <2> QED BY <2>6, <2>7
<1> QED BY <1>5, <1>6

(* A result that reaches a request that was preempted meanwhile. *)
LEMMA IdleTurns ==
  ASSUME QueueInv, BlockInv, RunInv, Alone, NEW r \in Reqs, Numbers(req'[r]),
         NEW q, q = req[r], q.status \notin {"running"} \cup Over,
         NEW p, p = req'[r], p.status \notin Past,
         NEW x, x = Brought(1, r), Result3(x), x.n # 0, NEW y, y = Brought(2, r), Result3(y),
         IdlesRight(Async, q, x, y), SignsRight(Async, Solo, q),
         NEW g, NEW recv, Loaded(g, q, recv), \A z \in recv : z.valid >= 0, NEW a,
         (a = Drained(g, x.n) /\ q.drop) \/ a = AfterOutput(r, g, x),
         NEW S, r \in S, Settles(r, p, a, S)
  PROVE  /\ p.status # "running"
         /\ IdlesRight(Async, p, y, Nothing)
         /\ SignsRight(Async, Solo, p)
<1>1. /\ DOMAIN g = Fields /\ Numbers(g) /\ g.status = q.status /\ g.tokens = q.tokens
      /\ g.placeholders = q.placeholders /\ g.stale = q.stale /\ g.drop = q.drop
      /\ g.specs = q.specs /\ g.computed >= 0
  BY DEF Loaded, SignsRight
<1>2. Async /\ conf.sessions = {}
  <2>1. Async
    BY DEF IdlesRight
  <2>2. conf.sessions # {} => ~Async
    BY DEF Alone, Async
  <2> QED BY <2>1, <2>2
<1>3. q.stale = x.n + y.n /\ x.n \in Nat \ {0} /\ y.n \in Nat
  <2>1. Share(1, r) = x.n /\ Share(2, r) = y.n
    BY BroughtShares
  <2>2. q.stale = q.inFlight /\ q.inFlight = Share(1, r) + Share(2, r)
    BY <1>2 DEF BlockInv, ShareInv, Past, Over
  <2> QED BY <2>1, <2>2 DEF Result3
<1>4. /\ p.status = a.status /\ p.tokens = a.tokens /\ p.computed = a.computed
      /\ p.placeholders = a.placeholders /\ p.stale = a.stale /\ p.drop = a.drop
      /\ p.specs = a.specs
  BY <1>2 DEF Settles
<1>5. q.placeholders = 0 /\ q.specs = 0 /\ (~q.drop => Follows(q, x, y))
  BY <1>2 DEF IdlesRight
<1>6. g.stale > 0 /\ g.status \notin Over
  BY <1>1, <1>3
<1>7. CASE a = Drained(g, x.n) /\ q.drop
  <2>1. /\ a.status = q.status /\ a.tokens = q.tokens /\ a.computed = g.computed
        /\ a.placeholders = 0 /\ a.drop = q.drop /\ a.specs = 0
        /\ a.stale = q.stale - x.n
    <3>1. DOMAIN g = Fields /\ a = Drained(g, x.n)
      BY <1>1, <1>7
    <3>2. /\ a.status = g.status /\ a.tokens = g.tokens /\ a.computed = g.computed
          /\ a.placeholders = g.placeholders /\ a.drop = g.drop /\ a.specs = g.specs
          /\ a.stale = IF g.stale > 0 THEN g.stale - x.n ELSE 0
      BY <3>1, DrainedNumbersAre
    <3> QED BY <1>1, <1>5, <1>6, <3>2
  <2>2. p.stale = y.n
    BY <1>3, <1>4, <2>1
  <2>3. p.status # "running" /\ p.drop /\ p.placeholders = 0 /\ p.specs = 0 /\ p.computed >= 0
        /\ p.tokens = q.tokens
    BY <1>1, <1>4, <1>7, <2>1
  <2>4. IdlesRight(Async, p, y, Nothing)
    BY <1>2, <2>3 DEF IdlesRight
  <2>5. SignsRight(Async, Solo, p)
    BY <1>2, <1>3, <2>2, <2>3 DEF SignsRight
  <2> QED BY <2>3, <2>4, <2>5
<1>8. CASE q.drop
  <2>1. Discarded(g) /\ g.status # "gone"
    BY <1>1, <1>6, <1>8 DEF Discarded, Over
  <2>2. AfterOutput(r, g, x) = Drained(g, x.n)
    BY <2>1 DEF AfterOutput
  <2> QED BY <1>7, <1>8, <2>2
<1>9. CASE ~q.drop
  <2>1. a = AfterOutput(r, g, x) /\ ~Discarded(g) /\ g.status # "gone"
    BY <1>1, <1>6, <1>9 DEF Discarded, Over
  <2>2. PICK d : d = Delivered(g, x)
    OBVIOUS
  <2>3. a = IF StopsAt(g, x) = {} THEN d ELSE Stopped(r, d)
    BY <2>1, <2>2 DEF AfterOutput
  <2>4. /\ DOMAIN d = Fields /\ d.status = q.status /\ d.drop = q.drop
        /\ d.specs = 0 /\ d.stale = q.stale - x.n /\ d.tokens = q.tokens + Kept(g, x)
        /\ d.computed = g.computed /\ d.placeholders = 0 - 0
    BY <1>1, <1>5, <1>6, <2>2, DeliveredNumbersAre
  <2>5. StopsAt(g, x) = {}
    <3>1. SUFFICES ASSUME StopsAt(g, x) # {} PROVE FALSE
      OBVIOUS
    <3>2. a = [d EXCEPT !.status = "finished"]
      BY <1>2, <2>3, <3>1 DEF Stopped
    <3>3. a.status = "finished"
      BY <2>4, <3>2, FieldsAre
    <3> QED BY <1>4, <3>3 DEF Past
  <2>6. a = d /\ Kept(g, x) = x.gen
    BY <2>3, <2>5 DEF Kept
  <2>7. /\ p.status # "running" /\ p.drop = q.drop /\ p.placeholders = 0 /\ p.specs = 0
        /\ p.computed >= 0 /\ p.tokens = q.tokens + x.gen /\ p.stale = y.n
    BY <1>1, <1>3, <1>4, <2>4, <2>6
  <2>8. Follows(p, y, Nothing)
    BY <1>5, <1>9, <2>7, NothingIs DEF Follows
  <2>9. IdlesRight(Async, p, y, Nothing)
    BY <1>2, <2>7, <2>8 DEF IdlesRight
  <2>10. SignsRight(Async, Solo, p)
    <3>1. Solo => p.tokens >= 1
      <4>1. q.tokens \in Int /\ x.gen \in Nat
        BY <1>1 DEF Numbers, Result3
      <4> QED BY <2>7, <4>1 DEF SignsRight
    <3> QED BY <1>2, <1>3, <2>7, <3>1 DEF SignsRight
  <2> QED BY <2>7, <2>9, <2>10
<1> QED BY <1>8, <1>9

LEMMA ProcessOne ==
  ASSUME QueueInv, BlockInv, RunInv, Alone, NEW r \in Reqs, Numbers(req'[r]),
         NEW out, NEW n, Turns(r, out, n), Applies(out.results, out.recv, out.sent)
  PROVE  RunFor(r)'
<1>1. PICK of : of = Items(out.results)
  OBVIOUS
<1>2. PICK q, p, x, y, s :
        q = req[r] /\ p = req'[r] /\ x = Brought(1, r) /\ y = Brought(2, r) /\ s = slots[r]
  OBVIOUS
<1>3. /\ Brought(1, r)' = y /\ Brought(2, r)' = Nothing /\ (~Async => n = 1)
      /\ slots'[r] = s /\ Async' = Async /\ Solo' = Solo /\ NewIn(r) = FALSE /\ NewIn(r)' = FALSE
      /\ x = (IF r \in DOMAIN of THEN of[r] ELSE Nothing)
  <2>1. /\ Shifted(out, n) /\ pass' = pass /\ conf' = conf /\ slots' = slots /\ pass.items = <<>>
    BY DEF Turns, QueueInv, PassInv
  <2>2. Brought(1, r)' = y /\ Brought(2, r)' = Nothing
        /\ x = (IF r \in DOMAIN of THEN of[r] ELSE Nothing)
    BY <1>1, <1>2, <2>1, ProcessBrings
  <2>3. ~Async => n = 1
    <3>1. n \in {1, 2} /\ n = Len(flight)
      BY <2>1 DEF Shifted
    <3>2. ~Async => conf.concurrent = 1
      BY AsyncIs DEF BlockInv
    <3>3. Len(flight) <= conf.concurrent
      BY DEF BlockInv, ShareInv
    <3> QED BY <3>1, <3>2, <3>3
  <2>4. NewIn(r) = FALSE /\ NewIn(r)' = FALSE
    BY <2>1 DEF NewIn
  <2> QED BY <1>2, <2>1, <2>2, <2>3, <2>4 DEF Async, Solo
<1>4. SUFFICES ASSUME p.status \notin Past
               PROVE  /\ p.status = "running" => RunsRight(Async, p, s, FALSE, y, Nothing)
                      /\ p.status # "running" => IdlesRight(Async, p, y, Nothing)
                      /\ SignsRight(Async, Solo, p)
  <2>1. CASE p.status \in Past
    BY <1>2, <2>1 DEF RunFor, Past
  <2> QED BY <1>2, <1>3, <2>1 DEF RunFor
<1>5. Result3(x) /\ Result3(y) /\ (~Async => y = Nothing)
  <2>1. n = 1 => y = Nothing
    BY <1>2, ProcessBrings DEF Turns
  <2> QED BY <1>2, <1>3, <2>1, ResultsAre
<1>6. CASE r \notin DOMAIN of
  BY <1>1, <1>2, <1>3, <1>4, <1>6, NoResultRuns
<1>7. CASE r \in DOMAIN of
  <2>1. PICK g, a :
          /\ Loaded(g, q, out.recv)
          /\ \/ a = Drained(g, x.n) /\ q.status = "remote" /\ q.drop
             \/ a = AfterOutput(r, g, x)
          /\ Settles(r, p, a, DOMAIN of)
    BY <1>1, <1>2, <1>3, <1>7 DEF Turns
  <2>2. x.n # 0 /\ q.status \notin {"none", "grammar"} /\ \A z \in out.recv : z.valid >= 0
    <3>1. PICK S : S = out.results
      OBVIOUS
    <3>2. /\ \A i, j \in DOMAIN S : S[i].id = S[j].id => i = j
          /\ \A i \in DOMAIN S : S[i].n # 0 /\ (S[i].id = r => q.status \notin {"none", "grammar"})
      BY <1>2, <3>1 DEF Applies
    <3>3. /\ DOMAIN of = {S[i].id : i \in DOMAIN S}
          /\ \A i \in DOMAIN S : of[S[i].id] = S[i]
      <4>1. \A i, j \in DOMAIN S : S[i].id = S[j].id => i = j
        BY <3>2
      <4>2. /\ DOMAIN Items(S) = {S[i].id : i \in DOMAIN S}
            /\ \A i \in DOMAIN S : Items(S)[S[i].id] = S[i]
        BY <4>1, ItemsAre
      <4>3. of = Items(S)
        BY <1>1, <3>1
      <4> QED BY <4>2, <4>3
    <3>4. PICK i \in DOMAIN S : S[i].id = r /\ x = S[i]
      BY <1>3, <1>7, <3>3
    <3> QED BY <3>2, <3>4 DEF Turns
  <2>3. RunFor(r)
    BY DEF RunInv
  <2>4. q.status \notin Past
    <3>1. SUFFICES ASSUME q.status \in Past PROVE FALSE
      OBVIOUS
    <3>2. g.status \in Past /\ DOMAIN g = Fields
      BY <2>1, <3>1 DEF Loaded
    <3>3. a = Drained(g, x.n) \/ a = g
      BY <2>1, <3>2 DEF AfterOutput, Discarded, Past, Over
    <3>4. a.status = g.status
      BY <3>2, <3>3, DrainedNumbersAre
    <3> QED BY <1>4, <2>1, <3>2, <3>4 DEF Settles
  <2>5. SignsRight(Async, Solo, q)
    BY <1>2, <2>3, <2>4 DEF RunFor
  <2>6. CASE q.status = "running"
    <3>1. RunsRight(Async, q, s, FALSE, x, y)
      BY <1>2, <1>3, <2>3, <2>6 DEF RunFor
    <3>2. a = AfterOutput(r, g, x)
      BY <2>1, <2>6
    <3> QED BY <1>2, <1>4, <1>5, <1>7, <2>1, <2>2, <2>5, <2>6, <3>1, <3>2, RunningTurns
  <2>7. CASE q.status # "running"
    <3>1. IdlesRight(Async, q, x, y)
      BY <1>2, <2>3, <2>4, <2>7 DEF RunFor
    <3>2. q.status \notin {"running"} \cup Over
      BY <2>2, <2>4, <2>7 DEF Past, Over
    <3>3. (a = Drained(g, x.n) /\ q.drop) \/ a = AfterOutput(r, g, x)
      BY <2>1
    <3>4. /\ p.status # "running"
          /\ IdlesRight(Async, p, y, Nothing)
          /\ SignsRight(Async, Solo, p)
      BY <1>2, <1>4, <1>5, <1>7, <2>1, <2>2, <2>5, <3>1, <3>2, <3>3, IdleTurns
    <3> QED BY <3>4
  <2> QED BY <2>6, <2>7
<1> QED BY <1>6, <1>7

LEMMA ProcessRuns ==
  ASSUME QueueInv, FullInv, Alone, RunInv, IsFiniteSet(Reqs), Process
  PROVE  RunInv'
<1>1. PICK out, n, send, M, X, d, l : Processed(out, n, send, M, X, d, l)
  BY ProcessIs
<1>2. Shifted(out, n) /\ loads' = loads
  BY <1>1 DEF Processed
<1>3. 1 \in DOMAIN flight /\ out = flight[1]
  BY <1>2 DEF Shifted
<1>4. Applies(out.results, out.recv, out.sent)
  BY <1>3, OutputApplies
<1>5. PICK to : UpdateFromOutput(out.results, out.recv, out.sent, to)
  <2>1. out = Head(flight)
    BY <1>3 DEF Process
  <2> QED BY <2>1 DEF Process
<1>6. slots' = slots /\ pass.pc = "idle" /\ pass' = pass /\ conf' = conf /\ pass.items = <<>>
  <2>1. pass' = pass /\ conf' = conf
    BY <1>5 DEF UpdateFromOutput
  <2> QED BY <2>1 DEF Process, QueueInv, PassInv
<1>7. \A x \in out.recv : x.valid >= 0
  BY <1>3 DEF RunInv, LoadsFit
<1>8. \A r \in Reqs : Numbers(req[r])
  BY DEF FullInv, BlockInv, NumInv
<1>9. BlockInv
  BY DEF FullInv
<1>10. \A r \in Reqs : Numbers(req'[r])
  BY <1>1 DEF Processed, Outcome, Leaves
<1>11. ASSUME NEW r \in Reqs
       PROVE  RunFor(r)'
  <2>1. PICK of : of = Items(out.results)
    OBVIOUS
  <2>2. PICK g, a :
           /\ Loaded(g, req[r], out.recv)
           /\ r \notin DOMAIN of => a = g
           /\ r \in DOMAIN of => \/ a = Drained(g, of[r].n) /\ req[r].status = "remote"
                                 \/ a = AfterOutput(r, g, of[r])
           /\ Settles(r, req'[r], a, DOMAIN of)
    BY <1>4, <1>5, <1>8, <2>1, UpdatedIs
  <2>3. r \in DOMAIN of /\ req[r].status = "remote" => req[r].drop
    <3>1. PICK S : S = out.results
      OBVIOUS
    <3>2. /\ \A i, j \in DOMAIN S : S[i].id = S[j].id => i = j
          /\ \A i \in DOMAIN S : S[i].id = r /\ req[r].status = "remote" => req[r].drop
      BY <1>4, <3>1 DEF Applies
    <3>3. DOMAIN of = {S[i].id : i \in DOMAIN S}
      <4>1. \A i, j \in DOMAIN S : S[i].id = S[j].id => i = j
        BY <3>2
      <4>2. DOMAIN Items(S) = {S[i].id : i \in DOMAIN S}
        BY <4>1, ItemsAre
      <4> QED BY <2>1, <3>1, <4>2
    <3> QED BY <3>2, <3>3
  <2>4. Turns(r, out, n)
    BY <1>2, <1>6, <1>7, <2>1, <2>2, <2>3 DEF Turns
  <2> QED BY <1>4, <1>9, <1>10, <2>4, ProcessOne
<1>12. ItemsFit'
  BY <1>6 DEF ItemsFit
<1>13. LoadsFit'
  <2>1. \A k \in DOMAIN flight' : 2 \in DOMAIN flight /\ flight'[k] = flight[2]
    <3>1. /\ n \in {1, 2} /\ DOMAIN flight = 1 .. n /\ DOMAIN flight' = 1 .. n - 1
          /\ n = 2 => flight'[1] = flight[2]
      BY <1>2 DEF Shifted
    <3>2. \A k \in 1 .. n - 1 : n = 2 /\ k = 1
      BY <3>1
    <3> QED BY <3>1, <3>2
  <2> QED BY <1>2, <2>1 DEF RunInv, LoadsFit
<1>14. SlotsMade'
  BY <1>6 DEF RunInv, SlotsMade
<1> QED BY <1>11, <1>12, <1>13, <1>14 DEF RunInv

-----------------------------------------------------------------------------
(* Steps that leave the flight alone. *)

(* Steps that leave the flight and the slots alone. *)
Still == conf' = conf /\ flight' = flight /\ slots' = slots

(* The request p counts what the request q counts. *)
Alike(q, p) ==
  /\ p.computed = q.computed /\ p.tokens = q.tokens /\ p.placeholders = q.placeholders
  /\ p.stale = q.stale /\ p.drop = q.drop /\ p.chunk = q.chunk
  /\ p.specs \in {q.specs, 0}

LEMMA StillIs ==
  ASSUME Still, NEW r
  PROVE  /\ Async' = Async /\ Solo' = Solo /\ slots'[r] = slots[r]
         /\ \A k : Brought(k, r)' = Brought(k, r)
BY DEF Still, Async, Solo, Brought

LEMMA AlikeRuns ==
  ASSUME NEW async, NEW q, NEW p, Alike(q, p), NEW s, NEW new \in BOOLEAN, NEW x, NEW y,
         RunsRight(async, q, s, new, x, y)
  PROVE  RunsRight(async, p, s, new, x, y)
<1>1. Valid(p, x) = Valid(q, x)
  BY DEF Alike, Valid
<1>2. PICK z : z = Valid(q, x)
  OBVIOUS
<1>3. p.stale = 0 \/ (p.stale = x.n /\ p.drop)
  BY DEF Alike, RunsRight
<1>4. CASE new
  BY <1>1, <1>3, <1>4 DEF RunsRight, Alike
<1>5. CASE ~new
  <2>1. Agrees(async, q, s, z, y) /\ SlotIs(s, z, y) /\ DraftsAre(async, q, s, x) /\ Follows(q, z, y)
    BY <1>2, <1>5 DEF RunsRight
  <2>2. Agrees(async, p, s, z, y)
    BY <2>1 DEF Agrees, Alike
  <2>3. DraftsAre(async, p, s, x)
    BY <2>1 DEF DraftsAre, Alike
  <2>4. Follows(p, z, y)
    BY <2>1 DEF Follows, Alike
  <2> QED BY <1>1, <1>2, <1>3, <1>5, <2>1, <2>2, <2>3, <2>4 DEF RunsRight
<1> QED BY <1>4, <1>5

LEMMA AlikeIdles ==
  ASSUME NEW async, NEW q, NEW p, Alike(q, p), NEW x, NEW y, IdlesRight(async, q, x, y)
  PROVE  IdlesRight(async, p, x, y)
<1>1. async /\ ~p.drop => Follows(p, x, y)
  BY DEF Alike, IdlesRight, Follows
<1> QED BY <1>1 DEF Alike, IdlesRight

LEMMA AlikeSigns ==
  ASSUME NEW async, NEW solo, NEW q, NEW p, Alike(q, p), SignsRight(async, solo, q)
  PROVE  SignsRight(async, solo, p)
BY DEF Alike, SignsRight

(* A request that counts what it did, and is where it was. *)
LEMMA SameRuns ==
  ASSUME Still, NEW r \in Reqs, RunFor(r), Alike(req[r], req'[r]),
         req'[r].status = req[r].status, NewIn(r)' = NewIn(r)
  PROVE  RunFor(r)'
<1>1. PICK q, p, x, y, s :
        q = req[r] /\ p = req'[r] /\ x = Brought(1, r) /\ y = Brought(2, r) /\ s = slots[r]
  OBVIOUS
<1>2. Brought(1, r)' = x /\ Brought(2, r)' = y /\ slots'[r] = s /\ Async' = Async /\ Solo' = Solo
  BY <1>1, StillIs
<1>3. Alike(q, p) /\ p.status = q.status
  BY <1>1
<1>4. NewIn(r) \in BOOLEAN
  BY DEF NewIn
<1>5. /\ q.status = "running" => RunsRight(Async, q, s, NewIn(r), x, y)
      /\ q.status \notin {"running"} \cup Past => IdlesRight(Async, q, x, y)
      /\ q.status \notin Past => SignsRight(Async, Solo, q)
  BY <1>1 DEF RunFor
<1>6. /\ p.status = "running" => RunsRight(Async, p, s, NewIn(r), x, y)
      /\ p.status \notin {"running"} \cup Past => IdlesRight(Async, p, x, y)
      /\ p.status \notin Past => SignsRight(Async, Solo, p)
  BY <1>3, <1>4, <1>5, AlikeRuns, AlikeIdles, AlikeSigns
<1> QED BY <1>1, <1>2, <1>6 DEF RunFor

LEMMA OverRuns ==
  ASSUME NEW r, req'[r].status \in Past
  PROVE  RunFor(r)'
BY DEF RunFor, Past

(* A request that waits, before and after. *)
LEMMA IdleRuns ==
  ASSUME Still, Alone, NEW r \in Reqs, RunFor(r), NEW q, q = req[r], NEW p, p = req'[r],
         q.status \notin {"running"} \cup Past, p.status \notin {"running"} \cup Past,
         p.placeholders = q.placeholders, p.specs = q.specs, p.stale = q.stale,
         p.drop = q.drop, p.computed >= 0, Solo => p.tokens = q.tokens
  PROVE  RunFor(r)'
<1>1. PICK x, y : x = Brought(1, r) /\ y = Brought(2, r)
  OBVIOUS
<1>2. Brought(1, r)' = x /\ Brought(2, r)' = y /\ Async' = Async /\ Solo' = Solo
  BY <1>1, StillIs
<1>3. Async => Solo
  BY DEF Alone, Async, Solo
<1>4. IdlesRight(Async, q, x, y) /\ SignsRight(Async, Solo, q)
  BY <1>1 DEF RunFor
<1>5. Async /\ ~p.drop => Follows(p, x, y)
  BY <1>3, <1>4 DEF IdlesRight, Follows
<1>6. IdlesRight(Async, p, x, y)
  BY <1>4, <1>5 DEF IdlesRight
<1>7. SignsRight(Async, Solo, p)
  BY <1>4 DEF SignsRight
<1> QED BY <1>2, <1>6, <1>7 DEF RunFor

(* With one batch, nothing is in flight while a step is put together; what  *)
(* is in flight is the first.                                               *)
LEMMA FlyingIs ==
  ASSUME QueueInv, BlockInv, NEW r \in Reqs, Len(flight) < conf.concurrent
  PROVE  /\ Brought(2, r) = Nothing /\ Share(2, r) = 0 /\ Share(1, r) = Brought(1, r).n
         /\ ~Async => Brought(1, r) = Nothing /\ Share(1, r) = 0
<1>1. PICK n : n = Len(flight)
  OBVIOUS
<1>2. /\ n \in {0, 1} /\ DOMAIN flight = 1 .. n /\ (~Async => n = 0)
  <2>1. n \in 0 .. 2 /\ DOMAIN flight = 1 .. n /\ conf.concurrent \in {1, 2}
    BY <1>1, FlightIs DEF QueueInv, BlockInv
  <2>2. ~Async => conf.concurrent = 1
    BY AsyncIs DEF BlockInv
  <2> QED BY <1>1, <2>1, <2>2
<1>3. 2 \notin DOMAIN flight /\ (~Async => 1 \notin DOMAIN flight)
  BY <1>2
<1>4. Brought(2, r) = Nothing /\ (~Async => Brought(1, r) = Nothing)
  BY <1>3 DEF Brought
<1>5. Share(1, r) = Brought(1, r).n /\ Share(2, r) = Brought(2, r).n
  BY BroughtShares
<1> QED BY <1>4, <1>5, NothingIs

(* A request that starts to run. *)
LEMMA BegunRuns ==
  ASSUME QueueInv, BlockInv, Still, Alone, NEW r \in Reqs, RunFor(r), NEW q, q = req[r],
         NEW p, p = req'[r], Len(flight) < conf.concurrent,
         q.status \notin {"running"} \cup Past, p.status = "running", Alike(q, p),
         ~(q.stale > 0 /\ ~q.drop), NewIn(r)' = TRUE
  PROVE  RunFor(r)'
<1>1. PICK x, y : x = Brought(1, r) /\ y = Brought(2, r)
  OBVIOUS
<1>2. Brought(1, r)' = x /\ Brought(2, r)' = y /\ Async' = Async /\ Solo' = Solo
  BY <1>1, StillIs
<1>3. IdlesRight(Async, q, x, y) /\ SignsRight(Async, Solo, q)
  BY <1>1 DEF RunFor
<1>4. y = Nothing /\ Share(2, r) = 0 /\ Share(1, r) = x.n /\ Result3(x)
  BY <1>1, FlyingIs, ResultsAre
<1>5. q.stale = 0 \/ (q.stale = x.n /\ q.drop)
  <2>1. CASE Async
    <3>1. conf.sessions = {}
      BY <2>1 DEF Alone, Async
    <3>2. q.inFlight = Share(1, r) + Share(2, r) /\ q.stale = q.inFlight
      BY <3>1 DEF BlockInv, ShareInv, Past
    <3>3. q.stale = x.n
      BY <1>4, <3>2 DEF Result3
    <3> QED BY <1>4, <3>3 DEF Result3
  <2>2. CASE ~Async
    BY <1>3, <2>2 DEF SignsRight
  <2> QED BY <2>1, <2>2
<1>6. Valid(q, x).n = 0
  <2>1. CASE q.stale = 0
    <3>1. CASE Async
      <4>1. conf.sessions = {}
        BY <3>1 DEF Alone, Async
      <4>2. q.inFlight = Share(1, r) + Share(2, r) /\ q.stale = q.inFlight
        BY <4>1 DEF BlockInv, ShareInv, Past
      <4>3. x.n = 0
        BY <1>4, <2>1, <4>2 DEF Result3
      <4> QED BY <2>1, <4>3 DEF Valid
    <3>2. CASE ~Async
      BY <1>3, <2>1, <3>2 DEF IdlesRight, Valid
    <3> QED BY <3>1, <3>2
  <2>2. CASE q.stale # 0
    BY <2>2, NothingIs DEF Valid
  <2> QED BY <2>1, <2>2
<1>7. RunsRight(Async, p, slots[r], TRUE, x, y)
  <2>1. Valid(p, x).n = 0 /\ (p.stale = 0 \/ (p.stale = x.n /\ p.drop)) /\ p.placeholders = 0
        /\ (Async => p.specs = 0) /\ y.n = 0
    BY <1>3, <1>4, <1>5, <1>6, NothingIs DEF Alike, IdlesRight, Valid
  <2> QED BY <2>1 DEF RunsRight
<1>8. SignsRight(Async, Solo, p)
  BY <1>3, AlikeSigns
<1>9. slots'[r] = slots[r]
  BY StillIs
<1> QED BY <1>2, <1>7, <1>8, <1>9 DEF RunFor, Past

(* A running request that is preempted, not in the step being put together. *)
LEMMA RolledRuns ==
  ASSUME QueueInv, BlockInv, Still, NEW r \in Reqs, RunFor(r), NEW q, q = req[r],
         NEW p, p = req'[r], ~Async => flight = <<>>, q.status = "running", NEW d,
         p = Preempted(q, d), NewIn(r) = FALSE
  PROVE  RunFor(r)'
<1>1. PICK x, y, s : x = Brought(1, r) /\ y = Brought(2, r) /\ s = slots[r]
  OBVIOUS
<1>2. Brought(1, r)' = x /\ Brought(2, r)' = y /\ Async' = Async /\ Solo' = Solo
  BY <1>1, StillIs
<1>3. RunsRight(Async, q, s, FALSE, x, y) /\ SignsRight(Async, Solo, q)
  BY <1>1 DEF RunFor, Past
<1>4. /\ p.status = "preempted" /\ p.computed = 0 /\ p.specs = 0 /\ p.placeholders = 0
      /\ p.stale = q.inFlight /\ p.tokens = q.tokens
      /\ ~p.drop => ~(q.drop /\ q.stale > 0)
  <2>1. DOMAIN q = Fields
    BY DEF QueueInv, RequestInv
  <2>2. p = [q EXCEPT !.status = "preempted", !.computed = 0, !.specs = 0,
              !.drop = d \/ (@ /\ q.stale > 0), !.stale = q.inFlight,
              !.placeholders = 0, !.preempted = TRUE, !.blocks = <<>>]
    BY DEF Preempted
  <2>3. /\ p.status = "preempted" /\ p.computed = 0 /\ p.specs = 0 /\ p.placeholders = 0
        /\ p.stale = q.inFlight /\ p.tokens = q.tokens
    BY <2>1, <2>2, FieldsAre
  <2>4. p.drop = (d \/ (q.drop /\ q.stale > 0))
    BY <2>1, <2>2, FieldsAre
  <2> QED BY <2>3, <2>4
<1>5. Async /\ ~p.drop => Follows(p, x, y)
  <2>1. SUFFICES ASSUME ~p.drop PROVE Follows(p, x, y)
    OBVIOUS
  <2>2. q.stale = 0
    <3>1. q.stale \in Int
      BY NumbersAre DEF QueueInv, Numbers
    <3> QED BY <1>3, <1>4, <2>1, <3>1 DEF RunsRight, SignsRight
  <2>3. Follows(q, x, y)
    BY <1>3, <2>2 DEF RunsRight, Valid
  <2> QED BY <1>4, <2>3 DEF Follows
<1>6. q.inFlight = x.n + y.n /\ x.n \in Nat /\ y.n \in Nat
  <2>1. Share(1, r) = x.n /\ Share(2, r) = y.n /\ Result3(x) /\ Result3(y)
    BY <1>1, BroughtShares, ResultsAre
  <2> QED BY <2>1 DEF BlockInv, ShareInv, Result3
<1>7. ~Async => x.n = 0 /\ y.n = 0
  BY <1>1, NothingIs DEF Brought
<1>8. IdlesRight(Async, p, x, y)
  BY <1>4, <1>5, <1>7 DEF IdlesRight
<1>9. SignsRight(Async, Solo, p)
  BY <1>3, <1>4, <1>6, <1>7 DEF SignsRight
<1> QED BY <1>2, <1>4, <1>8, <1>9 DEF RunFor, Past

(* What is left to show of a step that leaves the flight alone. *)
LEMMA StillRuns ==
  ASSUME RunInv, Still, loads' = loads, \A r \in Reqs : RunFor(r)', ItemsFit'
  PROVE  RunInv'
<1>1. LoadsFit'
  BY DEF RunInv, LoadsFit, Still
<1>2. SlotsMade'
  BY DEF RunInv, SlotsMade, Still
<1> QED BY <1>1, <1>2 DEF RunInv

-----------------------------------------------------------------------------
(* Calls from outside. *)

LEMMA IdleItems ==
  ASSUME QueueInv, pass.pc = "idle", pass' = pass
  PROVE  ItemsFit' /\ \A r : NewIn(r) = FALSE /\ NewIn(r)' = FALSE
<1>1. pass.items = <<>> /\ pass'.items = <<>> /\ pass'.pc = "idle"
  BY DEF QueueInv, PassInv
<1>2. \A r : NewIn(r) = FALSE /\ NewIn(r)' = FALSE
  BY <1>1 DEF NewIn
<1> QED BY <1>1, <1>2 DEF ItemsFit

LEMMA ArriveRuns ==
  ASSUME QueueInv, BlockInv, Alone, RunInv, NEW r \in Reqs, Arrive(r)
  PROVE  RunInv'
<1>1. PICK st \in {"waiting", "grammar"} : req' = [req EXCEPT ![r].status = st]
  BY DEF Arrive, AddRequest
<1>2. DOMAIN req = Reqs /\ DOMAIN req[r] = Fields /\ req[r].status = "none"
  BY DEF QueueInv, RequestInv, Arrive, AddRequest
<1>3. PICK p, q : p = req'[r] /\ q = req[r]
  OBVIOUS
<1>4. p = [q EXCEPT !.status = st] /\ \A s \in Reqs \ {r} : req'[s] = req[s]
  BY <1>1, <1>2, <1>3
<1>5. /\ p.status = st /\ p.tokens = q.tokens /\ p.computed = q.computed /\ p.stale = q.stale
      /\ p.placeholders = q.placeholders /\ p.specs = q.specs /\ p.drop = q.drop
  BY <1>2, <1>3, <1>4, FieldsAre
<1>6. Still /\ loads' = loads /\ pass' = pass /\ pass.pc = "idle"
  BY DEF Arrive, AddRequest, runnerVars, Still
<1>7. ItemsFit' /\ \A s : NewIn(s) = FALSE /\ NewIn(s)' = FALSE
  BY <1>6, IdleItems
<1>8. RunFor(r)'
  <2>1. RunFor(r)
    BY DEF RunInv
  <2>2. p.computed >= 0
    BY <1>2, <1>3, <1>5, <2>1 DEF RunFor, SignsRight, Past
  <2>3. q.status \notin {"running"} \cup Past /\ p.status \notin {"running"} \cup Past
    BY <1>2, <1>3, <1>5 DEF Past
  <2> QED BY <1>3, <1>5, <1>6, <2>1, <2>2, <2>3, IdleRuns
<1>9. ASSUME NEW s \in Reqs \ {r}
      PROVE  RunFor(s)'
  <2>1. RunFor(s) /\ req'[s] = req[s] /\ Alike(req[s], req'[s]) /\ NewIn(s)' = NewIn(s)
    BY <1>4, <1>7 DEF RunInv, Alike
  <2> QED BY <1>6, <2>1, SameRuns
<1> QED BY <1>6, <1>7, <1>8, <1>9, StillRuns

LEMMA CompileRuns ==
  ASSUME QueueInv, BlockInv, Alone, RunInv, NEW r \in Reqs, Compile(r)
  PROVE  RunInv'
<1>1. PICK g : req' = [req EXCEPT ![r].grammar = g]
  BY DEF Compile, GrammarCompiled
<1>2. DOMAIN req = Reqs /\ DOMAIN req[r] = Fields
  BY DEF QueueInv, RequestInv
<1>3. PICK p, q : p = req'[r] /\ q = req[r]
  OBVIOUS
<1>4. p = [q EXCEPT !.grammar = g] /\ \A s \in Reqs \ {r} : req'[s] = req[s]
  BY <1>1, <1>2, <1>3
<1>5. Alike(q, p) /\ p.status = q.status
  BY <1>2, <1>3, <1>4, FieldsAre DEF Alike
<1>6. Still /\ loads' = loads /\ pass' = pass
  BY DEF Compile, GrammarCompiled, runnerVars, Still
<1>7. ASSUME NEW s \in Reqs
      PROVE  Alike(req[s], req'[s]) /\ req'[s].status = req[s].status
  BY <1>3, <1>4, <1>5 DEF Alike
<1>8. ItemsFit'
  <2>1. \A i \in DOMAIN pass.items : pass.items[i].id \in Reqs
    <3>1. PICK R : Lists(running, R)
      BY DEF QueueInv, ListInv
    <3>2. \A k \in DOMAIN running : running[k] \in Reqs
      BY <3>1 DEF Lists
    <3> QED BY <3>2 DEF QueueInv, PassInv
  <2>2. \A i \in DOMAIN pass.items : Fitting(req'[pass.items[i].id], pass.items[i])
    BY <1>7, <2>1 DEF Fitting, Alike, RunInv, ItemsFit
  <2> QED BY <1>6, <2>2 DEF ItemsFit, RunInv
<1>9. ASSUME NEW s \in Reqs
      PROVE  RunFor(s)'
  <2>1. NewIn(s)' = NewIn(s)
    BY <1>6 DEF NewIn
  <2>2. RunFor(s)
    BY DEF RunInv
  <2> QED BY <1>6, <1>7, <2>1, <2>2, SameRuns
<1> QED BY <1>6, <1>8, <1>9, StillRuns

(* Requests, pass and flight stay. *)
LEMMA QuietRuns ==
  ASSUME RunInv, Still, req' = req, pass'.items = pass.items,
         pass'.pc = "running" => pass.pc = "running" \/ pass.items = <<>>,
         \A r \in Reqs : loads'[r].valid >= 0
  PROVE  RunInv'
<1>1. ASSUME NEW r \in Reqs
      PROVE  RunFor(r)'
  <2>1. NewIn(r)' = NewIn(r) /\ Alike(req[r], req'[r]) /\ RunFor(r)
    BY DEF NewIn, Alike, RunInv
  <2> QED BY <2>1, SameRuns
<1>2. ItemsFit'
  BY DEF RunInv, ItemsFit
<1>3. LoadsFit' /\ SlotsMade'
  BY DEF RunInv, LoadsFit, SlotsMade, Still
<1> QED BY <1>1, <1>2, <1>3 DEF RunInv

LEMMA LoadDoneRuns ==
  ASSUME RunInv, BlockInv, NEW r \in Reqs, LoadDone(r) \/ StoreDone(r)
  PROVE  RunInv'
<1>1. Still /\ req' = req /\ pass' = pass
  BY DEF LoadDone, StoreDone, schedVars, Still
<1>2. \A q \in Reqs : loads[q].valid >= 0 /\ DOMAIN loads = Reqs
  BY DEF RunInv, LoadsFit, BlockInv, TransferInv
<1>3. \A q \in Reqs : loads'[q].valid >= 0
  <2>1. CASE LoadDone(r)
    <3>1. \E v \in {k * BlockSize : k \in 0 .. MaxModelLen} :
             loads' = [loads EXCEPT ![r] = [st |-> "done", valid |-> v]]
      BY <2>1 DEF LoadDone
    <3>2. {k * BlockSize : k \in 0 .. MaxModelLen} \in SUBSET Nat
      BY LimitsAssumption
    <3>3. PICK v \in Nat : loads' = [loads EXCEPT ![r] = [st |-> "done", valid |-> v]]
      BY <3>1, <3>2
    <3> QED BY <1>2, <3>3
  <2>2. CASE StoreDone(r)
    BY <1>2, <2>2 DEF StoreDone
  <2> QED BY <2>1, <2>2
<1> QED BY <1>1, <1>3, QuietRuns

LEMMA FinishRuns ==
  ASSUME QueueInv, RunInv, Still, loads' = loads, NEW r \in Reqs, NEW send, FinishRequests(r, send)
  PROVE  RunInv'
<1>1. /\ pass.pc = "idle" /\ pass' = pass
  BY DEF FinishRequests
<1>2. PICK gone : /\ ToSet(gone) \in SUBSET {r}
                  /\ req' = Deleted([req EXCEPT ![r].status = "finished"], ToSet(gone))
  <2>1. PICK gone : /\ gone = <<>> \/ gone = <<r>>
                    /\ req' = Deleted([req EXCEPT ![r].status = "finished"], ToSet(gone))
    BY DEF FinishRequests
  <2>2. ToSet(<<>>) = {} /\ ToSet(<<r>>) = {r}
    BY ListOfNone, ListSingle DEF Lists
  <2> QED BY <2>1, <2>2
<1>3. req'[r].status \in Past /\ \A q \in Reqs : q # r => req'[q] = req[q]
  BY <1>2, FinishedIs DEF QueueInv, RequestInv
<1>4. ItemsFit' /\ \A s : NewIn(s) = FALSE /\ NewIn(s)' = FALSE
  BY <1>1, IdleItems
<1>5. ASSUME NEW s \in Reqs
      PROVE  RunFor(s)'
  <2>1. CASE s = r
    BY <1>3, <2>1, OverRuns
  <2>2. CASE s # r
    <3>1. RunFor(s) /\ req'[s] = req[s] /\ Alike(req[s], req'[s]) /\ NewIn(s)' = NewIn(s)
      BY <1>3, <1>4, <2>2 DEF RunInv, Alike
    <3> QED BY <3>1, SameRuns
  <2> QED BY <2>1, <2>2
<1> QED BY <1>4, <1>5, StillRuns

LEMMA AbortRuns ==
  ASSUME QueueInv, RunInv, NEW r \in Reqs, NEW send, Abort(r, send)
  PROVE  RunInv'
<1>1. Still /\ loads' = loads /\ FinishRequests(r, send)
  BY DEF Abort, Still, FinishRequests
<1> QED BY <1>1, FinishRuns

LEMMA NextInputRuns ==
  ASSUME QueueInv, BlockInv, Alone, RunInv, NEW r \in Reqs, NextInput(r)
  PROVE  RunInv'
<1>1. flight' = flight /\ slots' = slots /\ loads' = loads
  BY DEF NextInput, runnerVars
<1>2. CASE FinishRequests(r, FALSE)
  <2>1. Still
    BY <1>1, <1>2 DEF Still, FinishRequests
  <2> QED BY <1>1, <1>2, <2>1, FinishRuns
<1>3. CASE ~FinishRequests(r, FALSE)
  <2>1. /\ pass.pc = "idle" /\ pass' = pass /\ conf' = conf
        /\ r \in conf.sessions
        /\ \/ req[r].status = "stream" /\ req' = [req EXCEPT ![r] = AsSession(@)]
           \/ \E u : req' = [req EXCEPT ![r].updates = u]
    BY <1>3 DEF NextInput, AddUpdate, EndSession
  <2>2. DOMAIN req = Reqs /\ DOMAIN req[r] = Fields
    BY DEF QueueInv, RequestInv
  <2>3. PICK p, q : p = req'[r] /\ q = req[r]
    OBVIOUS
  <2>4. \A s \in Reqs \ {r} : req'[s] = req[s]
    BY <2>1, <2>2
  <2>5. Still /\ RunFor(r)
    BY <1>1, <2>1 DEF Still, RunInv
  <2>6. ItemsFit' /\ \A s : NewIn(s) = FALSE /\ NewIn(s)' = FALSE
    BY <2>1, IdleItems
  <2>7. RunFor(r)'
    <3>1. CASE req[r].status = "stream" /\ req' = [req EXCEPT ![r] = AsSession(@)]
      <4>1. p = AsSession(q)
        BY <2>2, <2>3, <3>1
      <4>2. PICK n : p = [q EXCEPT !.status = "waiting", !.tokens = n, !.prompt = n]
        BY <4>1 DEF AsSession
      <4>3. /\ p.status = "waiting" /\ p.computed = q.computed /\ p.stale = q.stale
            /\ p.placeholders = q.placeholders /\ p.specs = q.specs /\ p.drop = q.drop
        BY <2>2, <2>3, <4>2, FieldsAre
      <4>4. q.status \notin {"running"} \cup Past /\ p.status \notin {"running"} \cup Past
        BY <2>3, <3>1, <4>3 DEF Past
      <4>5. p.computed >= 0
        BY <2>3, <2>5, <4>3, <4>4 DEF RunFor, SignsRight
      <4>6. ~Solo
        BY <2>1 DEF Solo
      <4> QED BY <2>3, <2>5, <4>3, <4>4, <4>5, <4>6, IdleRuns
    <3>2. ASSUME NEW u, req' = [req EXCEPT ![r].updates = u]
          PROVE  RunFor(r)'
      <4>1. p = [q EXCEPT !.updates = u]
        BY <2>2, <2>3, <3>2
      <4>2. Alike(q, p) /\ p.status = q.status
        BY <2>2, <2>3, <4>1, FieldsAre DEF Alike
      <4> QED BY <2>3, <2>5, <2>6, <4>2, SameRuns
    <3> QED BY <2>1, <3>1, <3>2
  <2>8. ASSUME NEW s \in Reqs \ {r}
        PROVE  RunFor(s)'
    <3>1. RunFor(s) /\ req'[s] = req[s] /\ Alike(req[s], req'[s]) /\ NewIn(s)' = NewIn(s)
      BY <2>4, <2>6 DEF RunInv, Alike
    <3> QED BY <2>5, <3>1, SameRuns
  <2> QED BY <1>1, <2>5, <2>6, <2>7, <2>8, StillRuns
<1> QED BY <1>2, <1>3

LEMMA ResetRuns ==
  ASSUME QueueInv, BlockInv, RunInv, Reset
  PROVE  RunInv'
<1>1. PICK R : Lists(running, R) /\ R = {q \in Reqs : req[q].status = "running"}
  BY DEF QueueInv, ListInv, Places
<1>2. /\ pass.pc = "idle" /\ pass' = pass /\ Still /\ loads' = loads
      /\ req' = [r \in Reqs |-> IF r \in ToSet(running) THEN Preempted(req[r], TRUE) ELSE req[r]]
      /\ flight = <<>> \/ Async
  BY DEF Reset, ResetPrefixCache, runnerVars, Still, BetweenSteps
<1>3. ToSet(running) = R
  BY <1>1 DEF Lists
<1>4. ItemsFit' /\ \A s : NewIn(s) = FALSE /\ NewIn(s)' = FALSE
  BY <1>2, IdleItems
<1>5. ASSUME NEW r \in Reqs
      PROVE  RunFor(r)'
  <2>1. RunFor(r)
    BY DEF RunInv
  <2>2. CASE r \in R
    <3>1. req'[r] = Preempted(req[r], TRUE) /\ req[r].status = "running"
      BY <1>1, <1>2, <1>3, <2>2
    <3> QED BY <1>2, <1>4, <2>1, <3>1, RolledRuns
  <2>3. CASE r \notin R
    <3>1. req'[r] = req[r] /\ Alike(req[r], req'[r]) /\ NewIn(r)' = NewIn(r)
      BY <1>2, <1>3, <1>4, <2>3 DEF Alike
    <3> QED BY <1>2, <2>1, <3>1, SameRuns
  <2> QED BY <2>2, <2>3
<1> QED BY <1>2, <1>4, <1>5, StillRuns

-----------------------------------------------------------------------------
(* The scheduling pass: the running requests. *)

LEMMA ScheduleRuns ==
  ASSUME QueueInv, BlockInv, RunInv, Schedule
  PROVE  RunInv'
<1>1. /\ Still /\ req' = req /\ loads' = loads /\ pass.pc = "idle"
      /\ pass' = [NoPass EXCEPT !.pc = "running", !.idx = 1,
                !.budget = IF pause = "paused_all" THEN 0 ELSE TokenBudget]
  BY DEF Schedule, StartSchedule, runnerVars, Still
<1>2. pass.items = <<>> /\ pass'.items = <<>>
  BY <1>1 DEF NoPass, QueueInv, PassInv
<1>3. \A r \in Reqs : loads'[r].valid >= 0
  BY <1>1 DEF RunInv, LoadsFit
<1> QED BY <1>1, <1>2, <1>3, QuietRuns

LEMMA LookRuns ==
  ASSUME QueueInv, RunInv, UNCHANGED <<runnerVars, left>>,
         \/ PassOverRunning \/ RunningDone \/ StopAdmitting \/ SkipWaiting
         \/ \E n \in 1 .. MaxModelLen : RefuseLoad(n)
  PROVE  RunInv'
<1>1. Still /\ req' = req /\ loads' = loads
  BY DEF PassOverRunning, RunningDone, StopAdmitting, SkipWaiting, RefuseLoad, runnerVars, Still
<1>2. pass'.items = pass.items /\ (pass'.pc = "running" => pass.pc = "running")
  <2>1. DOMAIN pass = DOMAIN NoPass
    BY DEF QueueInv, PassInv
  <2>2. CASE PassOverRunning
    <3>1. pass' = [pass EXCEPT !.idx = @ + 1]
      BY <2>2 DEF PassOverRunning
    <3> QED BY <2>1, <3>1, FieldsAre
  <2>3. CASE RunningDone \/ StopAdmitting \/ \E n \in 1 .. MaxModelLen : RefuseLoad(n)
    <3>1. PICK pc : pc \in {"waiting", "emit"} /\ pass' = [pass EXCEPT !.pc = pc]
      BY <2>3 DEF RunningDone, StopAdmitting, RefuseLoad
    <3> QED BY <2>1, <3>1, FieldsAre
  <2>4. CASE SkipWaiting
    <3>1. pass' = [pass EXCEPT !.step = Append(@, Candidate)]
      BY <2>4 DEF SkipWaiting
    <3> QED BY <2>1, <3>1, FieldsAre
  <2> QED BY <2>2, <2>3, <2>4
<1>3. \A r \in Reqs : loads'[r].valid >= 0
  BY <1>1 DEF RunInv, LoadsFit
<1> QED BY <1>1, <1>2, <1>3, QuietRuns

(* A running request that has drafts is one token short of its sequence.    *)
LEMMA DecodeIs ==
  ASSUME QueueInv, BlockInv, Len(flight) < conf.concurrent, NEW r \in Reqs, RunFor(r),
         NEW q, q = req[r], q.status = "running", NewIn(r) = FALSE, q.specs # 0
  PROVE  q.computed + 1 = q.tokens + q.placeholders
<1>1. PICK x, s : x = Brought(1, r) /\ s = slots[r]
  OBVIOUS
<1>2. Brought(2, r) = Nothing /\ (~Async => x = Nothing) /\ Result3(x)
  BY <1>1, FlyingIs, ResultsAre
<1>3. PICK f : f = Valid(q, x)
  OBVIOUS
<1>4. /\ Agrees(Async, q, s, f, Nothing) /\ SlotIs(s, f, Nothing) /\ DraftsAre(Async, q, s, x)
      /\ Result3(f) /\ (~Async => f = Nothing) /\ Numbers(q)
  <2>1. RunsRight(Async, q, s, FALSE, x, Nothing)
    BY <1>1, <1>2 DEF RunFor, Past
  <2>2. Numbers(q)
    BY NumbersAre DEF QueueInv
  <2> QED BY <1>2, <1>3, <2>1, <2>2, NothingIs DEF RunsRight, Valid
<1>5. ~(s.computed < s.prefill)
  BY <1>2, <1>4, NothingIs DEF DraftsAre
<1>6. PICK sc \in Nat, sl \in Nat : sc = s.computed /\ sl = s.len
  BY <1>4 DEF SlotIs
<1>7. PICK fg \in Nat, fr \in Nat : fg = f.gen /\ fr = Rejected(f) /\ Expected(f) = fg + fr
  BY <1>4, RejectedIs DEF Result3
<1>8. sl = sc + 1
  BY <1>4, <1>5, <1>6 DEF SlotIs
<1>9. ~Async => fg = 0 /\ fr = 0
  BY <1>4, <1>7, NothingIs
<1>10. /\ q.computed = sc + fr + 0 /\ q.tokens + fg + 0 = sl
       /\ q.placeholders = IF Async THEN (fg + fr) + 0 ELSE 0
  BY <1>4, <1>6, <1>7, NothingIs DEF Agrees
<1>11. PICK qt \in Int : qt = q.tokens
  BY <1>4 DEF Numbers
<1>12. q.placeholders = fg + fr
  BY <1>9, <1>10
<1> QED BY <1>8, <1>10, <1>11, <1>12

LEMMA RunningFits ==
  ASSUME QueueInv, BlockInv, Len(flight) < conf.concurrent, NEW r \in Reqs, RunFor(r),
         NEW q, q = req[r], q.status = "running", NewIn(r) = FALSE,
         NEW n, n = RunningTokens(r), n > 0, NEW item, item.n = n,
         item.specs = DraftsAmong(q, n)
  PROVE  Fitting(q, item)
<1>1. Numbers(q) /\ pass.budget \in Int
  BY NumbersAre DEF QueueInv, BlockInv, NumInv, ItemInv
<1>2. n \in Nat /\ n <= q.tokens + q.specs + q.placeholders - q.computed
  BY <1>1, RunningTokensIs
<1>3. PICK c \in Int, t \in Int, h \in Int, m \in Int :
        c = q.computed /\ t = q.tokens /\ h = q.placeholders /\ m = q.specs
  BY <1>1 DEF Numbers
<1>4. CASE m = 0
  <2>1. item.specs = 0 /\ n <= t + 0 + h - c
    BY <1>2, <1>3, <1>4 DEF DraftsAmong
  <2>2. c + n <= t + h
    BY <1>2, <2>1
  <2> QED BY <1>3, <2>1, <2>2 DEF Fitting
<1>5. CASE m # 0
  <2>1. PICK x, y : x = n + c - t - h /\ y = Min({m, x})
    OBVIOUS
  <2>2. item.specs = Max({y, 0})
    BY <1>3, <1>5, <2>1 DEF DraftsAmong
  <2>3. x \in Int
    BY <1>2, <2>1
  <2>4. c + 1 = t + h
    BY <1>3, <1>5, DecodeIs
  <2>5. x = n - 1 /\ n - 1 <= m
    <3>1. n \in Nat /\ x = n + c - t - h
      BY <1>2, <2>1
    <3>2. n <= t + m + h - c
      BY <1>2, <1>3
    <3> QED BY <2>4, <3>1, <3>2
  <2>6. y = n - 1
    BY <2>1, <2>3, <2>5, MinOfTwo
  <2>7. n - 1 \in Nat /\ n - 1 >= 0
    BY <1>2
  <2>8. item.specs = n - 1
    BY <2>2, <2>6, <2>7, MaxOfTwo
  <2>9. item.n = item.specs + 1
    BY <1>2, <2>8
  <2> QED BY <1>3, <2>4, <2>9 DEF Fitting
<1> QED BY <1>4, <1>5

LEMMA ScheduleRunningRuns ==
  ASSUME QueueInv, BlockInv, Alone, RunInv, ScheduleRunning, UNCHANGED <<runnerVars, left>>
  PROVE  RunInv'
<1>1. PICK r, n, upto, w, item :
        r = running[pass.idx] /\ n = RunningTokens(r) /\ upto = req[r].computed + n + NumSpec
        /\ w = Allocated(r, upto) /\ item = Scheduled(r, n, DraftsAmong(req[r], n), FALSE)
  OBVIOUS
<1>2. PICK R : Lists(running, R) /\ R = {q \in Reqs : req[q].status = "running"}
  BY DEF QueueInv, ListInv, Places
<1>3. r \in Reqs /\ req[r].status = "running"
  <2>1. pass.idx \in Nat \ {0} /\ pass.idx <= Len(running)
    BY DEF ScheduleRunning, InRunningPass, QueueInv, PassInv
  <2>2. Len(running) \in Nat /\ DOMAIN running = 1 .. Len(running)
    BY <1>2 DEF Lists
  <2>3. pass.idx \in DOMAIN running
    BY <2>1, <2>2
  <2>4. r \in ToSet(running)
    BY <1>1, <2>3 DEF ToSet
  <2> QED BY <1>2, <2>4 DEF Lists
<1>4. /\ n > 0 /\ pass.pc = "running"
      /\ req' = [req EXCEPT ![r].blocks = @ \o w, ![r].specs = 0]
      /\ pass' = [pass EXCEPT !.idx = @ + 1, !.budget = @ - n,
                     !.prefill = @ \/ req[r].chunk, !.items = Append(@, item)]
  BY <1>1 DEF ScheduleRunning, InRunningPass
<1>5. Still /\ loads' = loads
  BY DEF ScheduleRunning, runnerVars, Still
<1>6. DOMAIN req = Reqs /\ DOMAIN req[r] = Fields /\ DOMAIN pass = DOMAIN NoPass
  BY <1>3 DEF QueueInv, RequestInv, PassInv
<1>7. /\ req'[r] = [req[r] EXCEPT !.blocks = @ \o w, !.specs = 0]
      /\ \A q \in Reqs \ {r} : req'[q] = req[q]
  BY <1>3, <1>4, <1>6
<1>8. ASSUME NEW s \in Reqs
      PROVE  Alike(req[s], req'[s]) /\ req'[s].status = req[s].status
  <2>1. CASE s = r
    <3>1. PICK p, q : p = req'[r] /\ q = req[r]
      OBVIOUS
    <3>2. Alike(q, p) /\ p.status = q.status
      BY <1>6, <1>7, <3>1, FieldsAre DEF Alike
    <3> QED BY <2>1, <3>1, <3>2
  <2>2. CASE s # r
    BY <1>7, <2>2 DEF Alike
  <2> QED BY <2>1, <2>2
<1>9. PICK X : pass.items \in Seq(X)
  BY DEF QueueInv, PassInv
<1>10. pass'.items = Append(pass.items, item) /\ pass'.pc = "running"
  BY <1>4, <1>6, FieldsAre
<1>11. item.id = r /\ item.n = n /\ item.specs = DraftsAmong(req[r], n) /\ item.new = FALSE
  BY <1>1 DEF Scheduled
<1>12. \A i \in DOMAIN pass'.items :
         \/ i \in DOMAIN pass.items /\ pass'.items[i] = pass.items[i]
         \/ pass'.items[i] = item
  BY <1>9, <1>10
<1>13. \A i \in DOMAIN pass.items : pass.items[i].new = FALSE \/ ~pass.items[i].new
  BY <1>4 DEF RunInv, ItemsFit
<1>14. \A s : NewIn(s) = FALSE /\ NewIn(s)' = FALSE
  <2>1. \A i \in DOMAIN pass.items : ~pass.items[i].new
    BY <1>4 DEF RunInv, ItemsFit
  <2>2. \A i \in DOMAIN pass'.items : ~pass'.items[i].new
    BY <1>11, <1>12, <2>1
  <2> QED BY <2>1, <2>2 DEF NewIn
<1>15. Fitting(req[r], item)
  <2>1. Len(flight) < conf.concurrent
    BY <1>4 DEF BlockInv, ShareInv
  <2>2. RunFor(r)
    BY <1>3 DEF RunInv
  <2> QED BY <1>1, <1>3, <1>4, <1>11, <1>14, <2>1, <2>2, RunningFits
<1>16. ItemsFit'
  <2>1. \A i \in DOMAIN pass.items : pass.items[i].id \in Reqs
    <3>1. \A k \in DOMAIN running : running[k] \in Reqs
      BY <1>2 DEF Lists
    <3> QED BY <3>1 DEF QueueInv, PassInv
  <2>2. \A i \in DOMAIN pass.items : Fitting(req'[pass.items[i].id], pass.items[i])
    BY <1>8, <2>1 DEF Fitting, Alike, RunInv, ItemsFit
  <2>3. Fitting(req'[r], item)
    BY <1>3, <1>8, <1>15 DEF Fitting, Alike
  <2>4. \A i \in DOMAIN pass'.items : Fitting(req'[pass'.items[i].id], pass'.items[i])
    BY <1>11, <1>12, <2>2, <2>3
  <2>5. \A i \in DOMAIN pass'.items : ~pass'.items[i].new
    <3>1. \A i \in DOMAIN pass.items : ~pass.items[i].new
      BY <1>4 DEF RunInv, ItemsFit
    <3> QED BY <1>11, <1>12, <3>1
  <2> QED BY <2>4, <2>5 DEF ItemsFit
<1>17. ASSUME NEW s \in Reqs
       PROVE  RunFor(s)'
  <2>1. NewIn(s)' = NewIn(s) /\ RunFor(s)
    BY <1>14 DEF RunInv
  <2> QED BY <1>5, <1>8, <2>1, SameRuns
<1> QED BY <1>5, <1>16, <1>17, StillRuns

LEMMA PreemptLastRuns ==
  ASSUME QueueInv, BlockInv, RunInv, PreemptLast, UNCHANGED <<runnerVars, left>>
  PROVE  RunInv'
<1>1. PICK v : v = Last(running)
  OBVIOUS
<1>2. /\ req' = [req EXCEPT ![v] = Preempted(@, conf.delivery)]
      /\ pass.pc = "running"
      /\ \E pc : pc \in {"emit", "running"} /\ pass' = [pass EXCEPT !.preempted = TRUE, !.pc = pc]
  <2>1. /\ req' = [req EXCEPT ![v] = Preempted(@, conf.delivery)] /\ pass.pc = "running"
        /\ \E x : pass' = [pass EXCEPT !.preempted = TRUE, !.pc = IF x THEN "emit" ELSE @]
    BY <1>1 DEF PreemptLast, InRunningPass
  <2>2. PICK x : pass' = [pass EXCEPT !.preempted = TRUE, !.pc = IF x THEN "emit" ELSE @]
    BY <2>1
  <2>3. CASE x
    <3>1. pass' = [pass EXCEPT !.preempted = TRUE, !.pc = "emit"]
      BY <2>2, <2>3
    <3> QED BY <2>1, <3>1
  <2>4. CASE ~x
    <3>1. pass' = [pass EXCEPT !.preempted = TRUE, !.pc = pass.pc]
      BY <2>2, <2>4
    <3> QED BY <2>1, <3>1
  <2> QED BY <2>1, <2>3, <2>4
<1>3. Still /\ loads' = loads
  BY DEF PreemptLast, runnerVars, Still
<1>4. PICK R : Lists(running, R) /\ R = {q \in Reqs : req[q].status = "running"}
  BY DEF QueueInv, ListInv, Places
<1>5. running # <<>>
  BY <1>4 DEF PreemptLast, InRunningPass, QueueInv, PassInv, Lists
<1>6. v \in Reqs /\ req[v].status = "running"
  <2>1. v \in R
    BY <1>1, <1>4, <1>5, ListPart
  <2> QED BY <1>4, <2>1
<1>7. req'[v] = Preempted(req[v], conf.delivery) /\ \A q \in Reqs \ {v} : req'[q] = req[q]
  BY <1>2, <1>6 DEF QueueInv, RequestInv
<1>8. pass'.items = pass.items
  BY <1>2, FieldsAre DEF QueueInv, PassInv
<1>9. \A s : NewIn(s) = FALSE /\ NewIn(s)' = FALSE
  <2>1. \A i \in DOMAIN pass.items : ~pass.items[i].new
    BY <1>2 DEF RunInv, ItemsFit
  <2> QED BY <1>8, <2>1 DEF NewIn
<1>10. \A i \in DOMAIN pass.items : pass.items[i].id \in Reqs \ {v}
  <2>1. PICK m : m = Len(running)
    OBVIOUS
  <2>2. /\ m \in Nat /\ v = running[m] /\ pass.idx \in Nat \ {0} /\ pass.idx <= m
        /\ \A j, k \in 1 .. m : running[j] = running[k] => j = k
        /\ \A k \in 1 .. m : running[k] \in Reqs
    <3>1. m \in Nat /\ v = running[m]
      BY <1>1, <1>4, <2>1 DEF Last, Lists
    <3>2. pass.idx \in Nat \ {0} /\ pass.idx <= m
      BY <1>2, <2>1 DEF PreemptLast, InRunningPass, QueueInv, PassInv
    <3>3. /\ \A j, k \in 1 .. m : running[j] = running[k] => j = k
          /\ \A k \in 1 .. m : running[k] \in Reqs
      BY <1>4, <2>1, ListIs
    <3> QED BY <3>1, <3>2, <3>3
  <2>3. \A i \in DOMAIN pass.items : \E k \in 1 .. pass.idx - 1 : running[k] = pass.items[i].id
    BY <1>2 DEF QueueInv, PassInv
  <2>4. \A k \in 1 .. pass.idx - 1 : k \in 1 .. m /\ m \in 1 .. m /\ k # m
    BY <2>2
  <2>5. \A k \in 1 .. pass.idx - 1 : running[k] \in Reqs \ {v}
    BY <2>2, <2>4
  <2> QED BY <2>3, <2>5
<1>11. ItemsFit'
  BY <1>2, <1>7, <1>8, <1>10 DEF RunInv, ItemsFit
<1>12. ASSUME NEW s \in Reqs
       PROVE  RunFor(s)'
  <2>1. RunFor(s)
    BY DEF RunInv
  <2>2. CASE s = v
    <3>1. ~Async => flight = <<>>
      <4>1. Len(flight) < conf.concurrent
        BY <1>2 DEF BlockInv, ShareInv
      <4>2. ~Async => conf.concurrent = 1
        BY AsyncIs DEF BlockInv
      <4>3. PICK X : flight \in Seq(X)
        BY DEF QueueInv, FlightInv
      <4> QED BY <4>1, <4>2, <4>3
    <3> QED BY <1>3, <1>6, <1>7, <1>9, <2>1, <2>2, <3>1, RolledRuns
  <2>3. CASE s # v
    <3>1. req'[s] = req[s] /\ Alike(req[s], req'[s]) /\ NewIn(s)' = NewIn(s)
      BY <1>7, <1>9, <2>3 DEF Alike
    <3> QED BY <1>3, <2>1, <3>1, SameRuns
  <2> QED BY <2>2, <2>3
<1> QED BY <1>3, <1>11, <1>12, StillRuns

-----------------------------------------------------------------------------
(* The scheduling pass: the waiting requests. *)

(* The requests of the step being put together run. *)
LEMMA ItemsRun ==
  ASSUME QueueInv, NEW r, req[r].status # "running"
  PROVE  /\ \A i \in DOMAIN pass.items : pass.items[i].id \in Reqs /\ pass.items[i].id # r
         /\ NewIn(r) = FALSE
<1>1. PICK R : Lists(running, R) /\ R = {q \in Reqs : req[q].status = "running"}
  BY DEF QueueInv, ListInv, Places
<1>2. \A k \in DOMAIN running : running[k] \in R
  BY <1>1 DEF Lists, ToSet
<1>3. \A i \in DOMAIN pass.items : pass.items[i].id \in R
  BY <1>2 DEF QueueInv, PassInv
<1>4. \A i \in DOMAIN pass.items : pass.items[i].id \in Reqs /\ pass.items[i].id # r
  BY <1>1, <1>3
<1> QED BY <1>4 DEF NewIn

(* A request that waits counts anew; the others and the step stay. *)
Waits(q, p) ==
  /\ q.status \notin {"running"} \cup Past /\ p.status \notin {"running"} \cup Past
  /\ p.placeholders = q.placeholders /\ p.specs = q.specs /\ p.stale = q.stale
  /\ p.drop = q.drop /\ p.computed >= 0 /\ p.tokens = q.tokens

LEMMA WaitRuns ==
  ASSUME QueueInv, Still, Alone, RunInv, loads' = loads, NEW r \in Reqs,
         Waits(req[r], req'[r]), \A s \in Reqs \ {r} : req'[s] = req[s],
         pass'.items = pass.items, pass'.pc = pass.pc
  PROVE  RunInv'
<1>1. \A i \in DOMAIN pass.items : pass.items[i].id \in Reqs \ {r}
  <2>1. req[r].status # "running"
    BY DEF Waits
  <2> QED BY <2>1, ItemsRun
<1>2. ItemsFit'
  <2>1. \A i \in DOMAIN pass.items : req'[pass.items[i].id] = req[pass.items[i].id]
    BY <1>1
  <2> QED BY <2>1 DEF RunInv, ItemsFit
<1>3. \A s : NewIn(s)' = NewIn(s)
  BY DEF NewIn
<1>4. RunFor(r)'
  <2>1. PICK q, p : q = req[r] /\ p = req'[r]
    OBVIOUS
  <2>2. RunFor(r)
    BY DEF RunInv
  <2>3. /\ q.status \notin {"running"} \cup Past /\ p.status \notin {"running"} \cup Past
        /\ p.placeholders = q.placeholders /\ p.specs = q.specs /\ p.stale = q.stale
        /\ p.drop = q.drop /\ p.computed >= 0 /\ p.tokens = q.tokens
    BY <2>1 DEF Waits
  <2> QED BY <2>1, <2>2, <2>3, IdleRuns
<1>5. ASSUME NEW s \in Reqs \ {r}
      PROVE  RunFor(s)'
  <2>1. RunFor(s) /\ req'[s] = req[s] /\ Alike(req[s], req'[s])
    BY DEF RunInv, Alike
  <2> QED BY <1>3, <2>1, SameRuns
<1> QED BY <1>2, <1>4, <1>5, StillRuns

LEMMA PromoteRuns ==
  ASSUME QueueInv, BlockInv, Alone, RunInv, Promote, UNCHANGED <<runnerVars, left>>
  PROVE  RunInv'
<1>1. PICK r, lost, full, st :
        /\ r = Candidate
        /\ lost = (r \in failedRecv /\ req[r].computed = 0)
        /\ full = (r \notin failedRecv /\ req[r].status = "remote" /\ req[r].computed = req[r].tokens)
        /\ st = (IF req[r].status = "remote" /\ req[r].preempted THEN "preempted" ELSE "waiting")
  OBVIOUS
<1>2. /\ req' = [req EXCEPT ![r].status = st, ![r].computed = IF full THEN @ - 1 ELSE @,
                            ![r].blocks = IF lost THEN <<>> ELSE @]
      /\ pass' = pass /\ conf' = conf
  BY <1>1 DEF Promote
<1>3. /\ r \in Reqs /\ Numbers(req[r]) /\ DOMAIN req = Reqs /\ DOMAIN req[r] = Fields
      /\ req[r].status \notin {"running"} \cup Over \cup Past
  BY <1>1, CandidateStands DEF Promote
<1>4. PICK p, q : p = req'[r] /\ q = req[r]
  OBVIOUS
<1>5. /\ p = [q EXCEPT !.status = st, !.computed = IF full THEN @ - 1 ELSE @,
                       !.blocks = IF lost THEN <<>> ELSE @]
      /\ \A s \in Reqs \ {r} : req'[s] = req[s]
  BY <1>2, <1>3, <1>4
<1>6. /\ p.status = st /\ p.tokens = q.tokens
      /\ p.computed = (IF full THEN q.computed - 1 ELSE q.computed)
      /\ p.stale = q.stale /\ p.placeholders = q.placeholders /\ p.specs = q.specs
      /\ p.drop = q.drop
  BY <1>3, <1>4, <1>5, FieldsAre
<1>7. Still /\ loads' = loads
  BY <1>2 DEF runnerVars, Still
<1>8. q.status \notin {"running"} \cup Past /\ p.status \notin {"running"} \cup Past
  BY <1>1, <1>3, <1>4, <1>6 DEF Past
<1>9. SignsRight(Async, Solo, q)
  BY <1>3, <1>4, <1>8 DEF RunInv, RunFor
<1>10. p.computed >= 0
  <2>1. CASE full
    <3>1. q.status = "remote" /\ q.computed = q.tokens
      BY <1>1, <1>4, <2>1
    <3>2. conf.connector
      BY <1>3, <1>4, <3>1, LoadingIs DEF BlockInv
    <3>3. Solo
      BY <3>2 DEF Alone, Solo
    <3>4. q.tokens >= 1 /\ q.computed \in Int
      BY <1>3, <1>4, <1>9, <3>3 DEF SignsRight, Numbers
    <3> QED BY <1>6, <2>1, <3>1, <3>4
  <2>2. CASE ~full
    BY <1>6, <1>9, <2>2 DEF SignsRight
  <2> QED BY <2>1, <2>2
<1>11. pass'.items = pass.items /\ pass'.pc = pass.pc
  BY <1>2
<1>12. Waits(req[r], req'[r])
  BY <1>4, <1>6, <1>8, <1>10 DEF Waits
<1> QED BY <1>3, <1>5, <1>7, <1>11, <1>12, WaitRuns

LEMMA StartLoadRuns ==
  ASSUME QueueInv, BlockInv, Alone, RunInv, NEW n \in Nat, StartLoad(n),
         UNCHANGED <<runnerVars, left>>
  PROVE  RunInv'
<1>1. PICK r : r = Candidate
  OBVIOUS
<1>2. /\ req' = [req EXCEPT ![r].status = "remote", ![r].computed = n,
                            ![r].blocks = @ \o Allocated(r, n)]
      /\ pass' = [pass EXCEPT !.step = Append(@, r), !.loads = @ \cup {r}]
      /\ InWaitingPass /\ conf' = conf
  BY <1>1 DEF StartLoad, MayLoad, Admissible
<1>3. /\ r \in Reqs /\ DOMAIN req = Reqs /\ DOMAIN req[r] = Fields
      /\ req[r].status \notin {"running"} \cup Over \cup Past
  BY <1>1, <1>2, CandidateStands
<1>4. PICK p, q, w : p = req'[r] /\ q = req[r] /\ w = Allocated(r, n)
  OBVIOUS
<1>5. /\ p = [q EXCEPT !.status = "remote", !.computed = n, !.blocks = @ \o w]
      /\ \A s \in Reqs \ {r} : req'[s] = req[s]
  BY <1>2, <1>3, <1>4
<1>6. /\ p.status = "remote" /\ p.tokens = q.tokens /\ p.computed = n
      /\ p.stale = q.stale /\ p.placeholders = q.placeholders /\ p.specs = q.specs
      /\ p.drop = q.drop
  BY <1>3, <1>4, <1>5, FieldsAre
<1>7. Still /\ loads' = loads
  BY <1>2 DEF runnerVars, Still
<1>8. q.status \notin {"running"} \cup Past /\ p.status \notin {"running"} \cup Past
  BY <1>3, <1>4, <1>6 DEF Past
<1>9. pass'.items = pass.items /\ pass'.pc = pass.pc
  BY <1>2, FieldsAre DEF QueueInv, PassInv
<1>10. p.computed >= 0
  BY <1>6
<1>11. Waits(req[r], req'[r])
  BY <1>4, <1>6, <1>8, <1>10 DEF Waits
<1> QED BY <1>3, <1>5, <1>7, <1>9, <1>11, WaitRuns

(* A step that is padded is not shortened to save what the drafts need. *)
LEMMA PaddedReserve ==
  ASSUME NEW r \in Reqs, Numbers(req[r]), req[r].tokens - req[r].computed = 1
  PROVE  Reserved(r, req[r].computed, 1 + NumSpec) = 1 + NumSpec
<1>1. PICK t \in Int, c \in Int : t = req[r].tokens /\ c = req[r].computed /\ t - c = 1
  BY DEF Numbers
<1>2. PICK m : m = t - c - (1 + NumSpec)
  OBVIOUS
<1>3. NumSpec \in Nat
  BY LimitsAssumption
<1>4. m \in Int /\ ~(0 < m)
  BY <1>1, <1>2, <1>3
<1>5. PICK x : x = 1 + NumSpec
  OBVIOUS
<1>6. PICK l, y : l = SplitConf.lookahead /\ y = IF 0 < m /\ m < l THEN x - (l - m) ELSE x
  OBVIOUS
<1>7. y = x /\ x \in Int /\ x >= 0
  BY <1>3, <1>4, <1>5, <1>6
<1>8. SplitReq(r).tokens = t
  BY <1>1 DEF SplitReq
<1>9. PICK k : k = Reserved(r, c, x)
  OBVIOUS
<1>10. k = Max({y, 0})
  BY <1>2, <1>5, <1>6, <1>8, <1>9 DEF Reserved, ReserveLookahead
<1>11. k = x
  BY <1>7, <1>10, MaxOfTwo
<1> QED BY <1>1, <1>5, <1>9, <1>11

(* What a request is admitted with fits it. *)
LEMMA AdmissionFits ==
  ASSUME NEW r \in Reqs, NEW q, q = req[r], Numbers(q), q.placeholders = 0, pass.budget \in Int,
         NEW a, a = Admission(r), a.n > 0, NEW item, item.n = a.n, item.specs = a.specs
  PROVE  Fitting(q, item)
<1>1. PICK t \in Int, c \in Int : t = q.tokens /\ c = q.computed
  BY DEF Numbers
<1>2. a.n \in Nat /\ (~Padded(r) => a.specs = 0 /\ (a.n = 0 \/ a.n <= t - c))
  BY <1>1, AdmissionIs
<1>3. CASE ~Padded(r)
  <2>1. item.specs = 0 /\ c + item.n <= t
    BY <1>1, <1>2, <1>3
  <2> QED BY <1>1, <2>1 DEF Fitting
<1>4. CASE Padded(r)
  <2>1. t - c = 1
    BY <1>1, <1>4 DEF Padded
  <2>2. PICK m : m = 1 + NumSpec
    OBVIOUS
  <2>3. m \in Nat /\ m = 1 + NumSpec
    BY <2>2, LimitsAssumption
  <2>4. PICK d : d = Clipped(r, c, m)
    OBVIOUS
  <2>5. d \in Int
    BY <1>1, <2>3, <2>4, ChunkIs
  <2>6. PICK u : u = IF d # m THEN Min({d, 1}) ELSE d
    OBVIOUS
  <2>7. PICK k : k = Reserved(r, c, u)
    OBVIOUS
  <2>8. a = [n |-> k, specs |-> IF ~(d # m) THEN NumSpec ELSE 0]
    BY <1>1, <1>4, <2>2, <2>4, <2>6, <2>7 DEF Admission
  <2>9. CASE d = m
    <3>1. k = Reserved(r, c, m)
      BY <2>6, <2>7, <2>9
    <3>2. k = m
      BY <1>1, <2>1, <2>2, <3>1, PaddedReserve
    <3>3. item.n = m /\ item.specs = NumSpec
      BY <2>8, <2>9, <3>2
    <3>4. item.n = item.specs + 1 /\ c + 1 = t
      BY <2>1, <2>3, <3>3, LimitsAssumption
    <3> QED BY <1>1, <3>4 DEF Fitting
  <2>10. CASE d # m
    <3>1. u = Min({d, 1})
      BY <2>6, <2>10
    <3>2. u \in Int /\ u <= 1
      BY <2>5, <3>1, MinOfTwo
    <3>3. k \in Nat /\ (k <= u \/ k = 0)
      BY <1>1, <2>7, <3>2, ChunkIs
    <3>4. item.specs = 0 /\ item.n = k
      BY <2>8, <2>10
    <3>5. c + item.n <= t
      BY <2>1, <3>2, <3>3, <3>4
    <3> QED BY <1>1, <3>4, <3>5 DEF Fitting
  <2> QED BY <2>9, <2>10
<1> QED BY <1>3, <1>4

LEMMA AdmitRuns ==
  ASSUME QueueInv, BlockInv, Alone, RunInv, Admit, UNCHANGED <<runnerVars, left>>
  PROVE  RunInv'
<1>1. PICK r, a, upto, item :
        r = Candidate /\ a = Admission(r) /\ upto = req[r].computed + a.n + NumSpec
        /\ item = Scheduled(r, a.n, a.specs, TRUE)
  OBVIOUS
<1>2. /\ req' = [req EXCEPT ![r].status = "running", ![r].blocks = @ \o Allocated(r, upto)]
      /\ pass' = [pass EXCEPT !.budget = @ - a.n, !.items = Append(@, item)]
      /\ a.n > 0 /\ InWaitingPass /\ req[r].status \notin Blocked /\ ~MustWait(r) /\ conf' = conf
  BY <1>1 DEF Admit, Admissible, Admitted
<1>3. /\ r \in Reqs /\ Numbers(req[r]) /\ DOMAIN req = Reqs /\ DOMAIN req[r] = Fields
      /\ req[r].status \notin {"running"} \cup Over \cup Past
      /\ Len(flight) < conf.concurrent /\ pass.budget \in Int
  BY <1>1, <1>2, CandidateStands
<1>4. PICK p, q, w : p = req'[r] /\ q = req[r] /\ w = Allocated(r, upto)
  OBVIOUS
<1>5. /\ p = [q EXCEPT !.status = "running", !.blocks = @ \o w]
      /\ \A s \in Reqs \ {r} : req'[s] = req[s]
  BY <1>2, <1>3, <1>4
<1>6. p.status = "running" /\ Alike(q, p)
  BY <1>3, <1>4, <1>5, FieldsAre DEF Alike
<1>7. Still /\ loads' = loads
  BY <1>2 DEF runnerVars, Still
<1>8. q.status \notin {"running"} \cup Past /\ ~(q.stale > 0 /\ ~q.drop) /\ RunFor(r)
  <2>1. q.status \notin {"running"} \cup Past
    BY <1>3, <1>4 DEF Past
  <2>2. ~(q.stale > 0 /\ ~q.drop)
    BY <1>2, <1>4 DEF MustWait
  <2> QED BY <1>3, <2>1, <2>2 DEF RunInv
<1>9. q.placeholders = 0
  BY <1>4, <1>8 DEF RunFor, IdlesRight
<1>10. item.id = r /\ item.n = a.n /\ item.specs = a.specs /\ item.new = TRUE
  BY <1>1 DEF Scheduled
<1>11. Fitting(q, item)
  <2>1. r \in Reqs /\ q = req[r] /\ Numbers(q) /\ pass.budget \in Int
    BY <1>3, <1>4
  <2>2. a = Admission(r) /\ a.n > 0
    BY <1>1, <1>2
  <2>3. item.n = a.n /\ item.specs = a.specs
    BY <1>10
  <2> QED BY <1>9, <2>1, <2>2, <2>3, AdmissionFits
<1>12. PICK X : pass.items \in Seq(X)
  BY DEF QueueInv, PassInv
<1>13. pass'.items = Append(pass.items, item) /\ pass'.pc = "waiting"
  <2>1. DOMAIN pass = DOMAIN NoPass /\ pass.pc = "waiting"
    BY <1>2 DEF QueueInv, PassInv, InWaitingPass
  <2> QED BY <1>2, <2>1, FieldsAre
<1>14. PICK n : n = Len(pass.items)
  OBVIOUS
<1>15. /\ n \in Nat /\ DOMAIN pass.items = 1 .. n /\ DOMAIN pass'.items = 1 .. n + 1
       /\ pass'.items[n + 1] = item /\ \A i \in 1 .. n : pass'.items[i] = pass.items[i]
  BY <1>12, <1>13, <1>14
<1>16. \A i \in 1 .. n : pass.items[i].id \in Reqs /\ pass.items[i].id # r
  <2>1. req[r].status # "running"
    BY <1>3
  <2> QED BY <1>15, <2>1, ItemsRun
<1>17. \A i \in DOMAIN pass'.items : i \in 1 .. n \/ i = n + 1
  BY <1>15
<1>18. n + 1 \in DOMAIN pass'.items /\ \A i \in 1 .. n : i \in DOMAIN pass'.items
  BY <1>15
<1>19. NewIn(r)' = TRUE
  BY <1>10, <1>15, <1>18 DEF NewIn
<1>20. ItemsFit'
  <2>1. \A i \in 1 .. n : Fitting(req'[pass.items[i].id], pass.items[i])
    BY <1>5, <1>15, <1>16 DEF RunInv, ItemsFit
  <2>2. Fitting(p, item)
    BY <1>6, <1>11 DEF Alike, Fitting
  <2>3. Fitting(req'[item.id], item)
    BY <1>4, <1>10, <2>2
  <2> QED BY <1>13, <1>15, <1>17, <2>1, <2>3 DEF ItemsFit
<1>21. ASSUME NEW s \in Reqs
       PROVE  RunFor(s)'
  <2>1. CASE s = r
    BY <1>3, <1>4, <1>6, <1>7, <1>8, <1>19, <2>1, BegunRuns
  <2>2. CASE s # r
    <3>1. NewIn(s)' = NewIn(s)
      <4>1. NewIn(s) <=> \E i \in 1 .. n : pass.items[i].id = s /\ pass.items[i].new
        BY <1>15 DEF NewIn
      <4>2. NewIn(s)' <=> \E i \in 1 .. n : pass.items[i].id = s /\ pass.items[i].new
        BY <1>10, <1>15, <1>17, <1>18, <2>2 DEF NewIn
      <4> QED BY <4>1, <4>2 DEF NewIn
    <3>2. RunFor(s) /\ req'[s] = req[s] /\ Alike(req[s], req'[s])
      BY <1>5, <2>2 DEF RunInv, Alike
    <3> QED BY <1>7, <3>1, <3>2, SameRuns
  <2> QED BY <2>1, <2>2
<1> QED BY <1>7, <1>20, <1>21, StillRuns

-----------------------------------------------------------------------------
(* The invariant holds at the start, and every step keeps it. *)

LEMMA InitRun == SessionsAlone /\ EngineInit => RunInv
<1> SUFFICES ASSUME SessionsAlone, EngineInit PROVE RunInv
  OBVIOUS
<1>1. /\ req = [r \in Reqs |-> NewRequest(r)] /\ flight = <<>> /\ slots = <<>>
      /\ loads = [r \in Reqs |-> NoTransfer] /\ pass = NoPass
  BY DEF EngineInit, Init
<1>2. pass.items = <<>> /\ DOMAIN flight = {} /\ DOMAIN slots = {}
  BY <1>1 DEF NoPass
<1>3. ItemsFit
  BY <1>2 DEF ItemsFit
<1>4. LoadsFit
  <2>1. \A r \in Reqs : loads[r].valid = 0
    BY <1>1 DEF NoTransfer
  <2> QED BY <1>2, <2>1 DEF LoadsFit
<1>5. SlotsMade
  BY <1>2 DEF SlotsMade
<1>6. ASSUME NEW r \in Reqs
      PROVE  RunFor(r)
  <2>1. PICK q : q = req[r]
    OBVIOUS
  <2>2. /\ q.status = "none" /\ q.tokens = Prompt[r] /\ q.computed = 0 /\ q.stale = 0
        /\ q.placeholders = 0 /\ q.specs = 0
    BY <1>1, <2>1 DEF NewRequest
  <2>3. Brought(1, r) = Nothing /\ Brought(2, r) = Nothing
    BY <1>2 DEF Brought
  <2>4. Prompt[r] >= 1
    BY LimitsAssumption
  <2>5. IdlesRight(Async, q, Nothing, Nothing)
    BY <2>2, NothingIs DEF IdlesRight, Follows
  <2>6. SignsRight(Async, Solo, q)
    BY <2>2, <2>4 DEF SignsRight
  <2> QED BY <2>1, <2>2, <2>3, <2>5, <2>6 DEF RunFor
<1> QED BY <1>3, <1>4, <1>5, <1>6 DEF RunInv

LEMMA RunKept == QueueInv /\ SlotInv /\ FullInv /\ RunInv /\ [Next]_vars => RunInv'
<1> SUFFICES ASSUME QueueInv, SlotInv, FullInv, RunInv, [Next]_vars PROVE RunInv'
  OBVIOUS
<1>1. IsFiniteSet(Reqs) /\ Alone /\ HoldInv /\ BlockInv
  BY ReqsAssumption DEF SlotInv, FullInv
<1>2. CASE Schedule
  BY <1>1, <1>2, ScheduleRuns
<1>3. CASE Pass
  <2>1. UNCHANGED <<runnerVars, left>> /\ SchedulePass
    BY <1>3 DEF Pass
  <2>2. CASE ScheduleRunning
    BY <1>1, <2>1, <2>2, ScheduleRunningRuns
  <2>3. CASE PreemptLast
    BY <1>1, <2>1, <2>3, PreemptLastRuns
  <2>4. CASE Promote
    BY <1>1, <2>1, <2>4, PromoteRuns
  <2>5. CASE Admit
    BY <1>1, <2>1, <2>5, AdmitRuns
  <2>6. CASE \/ PassOverRunning \/ RunningDone \/ StopAdmitting \/ SkipWaiting
             \/ \E n \in 1 .. MaxModelLen : RefuseLoad(n)
    BY <2>1, <2>6, LookRuns
  <2>7. CASE \E n \in 1 .. MaxModelLen : StartLoad(n)
    <3>1. PICK n \in 1 .. MaxModelLen : StartLoad(n)
      BY <2>7
    <3>2. n \in Nat
      BY LimitsAssumption
    <3> QED BY <1>1, <2>1, <3>1, <3>2, StartLoadRuns
  <2> QED BY <2>1, <2>2, <2>3, <2>4, <2>5, <2>6, <2>7 DEF SchedulePass
<1>4. CASE Emit
  BY <1>1, <1>4, EmitRuns
<1>5. CASE Process
  BY <1>1, <1>5, ProcessRuns
<1>6. CASE Environment
  <2>1. CASE Reset
    BY <1>1, <2>1, ResetRuns
  <2>2. CASE Pause \/ Resume
    <3>1. Still /\ req' = req /\ pass' = pass /\ loads' = loads
      BY <2>2 DEF Pause, Resume, SetPauseState, runnerVars, Still
    <3> QED BY <3>1, QuietRuns DEF RunInv, LoadsFit
  <2>3. CASE \E r \in Reqs : LoadDone(r) \/ StoreDone(r)
    BY <1>1, <2>3, LoadDoneRuns
  <2>4. CASE \E r \in Reqs : Arrive(r)
    BY <1>1, <2>4, ArriveRuns
  <2>5. CASE \E r \in Reqs : Compile(r)
    BY <1>1, <2>5, CompileRuns
  <2>6. CASE \E r \in Reqs : NextInput(r)
    BY <1>1, <2>6, NextInputRuns
  <2>7. CASE \E r \in Reqs : \E send \in BOOLEAN : Abort(r, send)
    BY <2>7, AbortRuns
  <2> QED BY <1>6, <2>1, <2>2, <2>3, <2>4, <2>5, <2>6, <2>7 DEF Environment
<1>7. CASE UNCHANGED vars
  <2>1. Still /\ req' = req /\ pass' = pass /\ loads' = loads
    BY <1>7 DEF vars, schedVars, kv, runnerVars, Still
  <2> QED BY <2>1, QuietRuns DEF RunInv, LoadsFit
<1> QED BY <1>2, <1>3, <1>4, <1>5, <1>6, <1>7 DEF Next, Loop

(* The sum of at most two numbers. *)
LEMMA TotalIs ==
  ASSUME NEW s, NEW n \in 0 .. 2, s \in Seq(Int), Len(s) = n
  PROVE  Total(s) = IF n = 0 THEN 0 ELSE IF n = 1 THEN s[1] ELSE s[1] + s[2]
<1> DEFINE R(f) == f = [k \in 0 .. Len(s) |-> IF k = 0 THEN 0 ELSE f[k - 1] + s[k]]
           g == [k \in 0 .. n |-> IF k = 0 THEN 0 ELSE IF k = 1 THEN s[1] ELSE s[1] + s[2]]
<1>1. (n >= 1 => s[1] \in Int) /\ (n = 2 => s[2] \in Int)
  OBVIOUS
<1>2. R(g)
  <2>1. ASSUME NEW k \in 0 .. n
        PROVE  g[k] = IF k = 0 THEN 0 ELSE g[k - 1] + s[k]
    <3>1. k = 0 \/ k = 1 \/ k = 2
      OBVIOUS
    <3>2. CASE k = 0
      BY <3>2
    <3>3. CASE k = 1
      <4>1. g[1] = s[1] /\ g[0] = 0 /\ s[1] \in Int
        BY <1>1, <3>3
      <4> QED BY <3>3, <4>1
    <3>4. CASE k = 2
      <4>1. g[2] = s[1] + s[2] /\ g[1] = s[1]
        BY <3>4
      <4> QED BY <3>4, <4>1
    <3> QED BY <3>1, <3>2, <3>3, <3>4
  <2> QED BY <2>1
<1> HIDE DEF g
<1>3. PICK h : h = CHOOSE f : R(f)
  OBVIOUS
<1>4. R(h)
  BY <1>2, <1>3
<1>5. /\ h[0] = 0 /\ (n >= 1 => h[1] = h[0] + s[1]) /\ (n = 2 => h[2] = h[1] + s[2])
  BY <1>4
<1>6. Total(s) = h[n]
  BY <1>3 DEF Total
<1> QED BY <1>1, <1>5, <1>6

-----------------------------------------------------------------------------
(* The sums over the flight. *)

(* What is in flight for a request, and before each step in flight. *)
LEMMA FlyingSum ==
  ASSUME QueueInv, BlockInv, NEW r, NEW k \in 0 .. Len(flight)
  PROVE  Flying(r, k) = IF k = 0 THEN 0 ELSE IF k = 1 THEN Share(1, r)
                        ELSE Share(1, r) + Share(2, r)
<1>1. Len(flight) \in 0 .. 2 /\ DOMAIN flight = 1 .. Len(flight)
  BY FlightIs DEF QueueInv, BlockInv
<1>2. PICK s : s = [j \in 1 .. k |-> ResultIn(j, r).n]
  OBVIOUS
<1>3. \A j \in 1 .. k : j \in DOMAIN flight /\ s[j] = Share(j, r)
  BY <1>1, <1>2 DEF Share
<1>4. \A j : Share(j, r) \in Int
  <2>1. \A j : Result3(Brought(j, r))
    BY ResultsAre
  <2> QED BY <2>1, BroughtShares DEF Result3
<1>5. k \in 0 .. 2 /\ s \in Seq(Int) /\ Len(s) = k
  <2>1. k \in 0 .. 2
    BY <1>1
  <2>2. s \in [1 .. k -> Int]
    BY <1>2, <1>3, <1>4
  <2> QED BY <2>1, <2>2
<1>6. Flying(r, k) = Total(s)
  BY <1>2 DEF Flying
<1>7. Total(s) = IF k = 0 THEN 0 ELSE IF k = 1 THEN s[1] ELSE s[1] + s[2]
  BY <1>5, TotalIs
<1>8. (k >= 1 => 1 \in 1 .. k) /\ (k = 2 => 2 \in 1 .. k) /\ k \in {0, 1, 2}
  BY <1>5
<1> QED BY <1>3, <1>6, <1>7, <1>8

(* A sum over the steps in flight that leaves the stale one out. *)
LEMMA FreshSum ==
  ASSUME QueueInv, BlockInv, NEW r, NEW d \in Int, d = 0 \/ d = Share(1, r),
         NEW F, NEW x \in Int, NEW y \in Int,
         x = IF 1 \in DOMAIN flight THEN F[1] ELSE 0,
         y = IF 2 \in DOMAIN flight THEN F[2] ELSE 0,
         NEW s, s = [k \in DOMAIN flight |-> IF Flying(r, k - 1) < d THEN 0 ELSE F[k]]
  PROVE  Total(s) = (IF d = 0 THEN x ELSE 0) + y
<1>1. PICK n \in 0 .. 2 : n = Len(flight) /\ DOMAIN flight = 1 .. n
  BY FlightIs DEF QueueInv, BlockInv
<1>2. Share(1, r) \in Nat /\ Share(2, r) \in Nat
  <2>1. \A j : Result3(Brought(j, r))
    BY ResultsAre
  <2> QED BY <2>1, BroughtShares DEF Result3
<1>3. n >= 1 => Flying(r, 0) = 0 /\ s[1] = IF 0 < d THEN 0 ELSE x
  <2>1. SUFFICES ASSUME n >= 1 PROVE Flying(r, 0) = 0 /\ s[1] = IF 0 < d THEN 0 ELSE x
    OBVIOUS
  <2>2. 0 \in 0 .. Len(flight) /\ 1 \in DOMAIN flight
    BY <1>1, <2>1
  <2>3. Flying(r, 0) = 0
    BY <2>2, FlyingSum
  <2>4. s[1] = IF Flying(r, 1 - 1) < d THEN 0 ELSE F[1]
    BY <2>2
  <2> QED BY <2>2, <2>3, <2>4
<1>4. n = 2 => s[2] = y
  <2>1. SUFFICES ASSUME n = 2 PROVE s[2] = y
    OBVIOUS
  <2>2. 1 \in 0 .. Len(flight) /\ 2 \in DOMAIN flight
    BY <1>1, <2>1
  <2>3. Flying(r, 1) = Share(1, r)
    BY <2>2, FlyingSum
  <2>4. s[2] = IF Flying(r, 2 - 1) < d THEN 0 ELSE F[2]
    BY <2>2
  <2>5. ~(Share(1, r) < d)
    BY <1>2
  <2> QED BY <2>2, <2>3, <2>4, <2>5
<1>5. d >= 0
  BY <1>2
<1>6. n < 2 => y = 0
  BY <1>1
<1>7. n = 0 => x = 0
  BY <1>1
<1>8. s \in Seq(Int) /\ Len(s) = n
  <2>1. \A k \in 1 .. n : s[k] \in Int
    <3>1. \A k \in 1 .. n : k = 1 \/ (k = 2 /\ n = 2)
      <4>1. n = 0 \/ n = 1 \/ n = 2
        OBVIOUS
      <4> QED BY <4>1
    <3> QED BY <1>1, <1>3, <1>4, <3>1
  <2>2. s \in [1 .. n -> Int]
    BY <1>1, <2>1
  <2> QED BY <2>2
<1>9. Total(s) = IF n = 0 THEN 0 ELSE IF n = 1 THEN s[1] ELSE s[1] + s[2]
  BY <1>8, TotalIs
<1>10. n = 0 \/ n = 1 \/ n = 2
  OBVIOUS
<1> QED BY <1>3, <1>4, <1>5, <1>6, <1>7, <1>9, <1>10

(* The result in flight, if there is one. *)
LEMMA ResultIs ==
  ASSUME QueueInv, BlockInv, NEW r, NEW k \in DOMAIN flight
  PROVE  /\ Rejected(ResultIn(k, r)) = Rejected(Brought(k, r))
         /\ ResultIn(k, r).gen = Brought(k, r).gen
         /\ (IF ResultIn(k, r).gen = 0 THEN 0 ELSE 1 + ResultIn(k, r).specs)
            = Expected(Brought(k, r))
<1>1. PICK x, y : x = ResultIn(k, r) /\ y = Brought(k, r)
  OBVIOUS
<1>2. x = y \/ (x = NoResult /\ y = Nothing)
  BY <1>1 DEF ResultIn, Brought
<1>3. Rejected(x) = Rejected(y) /\ x.gen = y.gen
      /\ (IF x.gen = 0 THEN 0 ELSE 1 + x.specs) = Expected(y)
  BY <1>2 DEF Rejected, Expected, Nothing, NoResult
<1> QED BY <1>1, <1>3

FreshRejected(r) == Fresh(r, Rejected)
FreshGen(r) == Fresh(r, LAMBDA x : x.gen)
FreshExpected(r) == Fresh(r, LAMBDA x : IF x.gen = 0 THEN 0 ELSE 1 + x.specs)

LEMMA FreshIs ==
  ASSUME QueueInv, BlockInv, NEW r \in Reqs, NEW q, q = req[r], q.stale \in Int,
         NEW x, x = Brought(1, r), NEW y, y = Brought(2, r), NEW z, z = Valid(q, x),
         q.stale = 0 \/ q.stale = x.n
  PROVE  /\ FreshRejected(r) = Rejected(z) + Rejected(y)
         /\ FreshGen(r) = z.gen + y.gen
         /\ FreshExpected(r) = Expected(z) + Expected(y)
<1>1. PICK d \in Int : d = q.stale
  OBVIOUS
<1>2. d = 0 \/ d = Share(1, r)
  BY <1>1, BroughtShares
<1>3. Result3(x) /\ Result3(y)
  BY ResultsAre
<1>4. /\ Rejected(x) \in Int /\ Rejected(y) \in Int /\ x.gen \in Int /\ y.gen \in Int
      /\ Expected(x) \in Int /\ Expected(y) \in Int
  BY <1>3, RejectedIs DEF Result3
<1>5. /\ 1 \notin DOMAIN flight => x = Nothing
      /\ 2 \notin DOMAIN flight => y = Nothing
  BY DEF Brought
<1>6. /\ Rejected(z) = (IF d = 0 THEN Rejected(x) ELSE 0)
      /\ z.gen = (IF d = 0 THEN x.gen ELSE 0)
      /\ Expected(z) = (IF d = 0 THEN Expected(x) ELSE 0)
  BY <1>1, NothingIs DEF Valid
<1>7. FreshRejected(r) = Rejected(z) + Rejected(y)
  <2>1. PICK F : F = [k \in DOMAIN flight |-> Rejected(ResultIn(k, r))]
    OBVIOUS
  <2>2. PICK s : s = [k \in DOMAIN flight |-> IF Flying(r, k - 1) < d THEN 0 ELSE F[k]]
    OBVIOUS
  <2>3. s = [k \in DOMAIN flight |-> IF Flying(r, k - 1) < d THEN 0 ELSE Rejected(ResultIn(k, r))]
    BY <2>1, <2>2
  <2>4. FreshRejected(r) = Total(s)
    BY <1>1, <2>3 DEF FreshRejected, Fresh
  <2>5. \A k \in DOMAIN flight : F[k] = Rejected(Brought(k, r))
    BY <2>1, ResultIs
  <2>6. /\ Rejected(x) = IF 1 \in DOMAIN flight THEN F[1] ELSE 0
        /\ Rejected(y) = IF 2 \in DOMAIN flight THEN F[2] ELSE 0
    BY <1>5, <2>5, NothingIs
  <2>7. Total(s) = (IF d = 0 THEN Rejected(x) ELSE 0) + Rejected(y)
    <3>1. PICK u \in Int, v \in Int : u = Rejected(x) /\ v = Rejected(y)
      BY <1>4
    <3>2. /\ u = IF 1 \in DOMAIN flight THEN F[1] ELSE 0
          /\ v = IF 2 \in DOMAIN flight THEN F[2] ELSE 0
      BY <2>6, <3>1
    <3>3. Total(s) = (IF d = 0 THEN u ELSE 0) + v
      BY <1>2, <2>2, <3>2, FreshSum
    <3> QED BY <3>1, <3>3
  <2> QED BY <1>6, <2>4, <2>7
<1>8. FreshGen(r) = z.gen + y.gen
  <2>1. PICK F : F = [k \in DOMAIN flight |-> ResultIn(k, r).gen]
    OBVIOUS
  <2>2. PICK s : s = [k \in DOMAIN flight |-> IF Flying(r, k - 1) < d THEN 0 ELSE F[k]]
    OBVIOUS
  <2>3. s = [k \in DOMAIN flight |-> IF Flying(r, k - 1) < d THEN 0 ELSE ResultIn(k, r).gen]
    BY <2>1, <2>2
  <2>4. FreshGen(r) = Total(s)
    BY <1>1, <2>3 DEF FreshGen, Fresh
  <2>5. \A k \in DOMAIN flight : F[k] = Brought(k, r).gen
    BY <2>1, ResultIs
  <2>6. /\ x.gen = IF 1 \in DOMAIN flight THEN F[1] ELSE 0
        /\ y.gen = IF 2 \in DOMAIN flight THEN F[2] ELSE 0
    BY <1>5, <2>5, NothingIs
  <2>7. Total(s) = (IF d = 0 THEN x.gen ELSE 0) + y.gen
    <3>1. PICK u \in Int, v \in Int : u = x.gen /\ v = y.gen
      BY <1>4
    <3>2. /\ u = IF 1 \in DOMAIN flight THEN F[1] ELSE 0
          /\ v = IF 2 \in DOMAIN flight THEN F[2] ELSE 0
      BY <2>6, <3>1
    <3>3. Total(s) = (IF d = 0 THEN u ELSE 0) + v
      BY <1>2, <2>2, <3>2, FreshSum
    <3> QED BY <3>1, <3>3
  <2> QED BY <1>6, <2>4, <2>7
<1>9. FreshExpected(r) = Expected(z) + Expected(y)
  <2>1. PICK F : F = [k \in DOMAIN flight |-> IF ResultIn(k, r).gen = 0 THEN 0
                                              ELSE 1 + ResultIn(k, r).specs]
    OBVIOUS
  <2>2. PICK s : s = [k \in DOMAIN flight |-> IF Flying(r, k - 1) < d THEN 0 ELSE F[k]]
    OBVIOUS
  <2>3. s = [k \in DOMAIN flight |-> IF Flying(r, k - 1) < d THEN 0
                                     ELSE IF ResultIn(k, r).gen = 0 THEN 0
                                          ELSE 1 + ResultIn(k, r).specs]
    BY <2>1, <2>2
  <2>4. FreshExpected(r) = Total(s)
    BY <1>1, <2>3 DEF FreshExpected, Fresh
  <2>5. \A k \in DOMAIN flight : F[k] = Expected(Brought(k, r))
    BY <2>1, ResultIs
  <2>6. /\ Expected(x) = IF 1 \in DOMAIN flight THEN F[1] ELSE 0
        /\ Expected(y) = IF 2 \in DOMAIN flight THEN F[2] ELSE 0
    BY <1>5, <2>5, NothingIs
  <2>7. Total(s) = (IF d = 0 THEN Expected(x) ELSE 0) + Expected(y)
    <3>1. PICK u \in Int, v \in Int : u = Expected(x) /\ v = Expected(y)
      BY <1>4
    <3>2. /\ u = IF 1 \in DOMAIN flight THEN F[1] ELSE 0
          /\ v = IF 2 \in DOMAIN flight THEN F[2] ELSE 0
      BY <2>6, <3>1
    <3>3. Total(s) = (IF d = 0 THEN u ELSE 0) + v
      BY <1>2, <2>2, <3>2, FreshSum
    <3> QED BY <3>1, <3>3
  <2> QED BY <1>6, <2>4, <2>7
<1> QED BY <1>7, <1>8, <1>9

LEMMA RunAgrees == QueueInv /\ SlotInv /\ FullInv /\ RunInv => RunnerAgrees
<1> SUFFICES ASSUME QueueInv, SlotInv, FullInv, RunInv, NEW r \in Reqs
             PROVE  /\ req[r].status \notin {"none", "gone"} =>
                         req[r].inFlight = Flying(r, Len(flight))
                    /\ req[r].status = "running" /\ pass.pc = "idle" =>
                         /\ r \in DOMAIN slots
                         /\ req[r].computed = slots[r].computed + Fresh(r, Rejected)
                         /\ req[r].tokens + Fresh(r, LAMBDA x : x.gen) = slots[r].len
                         /\ req[r].placeholders = IF Async
                              THEN Fresh(r, LAMBDA x : IF x.gen = 0 THEN 0 ELSE 1 + x.specs) ELSE 0
  BY Zenon DEF RunnerAgrees
<1>1. BlockInv /\ HoldInv
  BY DEF FullInv, SlotInv
<1>2. ASSUME req[r].status # "gone"
      PROVE  req[r].inFlight = Flying(r, Len(flight))
  <2>1. PICK n \in 0 .. 2 : n = Len(flight) /\ DOMAIN flight = 1 .. n
    BY <1>1, FlightIs DEF QueueInv, BlockInv
  <2>2. req[r].inFlight = Share(1, r) + Share(2, r)
    BY <1>1, <1>2 DEF BlockInv, ShareInv
  <2>3. Share(1, r) \in Nat /\ Share(2, r) \in Nat
    <3>1. \A j : Result3(Brought(j, r))
      BY <1>1, ResultsAre
    <3> QED BY <1>1, <3>1, BroughtShares DEF Result3
  <2>4. (n = 0 => Share(1, r) = 0) /\ (n < 2 => Share(2, r) = 0)
    BY <2>1 DEF Share
  <2>5. n \in 0 .. Len(flight)
    BY <2>1
  <2>6. Flying(r, n) = IF n = 0 THEN 0 ELSE IF n = 1 THEN Share(1, r) ELSE Share(1, r) + Share(2, r)
    BY <1>1, <2>5, FlyingSum
  <2> QED BY <2>1, <2>2, <2>3, <2>4, <2>6
<1>3. ASSUME req[r].status = "running", pass.pc = "idle"
      PROVE  /\ r \in DOMAIN slots
             /\ req[r].computed = slots[r].computed + FreshRejected(r)
             /\ req[r].tokens + FreshGen(r) = slots[r].len
             /\ req[r].placeholders = IF Async THEN FreshExpected(r) ELSE 0
  <2>1. pass.items = <<>>
    BY <1>3 DEF QueueInv, PassInv
  <2>2. r \in DOMAIN slots /\ NewIn(r) = FALSE
    BY <1>1, <1>3, <2>1 DEF HoldInv, Held, NewIn
  <2>3. PICK q, x, y, z, s : q = req[r] /\ x = Brought(1, r) /\ y = Brought(2, r)
                             /\ z = Valid(q, x) /\ s = slots[r]
    OBVIOUS
  <2>4. RunsRight(Async, q, s, FALSE, x, y)
    BY <1>3, <2>2, <2>3 DEF RunInv, RunFor
  <2>5. Numbers(q)
    BY <1>1, <2>3, NumbersAre DEF QueueInv
  <2>6. (q.stale = 0 \/ q.stale = x.n) /\ Agrees(Async, q, s, z, y) /\ SlotIs(s, z, y)
    BY <2>3, <2>4 DEF RunsRight
  <2>7. q.stale \in Int
    BY <2>5 DEF Numbers
  <2>8. /\ FreshRejected(r) = Rejected(z) + Rejected(y)
        /\ FreshGen(r) = z.gen + y.gen
        /\ FreshExpected(r) = Expected(z) + Expected(y)
    BY <1>1, <2>3, <2>6, <2>7, FreshIs
  <2>9. Result3(z) /\ Result3(y)
    BY <1>1, <2>3, ResultsAre, NothingIs DEF Valid
  <2>10. /\ Rejected(z) \in Nat /\ Rejected(y) \in Nat /\ z.gen \in Nat /\ y.gen \in Nat
         /\ q.tokens \in Int /\ s.computed \in Nat
    BY <2>5, <2>6, <2>9, RejectedIs DEF Result3, Numbers, SlotIs
  <2>11. q.computed = s.computed + (Rejected(z) + Rejected(y))
    BY <2>6, <2>10 DEF Agrees
  <2>12. q.tokens + (z.gen + y.gen) = s.len
    BY <2>6, <2>10 DEF Agrees
  <2>13. q.placeholders = IF Async THEN Expected(z) + Expected(y) ELSE 0
    BY <2>6 DEF Agrees
  <2> QED BY <2>2, <2>3, <2>8, <2>11, <2>12, <2>13
<1>4. /\ Fresh(r, Rejected) = FreshRejected(r)
      /\ Fresh(r, LAMBDA x : x.gen) = FreshGen(r)
      /\ Fresh(r, LAMBDA x : IF x.gen = 0 THEN 0 ELSE 1 + x.specs) = FreshExpected(r)
  BY Zenon DEF FreshRejected, FreshGen, FreshExpected
<1> QED BY Zenon, <1>2, <1>3, <1>4

-----------------------------------------------------------------------------
(* The order of the outputs, and the theorems. *)

LEMMA AgreesKept ==
  QueueInv /\ SlotInv /\ FullInv /\ RunInv /\ [Next]_vars => (QueueInv /\ SlotInv /\ FullInv /\ RunInv)'
BY AllKept, RunKept

(* The tokens of a request grow by what follows them. *)
LEMMA GrowsInOrder ==
  ASSUME QueueInv, BlockInv, RunInv, Alone, 1 \in DOMAIN flight, NEW out, out = flight[1],
         Applies(out.results, out.recv, out.sent), pass.items = <<>>,
         NEW send, UpdateFromOutput(out.results, out.recv, out.sent, send),
         NEW i \in DOMAIN out.results, NEW u, u = out.results[i], NEW r, r = u.id,
         req'[r].tokens > req[r].tokens
  PROVE  u.pos = req[r].tokens
<1>1. PICK S, of : S = out.results /\ of = Items(S)
  OBVIOUS
<1>2. /\ r \in Reqs /\ u.n # 0 /\ req[r].status \notin {"none", "grammar"}
      /\ \A j, k \in DOMAIN S : S[j].id = S[k].id => j = k
      /\ req[r].status = "remote" => req[r].drop
  BY <1>1 DEF Applies
<1>3. r \in DOMAIN of /\ of[r] = u
  <2>1. \A j, k \in DOMAIN S : S[j].id = S[k].id => j = k
    BY <1>2
  <2>2. /\ DOMAIN Items(S) = {S[k].id : k \in DOMAIN S}
        /\ \A k \in DOMAIN S : Items(S)[S[k].id] = S[k]
    BY <2>1, ItemsAre
  <2> QED BY <1>1, <2>2
<1>4. PICK q, p, y : q = req[r] /\ p = req'[r] /\ y = Brought(2, r)
  OBVIOUS
<1>5. Brought(1, r) = u /\ Result3(u) /\ Result3(y)
  <2>1. Brought(1, r) = u
    BY <1>1, <1>3 DEF Brought
  <2> QED BY <1>4, <2>1, ResultsAre
<1>6. Numbers(q) /\ \A s \in Reqs : Numbers(req[s])
  BY <1>2, <1>4 DEF BlockInv, NumInv
<1>7. PICK g, a :
         /\ Loaded(g, q, out.recv)
         /\ \/ a = Drained(g, u.n) /\ q.status = "remote"
            \/ a = AfterOutput(r, g, u)
         /\ Settles(r, p, a, DOMAIN of)
  <2>1. \E g, a :
           /\ Loaded(g, req[r], out.recv)
           /\ r \notin DOMAIN of => a = g
           /\ r \in DOMAIN of => \/ a = Drained(g, of[r].n) /\ req[r].status = "remote"
                                 \/ a = AfterOutput(r, g, of[r])
           /\ Settles(r, req'[r], a, DOMAIN of)
    BY <1>1, <1>2, <1>6, UpdatedIs
  <2> QED BY <1>3, <1>4, <2>1
<1>8. p.tokens = a.tokens /\ g.tokens = q.tokens /\ g.status = q.status /\ g.stale = q.stale
      /\ g.drop = q.drop /\ DOMAIN g = Fields /\ a.tokens # g.tokens
  <2>1. /\ p.tokens = a.tokens /\ g.tokens = q.tokens /\ g.status = q.status
        /\ g.stale = q.stale /\ g.drop = q.drop /\ DOMAIN g = Fields
    BY <1>7 DEF Loaded, Settles
  <2>2. q.tokens \in Int /\ p.tokens > q.tokens
    BY <1>4, <1>6 DEF Numbers
  <2> QED BY <2>1, <2>2
<1>9. a # g /\ a # Drained(g, u.n)
  BY <1>8, DrainedNumbersAre
<1>10. q.status \notin Over /\ ~(q.stale > 0 /\ q.drop)
  BY <1>7, <1>8, <1>9 DEF AfterOutput, Discarded
<1>11. q.status \notin Past
  BY <1>7, <1>8, <1>9, <1>10 DEF AfterOutput, Past, Over
<1>12. CASE q.status = "running"
  <2>1. NewIn(r) = FALSE
    BY DEF NewIn
  <2>2. RunsRight(Async, q, slots[r], FALSE, u, y)
    BY <1>2, <1>4, <1>5, <1>12, <2>1 DEF RunInv, RunFor
  <2>3. SignsRight(Async, Solo, q)
    BY <1>2, <1>4, <1>11 DEF RunInv, RunFor
  <2>4. q.stale = 0
    BY <1>6, <1>10, <2>2, <2>3 DEF RunsRight, SignsRight, Numbers
  <2>5. Follows(q, u, y)
    BY <2>2, <2>4 DEF RunsRight, Valid
  <2> QED BY <1>2, <1>4, <2>5 DEF Follows
<1>13. CASE q.status # "running"
  <2>1. IdlesRight(Async, q, u, y)
    BY <1>2, <1>4, <1>5, <1>11, <1>13 DEF RunInv, RunFor
  <2>2. Async
    BY <1>2, <2>1 DEF IdlesRight
  <2>3. conf.sessions = {}
    BY <2>2 DEF Alone, Async
  <2>4. q.stale = q.inFlight /\ q.inFlight = Share(1, r) + Share(2, r)
    BY <1>2, <1>4, <1>11, <1>13, <2>3 DEF BlockInv, ShareInv, Past
  <2>5. Share(1, r) = u.n /\ Share(2, r) = y.n
    BY <1>4, <1>5, BroughtShares
  <2>6. q.stale > 0
    BY <1>2, <1>5, <2>4, <2>5 DEF Result3
  <2>7. Follows(q, u, y)
    BY <1>10, <2>1, <2>2, <2>6 DEF IdlesRight
  <2> QED BY <1>2, <1>4, <2>7 DEF Follows
<1> QED BY <1>12, <1>13

(* No other step takes the oldest output out of the flight. *)
LEMMA OnlyProcess ==
  ASSUME QueueInv, BlockInv, [Next]_vars, flight # <<>>, flight' = Tail(flight)
  PROVE  Process
<1>1. PICK n \in 1 .. 2 : n = Len(flight)
  BY FlightIs DEF QueueInv, BlockInv
<1>2. PICK X : flight \in Seq(X)
  BY DEF QueueInv, FlightInv
<1>3. Len(flight') = n - 1
  BY <1>1, <1>2
<1>4. flight' # flight
  BY <1>1, <1>3
<1>5. CASE Schedule \/ Pass
  BY <1>4, <1>5 DEF Schedule, Pass, runnerVars
<1>6. CASE Emit
  <2>1. \E b : flight' = Append(flight, b)
    BY <1>6 DEF Emit, Execute
  <2>2. PICK b : flight' = Append(flight, b)
    BY <2>1
  <2>3. Len(flight') = n + 1
    BY <1>1, <1>2, <2>2
  <2> QED BY <1>3, <2>3
<1>7. CASE Environment
  <2>1. flight' = flight
    BY <1>7 DEF Environment, Reset, Pause, Resume, LoadDone, StoreDone, Arrive, Compile, NextInput,
              Abort, runnerVars
  <2> QED BY <1>4, <2>1
<1>8. CASE UNCHANGED vars
  BY <1>4, <1>8 DEF vars, runnerVars
<1> QED BY <1>5, <1>6, <1>7, <1>8 DEF Next, Loop

LEMMA StepsInOrder ==
  QueueInv /\ SlotInv /\ FullInv /\ RunInv /\ [Next]_vars =>
    [flight # <<>> /\ flight' = Tail(flight) =>
         \A i \in DOMAIN Head(flight).results :
            LET x == Head(flight).results[i]
            IN  req'[x.id].status \notin {"none"} /\ req'[x.id].tokens > req[x.id].tokens
                  => x.pos = req[x.id].tokens]_vars
<1> SUFFICES ASSUME QueueInv, SlotInv, FullInv, RunInv, [Next]_vars,
                    flight # <<>>, flight' = Tail(flight),
                    NEW i \in DOMAIN Head(flight).results, NEW x, x = Head(flight).results[i],
                    req'[x.id].tokens > req[x.id].tokens
             PROVE  x.pos = req[x.id].tokens
  OBVIOUS
<1>1. Alone /\ BlockInv
  BY DEF SlotInv, FullInv
<1>2. Process
  BY <1>1, OnlyProcess
<1>3. PICK out : out = Head(flight)
  OBVIOUS
<1>4. 1 \in DOMAIN flight /\ out = flight[1]
  <2>1. PICK X : flight \in Seq(X)
    BY DEF QueueInv, FlightInv
  <2> QED BY <1>3, <2>1
<1>5. Applies(out.results, out.recv, out.sent)
  BY <1>1, <1>4, OutputApplies
<1>6. PICK send : UpdateFromOutput(out.results, out.recv, out.sent, send)
  BY <1>2, <1>3 DEF Process
<1>7. pass.items = <<>>
  BY <1>2 DEF Process, QueueInv, PassInv
<1> QED BY <1>1, <1>3, <1>4, <1>5, <1>6, <1>7, GrowsInOrder

(* Between steps the runner's state of a running request and the            *)
(* scheduler's counts agree, once the outputs in flight are counted, for    *)
(* any requests, limits and number of drafts: what was computed ahead of a  *)
(* batch's output is rolled back by exactly what the output rejects.        *)
THEOREM RunnerAgreesCorrect ==
  ASSUME SessionsAlone
  PROVE  Spec => []RunnerAgrees
<1>1. EngineInit => QueueInv /\ SlotInv /\ FullInv /\ RunInv
  BY InitQueues, InitSlots, InitFull, InitRun
<1>2. QueueInv /\ SlotInv /\ FullInv /\ RunInv /\ [Next]_vars
        => (QueueInv /\ SlotInv /\ FullInv /\ RunInv)'
  BY AgreesKept
<1>3. QueueInv /\ SlotInv /\ FullInv /\ RunInv => RunnerAgrees
  BY RunAgrees
<1> QED BY <1>1, <1>2, <1>3, PTL DEF Spec

(* A sampled token is appended where it was sampled: no output is applied   *)
(* to a request after one it does not follow, through any preemption,       *)
(* abort or reset while it was in flight.                                   *)
THEOREM InOrderCorrect ==
  ASSUME SessionsAlone
  PROVE  Spec => InOrder
<1>1. EngineInit => QueueInv /\ SlotInv /\ FullInv /\ RunInv
  BY InitQueues, InitSlots, InitFull, InitRun
<1>2. QueueInv /\ SlotInv /\ FullInv /\ RunInv /\ [Next]_vars
        => (QueueInv /\ SlotInv /\ FullInv /\ RunInv)'
  BY AgreesKept
<1>3. QueueInv /\ SlotInv /\ FullInv /\ RunInv /\ [Next]_vars =>
        [flight # <<>> /\ flight' = Tail(flight) =>
         \A i \in DOMAIN Head(flight).results :
            LET x == Head(flight).results[i]
            IN  req'[x.id].status \notin {"none"} /\ req'[x.id].tokens > req[x.id].tokens
                  => x.pos = req[x.id].tokens]_vars
  BY StepsInOrder
<1> QED BY <1>1, <1>2, <1>3, PTL DEF Spec, InOrder

-----------------------------------------------------------------------------
(* What a step asks of the runner, and the room there is for it. *)

(* The next input of a session fits: no code bounds what it appends to.     *)
SessionsFit == \A r \in GoingOn : req[r].tokens <= MaxModelLen

(* There are positions and blocks for the tokens of an item. *)
Room(q, item) ==
  /\ q.computed + item.n <= MaxModelLen
  /\ q.computed + item.n <= Len(q.blocks) * BlockSize

(* A request that may be scheduled has no more tokens than the model takes. *)
Short(q) == q.status \notin {"stream"} \cup Past => q.tokens <= MaxModelLen

(* What the step put together so far took of the token budget. *)
Taken(items) == Total([i \in DOMAIN items |-> items[i].n])

BudgetFits == pass.budget >= 0 /\ Taken(pass.items) + pass.budget <= TokenBudget

(* The inductive invariant: room was found when an item joined the step.    *)
FitInv ==
  /\ \A r \in Reqs : Short(req[r])
  /\ \A i \in DOMAIN pass.items : Room(req[pass.items[i].id], pass.items[i])
  /\ BudgetFits
  /\ StepFits

-----------------------------------------------------------------------------
(* The sum of a sequence. *)

(* f[k] is the sum of the first k of the n numbers of s. *)
Sums(f, s, n) ==
  /\ f \in [0 .. n -> Int] /\ f[0] = 0
  /\ \A k \in 1 .. n : f[k] = f[k - 1] + s[k]

(* One more number adds itself. *)
LEMMA LongerSums ==
  ASSUME NEW s, NEW n \in Nat, NEW f, Sums(f, s, n), s[n + 1] \in Int
  PROVE  \E g : Sums(g, s, n + 1) /\ g[n + 1] = f[n] + s[n + 1]
<1> DEFINE g == [k \in 0 .. n + 1 |-> IF k = n + 1 THEN f[n] + s[n + 1] ELSE f[k]]
<1>1. /\ \A k \in 0 .. n : f[k] \in Int
      /\ f[0] = 0 /\ \A k \in 1 .. n : f[k] = f[k - 1] + s[k]
  BY DEF Sums
<1>2. \A k \in 0 .. n + 1 : k \in 0 .. n \/ k = n + 1
  OBVIOUS
<1>3. n \in 0 .. n /\ 0 \in 0 .. n + 1 /\ n + 1 \in 0 .. n + 1 /\ n + 1 # 0
  OBVIOUS
<1>4. g \in [0 .. n + 1 -> Int]
  <2>1. f[n] + s[n + 1] \in Int
    BY <1>1, <1>3
  <2> QED BY <1>1, <1>2, <2>1
<1>5. g[n + 1] = f[n] + s[n + 1] /\ \A k \in 0 .. n : g[k] = f[k]
  <2>1. \A k \in 0 .. n : k # n + 1 /\ k \in 0 .. n + 1
    OBVIOUS
  <2> QED BY <1>3, <2>1
<1> HIDE DEF g
<1>6. g[0] = 0
  <2>1. 0 \in 0 .. n
    OBVIOUS
  <2> QED BY <1>1, <1>5, <2>1
<1>7. ASSUME NEW k \in 1 .. n + 1
      PROVE  g[k] = g[k - 1] + s[k]
  <2>1. CASE k = n + 1
    <3>1. k - 1 = n
      BY <2>1
    <3> QED BY <1>3, <1>5, <2>1, <3>1
  <2>2. CASE k # n + 1
    <3>1. k \in 1 .. n /\ k \in 0 .. n /\ k - 1 \in 0 .. n
      BY <2>2
    <3> QED BY <1>1, <1>5, <3>1
  <2> QED BY <2>1, <2>2
<1>8. Sums(g, s, n + 1)
  BY <1>4, <1>6, <1>7 DEF Sums
<1> QED BY <1>5, <1>8

(* Every sequence of numbers has its sums, and the last one is its total.   *)
LEMMA SumsExist ==
  ASSUME NEW s, NEW N \in Nat, \A k \in 1 .. N : s[k] \in Int
  PROVE  \E f : Sums(f, s, N)
<1> DEFINE B == {n \in 0 .. N : ~\E f : Sums(f, s, n)}
<1>1. SUFFICES ASSUME B # {} PROVE FALSE
  <2>1. N \in 0 .. N
    OBVIOUS
  <2> QED BY <2>1
<1>2. B \in SUBSET Nat
  OBVIOUS
<1>3. PICK m : m \in B /\ \A x \in B : m <= x
  BY <1>1, <1>2, MinFact
<1>4. m # 0
  <2>1. PICK f : f = [k \in {0} |-> 0]
    OBVIOUS
  <2>2. 0 .. 0 = {0} /\ 1 .. 0 = {}
    OBVIOUS
  <2>3. Sums(f, s, 0)
    BY <2>1, <2>2 DEF Sums
  <2> QED BY <1>3, <2>3
<1>5. m \in 1 .. N /\ m - 1 \in 0 .. N /\ m - 1 \in Nat /\ ~(m <= m - 1) /\ (m - 1) + 1 = m
  BY <1>3, <1>4
<1>6. PICK f : Sums(f, s, m - 1)
  BY <1>3, <1>5
<1>7. \E g : Sums(g, s, m)
  <2>1. PICK n \in Nat : n = m - 1 /\ n + 1 = m
    BY <1>5
  <2>2. Sums(f, s, n) /\ s[n + 1] \in Int
    BY <1>5, <1>6, <2>1
  <2>3. \E g : Sums(g, s, n + 1)
    BY <2>2, LongerSums
  <2> QED BY <2>1, <2>3
<1> QED BY <1>3, <1>7

LEMMA TotalOf ==
  ASSUME NEW s, NEW N \in Nat, Len(s) = N, NEW g, Sums(g, s, N)
  PROVE  Total(s) = g[N]
<1> DEFINE R(f) == f = [k \in 0 .. Len(s) |-> IF k = 0 THEN 0 ELSE f[k - 1] + s[k]]
<1>1. R(g)
  <2>1. \A k \in 0 .. N : g[k] = IF k = 0 THEN 0 ELSE g[k - 1] + s[k]
    BY DEF Sums
  <2>2. g = [k \in 0 .. N |-> g[k]]
    BY DEF Sums
  <2> QED BY <2>1, <2>2
<1>2. PICK h : h = CHOOSE f : R(f)
  OBVIOUS
<1>3. R(h)
  BY <1>1, <1>2
<1>4. Total(s) = h[N]
  BY <1>2 DEF Total
<1>5. /\ h[0] = 0 /\ g[0] = 0
      /\ \A k \in 1 .. N : h[k] = h[k - 1] + s[k] /\ g[k] = g[k - 1] + s[k]
  <2>1. 0 \in 0 .. N /\ \A k \in 1 .. N : k \in 0 .. N /\ k # 0
    OBVIOUS
  <2> QED BY <1>3, <2>1 DEF Sums
<1> HIDE DEF R
<1>6. \A k \in 0 .. N : h[k] = g[k]
  <2> DEFINE B == {k \in 0 .. N : h[k] # g[k]}
  <2>1. SUFFICES ASSUME B # {} PROVE FALSE
    OBVIOUS
  <2>2. B \in SUBSET Nat
    OBVIOUS
  <2>3. PICK m : m \in B /\ \A x \in B : m <= x
    BY <2>1, <2>2, MinFact
  <2>4. m # 0
    BY <1>5, <2>3
  <2>5. m \in 1 .. N /\ m - 1 \in 0 .. N /\ ~(m <= m - 1)
    BY <2>3, <2>4
  <2>6. h[m - 1] = g[m - 1]
    BY <2>3, <2>5
  <2> QED BY <1>5, <2>3, <2>5, <2>6
<1>7. N \in 0 .. N
  OBVIOUS
<1> QED BY <1>4, <1>6, <1>7

(* An item more takes its tokens more. *)
LEMMA TakenMore ==
  ASSUME NEW X, NEW items \in Seq(X), NEW item, NEW more, more = Append(items, item),
         \A i \in DOMAIN items : items[i].n \in Int, item.n \in Int
  PROVE  Taken(items) \in Int /\ Taken(more) = Taken(items) + item.n
<1>1. PICK N \in Nat : N = Len(items) /\ DOMAIN items = 1 .. N
  OBVIOUS
<1>2. /\ DOMAIN more = 1 .. N + 1 /\ more[N + 1] = item /\ \A i \in 1 .. N : more[i] = items[i]
  BY <1>1
<1>3. PICK s, t : /\ s = [i \in DOMAIN items |-> items[i].n]
                  /\ t = [i \in DOMAIN more |-> more[i].n]
  OBVIOUS
<1>4. /\ s = [i \in 1 .. N |-> items[i].n] /\ t = [i \in 1 .. N + 1 |-> more[i].n]
  BY <1>1, <1>2, <1>3
<1>5. /\ Len(s) = N /\ Len(t) = N + 1
      /\ \A k \in 1 .. N : s[k] \in Int /\ t[k] = s[k]
      /\ t[N + 1] = item.n
  <2>1. \A k \in 1 .. N : k \in 1 .. N + 1
    OBVIOUS
  <2>2. N + 1 \in 1 .. N + 1
    OBVIOUS
  <2>3. Len(s) = N /\ Len(t) = N + 1
    BY <1>4
  <2> QED BY <1>1, <1>2, <1>4, <2>1, <2>2, <2>3
<1>6. PICK f : Sums(f, s, N)
  BY <1>5, SumsExist
<1>7. Sums(f, t, N)
  <2>1. f \in [0 .. N -> Int] /\ f[0] = 0 /\ \A k \in 1 .. N : f[k] = f[k - 1] + s[k]
    BY <1>6 DEF Sums
  <2>2. \A k \in 1 .. N : t[k] = s[k]
    BY <1>5
  <2>3. \A k \in 1 .. N : f[k] = f[k - 1] + t[k]
    BY <2>1, <2>2
  <2> QED BY <2>1, <2>3 DEF Sums
<1>8. PICK g : Sums(g, t, N + 1) /\ g[N + 1] = f[N] + t[N + 1]
  BY <1>5, <1>7, LongerSums
<1>9. Total(s) = f[N] /\ f[N] \in Int
  <2>1. N \in 0 .. N
    OBVIOUS
  <2>2. f[N] \in Int
    BY <1>6, <2>1 DEF Sums
  <2> QED BY <1>5, <1>6, <2>2, TotalOf
<1>10. Total(t) = g[N + 1]
  <2>1. N + 1 \in Nat
    OBVIOUS
  <2> QED BY <1>5, <1>8, <2>1, TotalOf
<1> QED BY <1>3, <1>5, <1>8, <1>9, <1>10 DEF Taken

LEMMA NothingTaken == Taken(<<>>) = 0
<1>1. PICK s : s = [i \in DOMAIN <<>> |-> <<>>[i].n]
  OBVIOUS
<1>2. s = <<>> /\ Len(s) = 0
  BY <1>1
<1>3. PICK f : f = [k \in {0} |-> 0]
  OBVIOUS
<1>4. 0 .. 0 = {0} /\ 1 .. 0 = {}
  OBVIOUS
<1>5. Sums(f, s, 0)
  BY <1>3, <1>4 DEF Sums
<1>6. Total(s) = 0
  BY <1>2, <1>3, <1>5, TotalOf
<1> QED BY <1>1, <1>6 DEF Taken

-----------------------------------------------------------------------------
(* Blocks behind positions. *)

(* The blocks for n tokens hold them. *)
LEMMA BlocksHold ==
  ASSUME NEW n \in Int
  PROVE  BlocksFor(n) \in Int /\ n <= BlocksFor(n) * BlockSize
<1>1. PICK b \in Nat \ {0} : b = BlockSize
  BY LimitsAssumption
<1>2. PICK m \in Int : m = n + b - 1
  OBVIOUS
<1>3. PICK d \in Int : d = m \div b
  BY DivFact
<1>4. m < d * b + b
  BY <1>3, DivFact DEF FloorTo
<1>5. d * b \in Int
  OBVIOUS
<1>6. n <= d * b
  BY <1>2, <1>4, <1>5
<1>7. BlocksFor(n) = d
  BY <1>1, <1>2, <1>3 DEF BlocksFor
<1> QED BY <1>1, <1>6, <1>7

(* A request that has taken what it lacked has blocks for its positions. *)
LEMMA TakenHold ==
  ASSUME NEW r \in Reqs, req[r].blocks \in Seq(1 .. NumBlocks), NEW n \in Int, NEW m \in Int,
         m <= n, m <= MaxModelLen, NEW l, l = Len(req[r].blocks) + Lacking(r, n)
  PROVE  m <= l * BlockSize
<1>1. PICK k \in Int : k = Min({n, MaxModelLen}) /\ m <= k
  <2>1. MaxModelLen \in Int
    BY LimitsAssumption
  <2> QED BY <2>1, MinOfTwo
<1>2. PICK h \in Nat : h = Len(req[r].blocks)
  OBVIOUS
<1>3. PICK b \in Int : b = BlocksFor(k) /\ k <= b * BlockSize
  BY BlocksHold
<1>4. Lacking(r, n) = Max({b - h, 0})
  BY <1>1, <1>2, <1>3 DEF Lacking
<1>5. l \in Int /\ b <= l
  <2>1. b - h \in Int
    OBVIOUS
  <2>2. PICK x \in Int : x = Max({b - h, 0}) /\ b - h <= x
    BY <2>1, MaxOfTwo
  <2> QED BY <1>2, <1>4, <2>2
<1>6. PICK c \in Nat \ {0} : c = BlockSize
  BY LimitsAssumption
<1>7. b * c <= l * c
  BY <1>5
<1>8. b * c \in Int /\ l * c \in Int
  BY <1>5
<1> QED BY <1>1, <1>3, <1>6, <1>7, <1>8

LEMMA QuotientIs ==
  ASSUME NEW n \in Int, NEW b \in Nat \ {0}, NEW d \in Int, d * b <= n, n < d * b + b
  PROVE  n \div b = d
OBVIOUS

(* The quotients of an interval are an interval. *)
Spread(s, e, b) == {p \div b + 1 : p \in s .. e}
Spreads(s, e, b) ==
  \E x \in Nat, y \in Nat : /\ x = s \div b /\ y = e \div b /\ x <= y
                            /\ Spread(s, e, b) = x + 1 .. y + 1

LEMMA QuotientsAre ==
  ASSUME NEW s \in Nat, NEW e \in Nat, s <= e, NEW b \in Nat \ {0}
  PROVE  Spreads(s, e, b)
<1>1. PICK u \in Int, v \in Int : u = s \div b /\ v = e \div b
  <2>1. s \in Int /\ e \in Int
    OBVIOUS
  <2>2. s \div b \in Int /\ e \div b \in Int
    BY <2>1, DivFact
  <2> QED BY <2>2
<1>2. /\ u * b <= s /\ s < u * b + b
      /\ v * b <= e /\ e < v * b + b
  BY <1>1, DivFact DEF FloorTo
<1>3. u >= 0 /\ v >= 0
  BY <1>1
<1>4. ASSUME NEW p \in s .. e
      PROVE  p \div b \in u .. v
  <2>1. PICK w \in Int : w = p \div b
    <3>1. p \in Int
      OBVIOUS
    <3> QED BY <3>1, DivFact
  <2>2. w * b <= p /\ p < w * b + b
    BY <2>1, DivFact DEF FloorTo
  <2>3. u <= w
    <3>1. SUFFICES ASSUME w + 1 <= u PROVE FALSE
      OBVIOUS
    <3>2. (w + 1) * b <= u * b
      BY <3>1
    <3>3. (w + 1) * b = w * b + b
      OBVIOUS
    <3>4. w * b \in Int /\ u * b \in Int /\ p \in Int /\ s <= p
      OBVIOUS
    <3> QED BY <1>2, <2>2, <3>2, <3>3, <3>4
  <2>4. w <= v
    <3>1. SUFFICES ASSUME v + 1 <= w PROVE FALSE
      OBVIOUS
    <3>2. (v + 1) * b <= w * b
      BY <3>1
    <3>3. (v + 1) * b = v * b + b
      OBVIOUS
    <3>4. w * b \in Int /\ v * b \in Int /\ p \in Int /\ p <= e
      OBVIOUS
    <3> QED BY <1>2, <2>2, <3>2, <3>3, <3>4
  <2> QED BY <2>1, <2>3, <2>4
<1>5. u <= v
  <2>1. s \in s .. e
    OBVIOUS
  <2>2. s \div b \in u .. v
    BY <1>4, <2>1
  <2> QED BY <2>2
<1>6. ASSUME NEW w \in u .. v
      PROVE  \E p \in s .. e : p \div b = w
  <2>1. CASE s <= w * b
    <3>1. w * b <= v * b /\ w * b \in Int /\ v * b \in Int
      BY <2>1
    <3>2. PICK p \in Int : p = w * b
      BY <3>1
    <3>3. p \in s .. e
      BY <1>2, <2>1, <3>1, <3>2
    <3>4. w * b <= p /\ p < w * b + b
      BY <3>2
    <3>5. p \div b = w
      BY <3>4, QuotientIs
    <3> QED BY <3>3, <3>5
  <2>2. CASE w * b < s
    <3>1. w * b < u * b + b /\ w * b \in Int /\ u * b \in Int
      BY <1>2, <2>2
    <3>2. ~(u + 1 <= w)
      <4>1. SUFFICES ASSUME u + 1 <= w PROVE FALSE
        OBVIOUS
      <4>2. (u + 1) * b <= w * b
        BY <4>1
      <4>3. (u + 1) * b = u * b + b
        OBVIOUS
      <4> QED BY <3>1, <4>2, <4>3
    <3>3. w = u
      BY <3>2
    <3>4. s \in s .. e
      OBVIOUS
    <3> QED BY <1>1, <3>3, <3>4
  <2> QED BY <2>1, <2>2
<1>7. {p \div b + 1 : p \in s .. e} = u + 1 .. v + 1
  <2>1. ASSUME NEW p \in s .. e
        PROVE  p \div b + 1 \in u + 1 .. v + 1
    <3>1. PICK w : w = p \div b /\ w \in u .. v
      BY <1>4
    <3>2. w + 1 \in u + 1 .. v + 1
      BY <3>1
    <3> QED BY <3>1, <3>2
  <2>2. ASSUME NEW x \in u + 1 .. v + 1
        PROVE  \E p \in s .. e : x = p \div b + 1
    <3>1. x - 1 \in u .. v /\ (x - 1) + 1 = x
      OBVIOUS
    <3> QED BY <1>6, <3>1
  <2> QED BY <2>1, <2>2
<1>8. Spread(s, e, b) = u + 1 .. v + 1
  BY <1>7 DEF Spread
<1>9. u \in Nat /\ v \in Nat /\ u <= v
  BY <1>3, <1>5
<1> QED BY <1>1, <1>8, <1>9 DEF Spreads

(* A step writes as many blocks as its positions are spread over. *)
LEMMA WrittenCount ==
  ASSUME NEW r \in Reqs, req[r].blocks \in Seq(1 .. NumBlocks), IsInjective(req[r].blocks),
         NEW s \in Nat, NEW n \in Nat \ {0}, s + n <= Len(req[r].blocks) * BlockSize
  PROVE  Cardinality(Written(r, s, n)) = (s + n - 1) \div BlockSize - s \div BlockSize + 1
<1>1. PICK b \in Nat \ {0} : b = BlockSize
  BY LimitsAssumption
<1>2. PICK q : q = req[r].blocks
  OBVIOUS
<1>3. PICK l \in Nat : l = Len(q) /\ DOMAIN q = 1 .. l
  BY <1>2
<1>4. PICK e \in Nat : e = s + n - 1 /\ s <= e
  OBVIOUS
<1>5. PICK u \in Nat, v \in Nat : /\ u = s \div b /\ v = e \div b /\ u <= v
                                  /\ Spread(s, e, b) = u + 1 .. v + 1
  <2>1. Spreads(s, e, b)
    BY <1>4, QuotientsAre
  <2> QED BY <2>1 DEF Spreads
<1>6. v + 1 <= l
  <2>1. v * b <= e
    BY <1>5, <1>1, DivFact DEF FloorTo
  <2>2. e < l * b /\ l * b \in Int /\ v * b \in Int
    BY <1>1, <1>2, <1>3, <1>4
  <2>3. SUFFICES ASSUME l <= v PROVE FALSE
    OBVIOUS
  <2>4. l * b <= v * b
    BY <2>3
  <2> QED BY <2>1, <2>2, <2>4
<1>7. PICK I : I = u + 1 .. v + 1 /\ I \cap DOMAIN q = I
  BY <1>3, <1>6
<1>8. Written(r, s, n) = {q[i] : i \in I}
  <2>1. PICK P : P = Spread(s, e, b)
    OBVIOUS
  <2>2. s .. s + n - 1 = s .. e
    BY <1>4
  <2>3. {p \div BlockSize + 1 : p \in s .. s + n - 1} = P
    BY <1>1, <2>1, <2>2 DEF Spread
  <2>4. P = u + 1 .. v + 1
    BY <1>5, <2>1
  <2>5. P \cap DOMAIN q = I
    BY <1>7, <2>4
  <2>6. Written(r, s, n) = {q[i] : i \in P \cap DOMAIN q}
    BY <1>2, <2>3 DEF Written
  <2> QED BY <2>5, <2>6
<1>9. PICK f : f = [i \in I |-> q[i]]
  OBVIOUS
<1>10. f \in Bijection(I, {q[i] : i \in I})
  <2>1. \A i, j \in I : q[i] = q[j] => i = j
    BY <1>2, <1>7 DEF IsInjective
  <2>2. f \in [I -> {q[i] : i \in I}]
    BY <1>9
  <2> QED BY <1>9, <2>1, <2>2 DEF Bijection, Injection, Surjection, IsInjective
<1>11. ExistsBijection(I, {q[i] : i \in I})
  BY <1>10 DEF ExistsBijection
<1>12. IsFiniteSet(I) /\ Cardinality(I) = v - u + 1
  <2>1. u + 1 \in Int /\ v + 1 \in Int /\ ~(u + 1 > v + 1)
    BY <1>5
  <2> QED BY <1>7, <2>1, FS_Interval
<1>13. Cardinality({q[i] : i \in I}) = v - u + 1
  BY <1>11, <1>12, FS_Bijection
<1>14. Cardinality(Written(r, s, n)) = v - u + 1
  BY <1>8, <1>13
<1> QED BY <1>1, <1>4, <1>5, <1>14

-----------------------------------------------------------------------------
(* What the steps that schedule nothing leave of it. *)

LEMMA SameIsShort ==
  ASSUME NEW q, NEW p, Short(q), p.tokens = q.tokens,
         q.status \in {"stream"} \cup Past => p.status \in {"stream"} \cup Past
  PROVE  Short(p)
BY DEF Short

LEMMA NoneScheduled ==
  ASSUME QueueInv, pass.pc = "idle"
  PROVE  pass.items = <<>> /\ DOMAIN pass.items = {}
<1>1. pass.items = <<>>
  BY DEF QueueInv, PassInv
<1> QED BY <1>1

(* A step that leaves the items, and the room of their requests, alone. *)
LEMMA StillFits ==
  ASSUME FitInv, flight' = flight, pass'.items = pass.items, pass'.budget = pass.budget,
         \A r \in Reqs : Short(req'[r]),
         \A i \in DOMAIN pass.items : req'[pass.items[i].id].computed = req[pass.items[i].id].computed
                                      /\ req'[pass.items[i].id].blocks = req[pass.items[i].id].blocks
  PROVE  FitInv'
<1>1. \A i \in DOMAIN pass.items : Room(req'[pass.items[i].id], pass.items[i])
  BY DEF FitInv, Room
<1>2. BudgetFits'
  BY DEF FitInv, BudgetFits, Taken
<1>3. StepFits'
  BY DEF FitInv, StepFits
<1> QED BY <1>1, <1>2, <1>3 DEF FitInv, Short, Room

LEMMA QuietFits ==
  ASSUME FitInv, flight' = flight, pass'.items = pass.items, pass'.budget = pass.budget, req' = req
  PROVE  FitInv'
<1>1. \A r \in Reqs : Short(req'[r])
  BY DEF FitInv
<1> QED BY <1>1, StillFits

(* One request changes, and it is not in the step being put together. *)
LEMMA OneFits ==
  ASSUME FitInv, flight' = flight, pass'.items = pass.items, pass'.budget = pass.budget,
         NEW r \in Reqs, \A s \in Reqs \ {r} : req'[s] = req[s], Short(req'[r]),
         \A i \in DOMAIN pass.items : pass.items[i].id \in Reqs \ {r}
  PROVE  FitInv'
<1>1. \A s \in Reqs : Short(req'[s])
  BY DEF FitInv
<1>2. \A i \in DOMAIN pass.items : req'[pass.items[i].id] = req[pass.items[i].id]
  OBVIOUS
<1> QED BY <1>1, <1>2, StillFits

(* The clients: a prompt fits, and a session goes on only when it does. *)
LEMMA ArriveFits ==
  ASSUME QueueInv, FitInv, NEW r \in Reqs, Arrive(r)
  PROVE  FitInv'
<1>1. PICK st \in {"waiting", "grammar"} : req' = [req EXCEPT ![r].status = st]
  BY DEF Arrive, AddRequest
<1>2. DOMAIN req = Reqs /\ DOMAIN req[r] = Fields /\ req[r].status = "none"
  BY DEF QueueInv, RequestInv, Arrive, AddRequest
<1>3. PICK p, q : p = req'[r] /\ q = req[r]
  OBVIOUS
<1>4. p = [q EXCEPT !.status = st] /\ \A s \in Reqs \ {r} : req'[s] = req[s]
  BY <1>1, <1>2, <1>3
<1>5. p.tokens = q.tokens
  BY <1>2, <1>3, <1>4, FieldsAre
<1>6. pass' = pass /\ pass.pc = "idle" /\ flight' = flight
  BY DEF Arrive, AddRequest, runnerVars
<1>7. Short(p)
  BY <1>2, <1>3, <1>5, SameIsShort DEF FitInv, Past
<1> QED BY <1>3, <1>4, <1>6, <1>7, NoneScheduled, OneFits

LEMMA CompileFits ==
  ASSUME QueueInv, FitInv, NEW r \in Reqs, Compile(r)
  PROVE  FitInv'
<1>1. PICK g : req' = [req EXCEPT ![r].grammar = g]
  BY DEF Compile, GrammarCompiled
<1>2. DOMAIN req = Reqs /\ DOMAIN req[r] = Fields /\ req[r].status = "grammar"
  BY DEF QueueInv, RequestInv, Compile, GrammarCompiled
<1>3. PICK p, q : p = req'[r] /\ q = req[r]
  OBVIOUS
<1>4. p = [q EXCEPT !.grammar = g] /\ \A s \in Reqs \ {r} : req'[s] = req[s]
  BY <1>1, <1>2, <1>3
<1>5. p.tokens = q.tokens /\ p.status = q.status
  BY <1>2, <1>3, <1>4, FieldsAre
<1>6. pass' = pass /\ flight' = flight
  BY DEF Compile, GrammarCompiled, runnerVars
<1>7. Short(p)
  BY <1>3, <1>5, SameIsShort DEF FitInv
<1>8. \A i \in DOMAIN pass.items : pass.items[i].id \in Reqs \ {r}
  BY <1>2, ItemsRun
<1> QED BY <1>3, <1>4, <1>6, <1>7, <1>8, OneFits

LEMMA FinishFits ==
  ASSUME QueueInv, FitInv, flight' = flight, NEW r \in Reqs, NEW send, FinishRequests(r, send)
  PROVE  FitInv'
<1>1. pass.pc = "idle" /\ pass' = pass
  BY DEF FinishRequests
<1>2. PICK gone : /\ ToSet(gone) \in SUBSET {r}
                  /\ req' = Deleted([req EXCEPT ![r].status = "finished"], ToSet(gone))
  <2>1. PICK gone : /\ gone = <<>> \/ gone = <<r>>
                    /\ req' = Deleted([req EXCEPT ![r].status = "finished"], ToSet(gone))
    BY DEF FinishRequests
  <2>2. ToSet(<<>>) = {} /\ ToSet(<<r>>) = {r}
    BY ListOfNone, ListSingle DEF Lists
  <2> QED BY <2>1, <2>2
<1>3. req'[r].status \in Past /\ \A q \in Reqs : q # r => req'[q] = req[q]
  BY <1>2, FinishedIs DEF QueueInv, RequestInv
<1>4. Short(req'[r])
  BY <1>3 DEF Short
<1> QED BY <1>1, <1>3, <1>4, NoneScheduled, OneFits

(* A session that takes its next input is short because all that go on are. *)
LEMMA NextInputFits ==
  ASSUME QueueInv, FitInv, SessionsFit', NEW r \in Reqs, NextInput(r)
  PROVE  FitInv'
<1>1. flight' = flight
  BY DEF NextInput, runnerVars
<1>2. CASE FinishRequests(r, FALSE)
  BY <1>1, <1>2, FinishFits
<1>3. CASE ~FinishRequests(r, FALSE)
  <2>1. /\ pass.pc = "idle" /\ pass' = pass /\ conf' = conf
        /\ r \in conf.sessions
        /\ \/ req[r].status = "stream" /\ req' = [req EXCEPT ![r] = AsSession(@)]
           \/ \E u : req' = [req EXCEPT ![r].updates = u]
    BY <1>3 DEF NextInput, AddUpdate, EndSession
  <2>2. DOMAIN req = Reqs /\ DOMAIN req[r] = Fields
    BY DEF QueueInv, RequestInv
  <2>3. PICK p, q : p = req'[r] /\ q = req[r]
    OBVIOUS
  <2>4. \A s \in Reqs \ {r} : req'[s] = req[s]
    BY <2>1, <2>2
  <2>5. Short(p)
    <3>1. CASE req' = [req EXCEPT ![r] = AsSession(@)]
      <4>1. p = AsSession(q)
        BY <2>2, <2>3, <3>1
      <4>2. PICK n : p = [q EXCEPT !.status = "waiting", !.tokens = n, !.prompt = n]
        BY <4>1 DEF AsSession
      <4>3. p.status = "waiting"
        BY <2>2, <2>3, <4>2, FieldsAre
      <4>4. r \in GoingOn'
        BY <2>1, <2>3, <4>3 DEF GoingOn
      <4>5. p.tokens <= MaxModelLen
        BY <2>3, <4>4 DEF SessionsFit
      <4> QED BY <4>5 DEF Short
    <3>2. ASSUME NEW u, req' = [req EXCEPT ![r].updates = u]
          PROVE  Short(p)
      <4>1. p = [q EXCEPT !.updates = u]
        BY <2>2, <2>3, <3>2
      <4>2. p.status = q.status /\ p.tokens = q.tokens
        BY <2>2, <2>3, <4>1, FieldsAre
      <4> QED BY <2>3, <4>2, SameIsShort DEF FitInv
    <3> QED BY <2>1, <3>1, <3>2
  <2> QED BY <1>1, <2>1, <2>3, <2>4, <2>5, NoneScheduled, OneFits
<1> QED BY <1>2, <1>3

LEMMA RolledIsShort ==
  ASSUME NEW q, NEW d, DOMAIN q = Fields, q.status = "running", Short(q)
  PROVE  Short(Preempted(q, d))
<1>1. PICK p : p = Preempted(q, d)
  OBVIOUS
<1>2. p.tokens = q.tokens
  BY <1>1, FieldsAre DEF Preempted
<1> QED BY <1>1, <1>2, SameIsShort DEF Past

LEMMA ResetFits ==
  ASSUME QueueInv, FitInv, Reset
  PROVE  FitInv'
<1>1. PICK R : Lists(running, R) /\ R = {q \in Reqs : req[q].status = "running"}
  BY DEF QueueInv, ListInv, Places
<1>2. /\ pass.pc = "idle" /\ pass' = pass /\ flight' = flight
      /\ req' = [r \in Reqs |-> IF r \in ToSet(running) THEN Preempted(req[r], TRUE) ELSE req[r]]
  BY DEF Reset, ResetPrefixCache, runnerVars
<1>3. ToSet(running) = R
  BY <1>1 DEF Lists
<1>4. ASSUME NEW r \in Reqs
      PROVE  Short(req'[r])
  <2>1. Short(req[r]) /\ DOMAIN req[r] = Fields
    BY DEF FitInv, QueueInv, RequestInv
  <2>2. CASE r \in R
    <3>1. req'[r] = Preempted(req[r], TRUE) /\ req[r].status = "running"
      BY <1>1, <1>2, <1>3, <2>2
    <3> QED BY <2>1, <3>1, RolledIsShort
  <2>3. CASE r \notin R
    <3>1. req'[r] = req[r]
      BY <1>2, <1>3, <2>3
    <3> QED BY <2>1, <3>1
  <2> QED BY <2>2, <2>3
<1> QED BY <1>2, <1>4, NoneScheduled, StillFits

LEMMA ScheduleFits ==
  ASSUME FitInv, Schedule
  PROVE  FitInv'
<1>1. PICK b : /\ b = (IF pause = "paused_all" THEN 0 ELSE TokenBudget)
               /\ pass' = [NoPass EXCEPT !.pc = "running", !.idx = 1, !.budget = b]
               /\ flight' = flight /\ req' = req
  BY DEF Schedule, StartSchedule, runnerVars
<1>2. pass'.items = <<>> /\ pass'.budget = b
  BY <1>1 DEF NoPass
<1>3. b \in Nat /\ b <= TokenBudget
  BY <1>1, LimitsAssumption
<1>4. BudgetFits'
  BY <1>2, <1>3, NothingTaken DEF BudgetFits
<1>5. StepFits'
  BY <1>1 DEF FitInv, StepFits
<1>6. DOMAIN pass'.items = {}
  BY <1>2
<1> QED BY <1>1, <1>4, <1>5, <1>6 DEF FitInv

LEMMA LookFits ==
  ASSUME QueueInv, FitInv, UNCHANGED <<runnerVars, left>>,
         \/ PassOverRunning \/ RunningDone \/ StopAdmitting \/ SkipWaiting
         \/ \E n \in 1 .. MaxModelLen : RefuseLoad(n)
  PROVE  FitInv'
<1>1. flight' = flight /\ req' = req
  BY DEF PassOverRunning, RunningDone, StopAdmitting, SkipWaiting, RefuseLoad, runnerVars
<1>2. pass'.items = pass.items /\ pass'.budget = pass.budget
  <2>1. DOMAIN pass = DOMAIN NoPass
    BY DEF QueueInv, PassInv
  <2>2. CASE PassOverRunning
    <3>1. pass' = [pass EXCEPT !.idx = @ + 1]
      BY <2>2 DEF PassOverRunning
    <3> QED BY <2>1, <3>1, FieldsAre
  <2>3. CASE RunningDone \/ StopAdmitting \/ \E n \in 1 .. MaxModelLen : RefuseLoad(n)
    <3>1. PICK pc : pass' = [pass EXCEPT !.pc = pc]
      BY <2>3 DEF RunningDone, StopAdmitting, RefuseLoad
    <3> QED BY <2>1, <3>1, FieldsAre
  <2>4. CASE SkipWaiting
    <3>1. pass' = [pass EXCEPT !.step = Append(@, Candidate)]
      BY <2>4 DEF SkipWaiting
    <3> QED BY <2>1, <3>1, FieldsAre
  <2> QED BY <2>2, <2>3, <2>4
<1> QED BY <1>1, <1>2, QuietFits

LEMMA PromoteFits ==
  ASSUME QueueInv, BlockInv, FitInv, Promote, UNCHANGED <<runnerVars, left>>
  PROVE  FitInv'
<1>1. PICK r, lost, full, st :
        /\ r = Candidate
        /\ req' = [req EXCEPT ![r].status = st, ![r].computed = IF full THEN @ - 1 ELSE @,
                              ![r].blocks = IF lost THEN <<>> ELSE @]
        /\ pass' = pass /\ flight' = flight
  BY DEF Promote, runnerVars
<1>2. /\ r \in Reqs /\ DOMAIN req = Reqs /\ DOMAIN req[r] = Fields
      /\ req[r].status \notin {"running"} \cup Over \cup Past
  BY <1>1, CandidateStands DEF Promote
<1>3. PICK p, q : p = req'[r] /\ q = req[r]
  OBVIOUS
<1>4. /\ p = [q EXCEPT !.status = st, !.computed = IF full THEN @ - 1 ELSE @,
                       !.blocks = IF lost THEN <<>> ELSE @]
      /\ \A s \in Reqs \ {r} : req'[s] = req[s]
  BY <1>1, <1>2, <1>3
<1>5. p.tokens = q.tokens
  BY <1>2, <1>3, <1>4, FieldsAre
<1>6. q.status # "stream"
  <2>1. Promotable(r)
    BY <1>1 DEF Promote
  <2> QED BY <1>3, <2>1 DEF Promotable
<1>7. Short(p)
  BY <1>2, <1>3, <1>5, <1>6, SameIsShort DEF FitInv
<1>8. \A i \in DOMAIN pass.items : pass.items[i].id \in Reqs \ {r}
  BY <1>2, ItemsRun
<1> QED BY <1>1, <1>2, <1>3, <1>4, <1>7, <1>8, OneFits

LEMMA StartLoadFits ==
  ASSUME QueueInv, BlockInv, FitInv, NEW n \in Nat, StartLoad(n), UNCHANGED <<runnerVars, left>>
  PROVE  FitInv'
<1>1. PICK r : r = Candidate
  OBVIOUS
<1>2. /\ req' = [req EXCEPT ![r].status = "remote", ![r].computed = n,
                            ![r].blocks = @ \o Allocated(r, n)]
      /\ pass' = [pass EXCEPT !.step = Append(@, r), !.loads = @ \cup {r}]
      /\ InWaitingPass /\ flight' = flight /\ req[r].status \notin Blocked
  BY <1>1 DEF StartLoad, MayLoad, Admissible, runnerVars
<1>3. /\ r \in Reqs /\ DOMAIN req = Reqs /\ DOMAIN req[r] = Fields
      /\ req[r].status \notin {"running"} \cup Over \cup Past
  BY <1>1, <1>2, CandidateStands
<1>4. PICK p, q, w : p = req'[r] /\ q = req[r] /\ w = Allocated(r, n)
  OBVIOUS
<1>5. /\ p = [q EXCEPT !.status = "remote", !.computed = n, !.blocks = @ \o w]
      /\ \A s \in Reqs \ {r} : req'[s] = req[s]
  BY <1>2, <1>3, <1>4
<1>6. p.tokens = q.tokens
  BY <1>3, <1>4, <1>5, FieldsAre
<1>7. Short(p)
  BY <1>2, <1>3, <1>4, <1>6, SameIsShort DEF FitInv, Blocked
<1>8. pass'.items = pass.items /\ pass'.budget = pass.budget
  BY <1>2, FieldsAre DEF QueueInv, PassInv
<1>9. \A i \in DOMAIN pass.items : pass.items[i].id \in Reqs \ {r}
  BY <1>3, ItemsRun
<1> QED BY <1>2, <1>3, <1>4, <1>5, <1>7, <1>8, <1>9, OneFits

-----------------------------------------------------------------------------
(* What the steps that put a step together leave of it. *)

(* The running requests the pass has yet to look at are not in the step.    *)
LEMMA NotYet ==
  ASSUME QueueInv, pass.pc = "running", NEW m \in Nat, pass.idx <= m, m <= Len(running),
         NEW r, r = running[m]
  PROVE  /\ r \in Reqs /\ req[r].status = "running"
         /\ \A i \in DOMAIN pass.items : pass.items[i].id \in Reqs \ {r}
<1>1. PICK R : Lists(running, R) /\ R = {q \in Reqs : req[q].status = "running"}
  BY DEF QueueInv, ListInv, Places
<1>2. PICK n, j : n = Len(running) /\ j = pass.idx
  OBVIOUS
<1>3. n \in Nat /\ j \in Nat \ {0} /\ j <= m /\ m <= n
  BY <1>1, <1>2 DEF QueueInv, PassInv, Lists
<1>4. /\ \A i, k \in 1 .. n : running[i] = running[k] => i = k
      /\ R = {running[k] : k \in 1 .. n}
  BY <1>1, <1>2, ListIs
<1>5. m \in 1 .. n
  BY <1>3
<1>6. r \in R
  BY <1>4, <1>5
<1>7. \A k \in 1 .. j - 1 : k \in 1 .. n /\ k # m
  BY <1>3
<1>8. \A k \in 1 .. j - 1 : running[k] \in R /\ running[k] # r
  BY <1>4, <1>5, <1>7
<1>9. \A i \in DOMAIN pass.items : \E k \in 1 .. j - 1 : running[k] = pass.items[i].id
  BY <1>2 DEF QueueInv, PassInv
<1> QED BY <1>1, <1>6, <1>8, <1>9

(* A preemption takes the room of a request that is not in the step. *)
LEMMA PreemptLastFits ==
  ASSUME QueueInv, FitInv, PreemptLast, UNCHANGED <<runnerVars, left>>
  PROVE  FitInv'
<1>1. PICK v, d, pc :
        /\ v = Last(running) /\ req' = [req EXCEPT ![v] = Preempted(@, d)]
        /\ pass' = [pass EXCEPT !.preempted = TRUE, !.pc = pc]
        /\ pass.pc = "running" /\ pass.idx <= Len(running) /\ flight' = flight
  <2>1. PICK v, r : /\ v = Last(running) /\ r = running[pass.idx]
                    /\ req' = [req EXCEPT ![v] = Preempted(@, conf.delivery)]
                    /\ pass' = [pass EXCEPT !.preempted = TRUE, !.pc = IF v = r THEN "emit" ELSE @]
                    /\ pass.pc = "running" /\ pass.idx <= Len(running) /\ flight' = flight
    BY DEF PreemptLast, InRunningPass, runnerVars
  <2>2. PICK pc : pc = (IF v = r THEN "emit" ELSE pass.pc)
    OBVIOUS
  <2>3. DOMAIN pass = DOMAIN NoPass
    BY DEF QueueInv, PassInv
  <2>4. pass' = [pass EXCEPT !.preempted = TRUE, !.pc = pc]
    BY <2>1, <2>2
  <2> QED BY ZenonT(30), <2>1, <2>4
<1>2. PICK n : n = Len(running)
  OBVIOUS
<1>3. n \in Nat \ {0} /\ v = running[n]
  <2>1. PICK R : Lists(running, R)
    BY DEF QueueInv, ListInv
  <2>2. n \in Nat
    BY <1>2, <2>1 DEF Lists
  <2>3. pass.idx \in Nat \ {0} /\ pass.idx <= n
    BY <1>1, <1>2 DEF QueueInv, PassInv
  <2> QED BY <1>1, <1>2, <2>2, <2>3 DEF Last
<1>4. /\ v \in Reqs /\ req[v].status = "running"
      /\ \A i \in DOMAIN pass.items : pass.items[i].id \in Reqs \ {v}
  BY <1>1, <1>2, <1>3, NotYet
<1>5. DOMAIN req = Reqs /\ DOMAIN req[v] = Fields /\ DOMAIN pass = DOMAIN NoPass
  BY <1>4 DEF QueueInv, RequestInv, PassInv
<1>6. req'[v] = Preempted(req[v], d) /\ \A q \in Reqs \ {v} : req'[q] = req[q]
  BY <1>1, <1>4, <1>5
<1>7. pass'.items = pass.items /\ pass'.budget = pass.budget
  BY <1>1, <1>5, FieldsAre
<1>8. Short(req'[v])
  BY <1>4, <1>5, <1>6, RolledIsShort DEF FitInv
<1> QED BY <1>1, <1>4, <1>6, <1>7, <1>8, OneFits

(* A request joins the step, with a block behind each of its n positions.   *)
Joins(r, n, upto, item) ==
  /\ upto = req[r].computed + n + NumSpec
  /\ n <= pass.budget /\ req[r].computed + n <= MaxModelLen
  /\ item.id = r /\ item.n = n
  /\ pass'.items = Append(pass.items, item) /\ pass'.budget = pass.budget - n
  /\ req'[r].computed = req[r].computed
  /\ req'[r].blocks = req[r].blocks \o Allocated(r, upto)
  /\ Short(req'[r]) /\ flight' = flight

LEMMA JoinFits ==
  ASSUME QueueInv, BlockInv, FitInv, NEW r \in Reqs, NEW n \in Nat, NEW upto, NEW item,
         Joins(r, n, upto, item), Fits(r, upto, 0),
         \A s \in Reqs \ {r} : req'[s] = req[s],
         \A i \in DOMAIN pass.items : pass.items[i].id \in Reqs \ {r}
  PROVE  FitInv'
<1>1. PICK p, q, w : p = req'[r] /\ q = req[r] /\ w = Allocated(r, upto)
  OBVIOUS
<1>2. /\ upto = q.computed + n + NumSpec
      /\ n <= pass.budget /\ q.computed + n <= MaxModelLen
      /\ item.id = r /\ item.n = n
      /\ pass'.items = Append(pass.items, item) /\ pass'.budget = pass.budget - n
      /\ p.computed = q.computed /\ p.blocks = q.blocks \o w
      /\ Short(p) /\ flight' = flight
  BY <1>1 DEF Joins
<1>3. Numbers(q) /\ ItemInv /\ PoolInv
  BY <1>1 DEF BlockInv, NumInv
<1>4. PICK c \in Int : c = q.computed
  BY <1>3 DEF Numbers
<1>5. upto \in Int /\ c + n \in Int /\ c + n <= upto /\ q.blocks \in Seq(1 .. NumBlocks)
  <2>1. PICK s \in Nat : s = NumSpec
    BY LimitsAssumption
  <2>2. upto = c + n + s
    BY <1>2, <1>4, <2>1
  <2>3. q.blocks \in Seq(1 .. NumBlocks)
    BY <1>3 DEF Numbers
  <2> QED BY <2>2, <2>3
<1>6. PICK k \in Nat : k = Lacking(r, upto)
  <2>1. upto \in Int /\ req[r].blocks \in Seq(1 .. NumBlocks)
    BY <1>1, <1>5
  <2> QED BY <2>1, LackingIs
<1>7. k <= Cardinality(pool.free)
  <2>1. PICK f \in Nat : f = Cardinality(pool.free)
    BY <1>3, FreeIsFinite
  <2>2. k <= f - 0
    BY <1>6, <2>1 DEF Fits
  <2> QED BY <2>1, <2>2
<1>8. w \in Seq(1 .. NumBlocks) /\ Len(w) = k
  BY <1>1, <1>3, <1>6, <1>7, AllocatedIs
<1>9. Len(p.blocks) = Len(q.blocks) + k
  <2>1. PICK s, x : s = p.blocks /\ x = q.blocks
    OBVIOUS
  <2>2. x \in Seq(1 .. NumBlocks) /\ s = x \o w
    BY <1>2, <1>5, <2>1
  <2>3. s \in Seq(1 .. NumBlocks) /\ Len(x) \in Nat /\ DOMAIN s = 1 .. Len(x) + Len(w)
    BY <1>8, <2>2, ConcatIs
  <2>4. Len(s) = Len(x) + Len(w)
    <3>1. Len(s) \in Nat /\ DOMAIN s = 1 .. Len(s) /\ Len(x) + Len(w) \in Nat
      BY <1>8, <2>3
    <3>2. PICK m \in Nat, l \in Nat : m = Len(s) /\ l = Len(x) + Len(w)
      BY <3>1
    <3>3. 1 .. m = 1 .. l
      BY <2>3, <3>1, <3>2
    <3>4. (m = 0 \/ m \in 1 .. m) /\ (l = 0 \/ l \in 1 .. l)
      BY <3>2
    <3>5. (m = 0 \/ m \in 1 .. l) /\ (l = 0 \/ l \in 1 .. m)
      BY <3>3, <3>4
    <3>6. m <= l /\ l <= m
      BY <3>5
    <3> QED BY <3>2, <3>6
  <2> QED BY <1>8, <2>1, <2>4
<1>10. c + n <= Len(p.blocks) * BlockSize
  <2>1. PICK m : m = c + n
    OBVIOUS
  <2>2. Len(p.blocks) = Len(req[r].blocks) + Lacking(r, upto)
    BY <1>1, <1>6, <1>9
  <2>3. m \in Int /\ m <= upto /\ m <= MaxModelLen /\ req[r].blocks \in Seq(1 .. NumBlocks)
    BY <1>1, <1>2, <1>4, <1>5, <2>1
  <2>4. m <= Len(p.blocks) * BlockSize
    BY <1>5, <2>2, <2>3, TakenHold
  <2> QED BY <2>1, <2>4
<1>11. Room(p, item)
  BY <1>2, <1>4, <1>10 DEF Room
<1>12. PICK X : pass.items \in Seq(X)
  BY DEF QueueInv, PassInv
<1>13. PICK l \in Nat :
         /\ l = Len(pass.items) /\ DOMAIN pass.items = 1 .. l /\ DOMAIN pass'.items = 1 .. l + 1
         /\ pass'.items[l + 1] = item /\ \A i \in 1 .. l : pass'.items[i] = pass.items[i]
  BY <1>2, <1>12
<1>14. ASSUME NEW i \in DOMAIN pass'.items
       PROVE  Room(req'[pass'.items[i].id], pass'.items[i])
  <2>1. CASE i = l + 1
    BY <1>1, <1>2, <1>11, <1>13, <2>1
  <2>2. CASE i \in 1 .. l
    <3>1. pass'.items[i] = pass.items[i] /\ req'[pass.items[i].id] = req[pass.items[i].id]
          /\ i \in DOMAIN pass.items
      BY <1>13, <2>2
    <3> QED BY <3>1 DEF FitInv
  <2> QED BY <1>13, <2>1, <2>2
<1>15. BudgetFits'
  <2>1. \A i \in DOMAIN pass.items : pass.items[i].n \in Int
    BY <1>3 DEF ItemInv
  <2>2. Taken(pass.items) \in Int /\ Taken(pass'.items) = Taken(pass.items) + n
    <3>1. PICK items, more : items = pass.items /\ more = pass'.items
      OBVIOUS
    <3>2. items \in Seq(X) /\ more = Append(items, item) /\ \A i \in DOMAIN items : items[i].n \in Int
      BY <1>2, <1>12, <2>1, <3>1
    <3>3. item.n \in Int
      BY <1>2
    <3>4. Taken(items) \in Int /\ Taken(more) = Taken(items) + item.n
      BY <3>2, <3>3, TakenMore
    <3> QED BY <1>2, <3>1, <3>4
  <2>3. PICK t \in Int, b \in Int : t = Taken(pass.items) /\ b = pass.budget
    BY <1>3, <2>2 DEF ItemInv
  <2>4. t + b <= TokenBudget /\ TokenBudget \in Nat /\ n <= b
    BY <1>2, <2>3, LimitsAssumption DEF FitInv, BudgetFits
  <2>5. Taken(pass'.items) = t + n /\ pass'.budget = b - n
    BY <1>2, <2>2, <2>3
  <2>6. b - n >= 0 /\ t + n + (b - n) <= TokenBudget
    BY <2>3, <2>4
  <2> QED BY <2>5, <2>6 DEF BudgetFits
<1>16. StepFits'
  BY <1>2 DEF FitInv, StepFits
<1>17. \A s \in Reqs : Short(req'[s])
  BY <1>1, <1>2 DEF FitInv
<1> QED BY <1>14, <1>15, <1>16, <1>17 DEF FitInv, Short, Room

(* The two ways into a step both join with room. *)
LEMMA ScheduleRunningFits ==
  ASSUME QueueInv, BlockInv, FitInv, ScheduleRunning, UNCHANGED <<runnerVars, left>>
  PROVE  FitInv'
<1>1. PICK r, n, upto, w, item :
        r = running[pass.idx] /\ n = RunningTokens(r) /\ upto = req[r].computed + n + NumSpec
        /\ w = Allocated(r, upto) /\ item = Scheduled(r, n, DraftsAmong(req[r], n), FALSE)
  OBVIOUS
<1>2. /\ n > 0 /\ pass.pc = "running" /\ pass.idx <= Len(running) /\ Fits(r, upto, 0)
      /\ req' = [req EXCEPT ![r].blocks = @ \o w, ![r].specs = 0]
      /\ pass' = [pass EXCEPT !.idx = @ + 1, !.budget = @ - n,
                     !.prefill = @ \/ req[r].chunk, !.items = Append(@, item)]
      /\ flight' = flight
  BY <1>1 DEF ScheduleRunning, InRunningPass, runnerVars
<1>3. /\ r \in Reqs /\ req[r].status = "running"
      /\ \A i \in DOMAIN pass.items : pass.items[i].id \in Reqs \ {r}
  <2>1. PICK m : m = pass.idx
    OBVIOUS
  <2>2. m \in Nat /\ pass.idx <= m /\ m <= Len(running)
    BY <1>2, <2>1 DEF QueueInv, PassInv
  <2> QED BY <1>1, <1>2, <2>1, <2>2, NotYet
<1>4. DOMAIN req = Reqs /\ DOMAIN req[r] = Fields /\ DOMAIN pass = DOMAIN NoPass
  BY <1>3 DEF QueueInv, RequestInv, PassInv
<1>5. PICK p, q : p = req'[r] /\ q = req[r]
  OBVIOUS
<1>6. p = [q EXCEPT !.blocks = @ \o w, !.specs = 0] /\ \A s \in Reqs \ {r} : req'[s] = req[s]
  BY <1>2, <1>3, <1>4, <1>5
<1>7. /\ p.computed = q.computed /\ p.tokens = q.tokens /\ p.status = q.status
      /\ p.blocks = q.blocks \o w
  BY <1>4, <1>5, <1>6, FieldsAre
<1>8. Short(p)
  BY <1>3, <1>5, <1>7, SameIsShort DEF FitInv
<1>9. pass'.items = Append(pass.items, item) /\ pass'.budget = pass.budget - n
  BY <1>2, <1>4, FieldsAre
<1>10. item.id = r /\ item.n = n
  BY <1>1 DEF Scheduled
<1>11. n \in Nat /\ n <= pass.budget /\ q.computed + n <= MaxModelLen
  <2>1. Numbers(q) /\ pass.budget \in Int
    BY <1>3, <1>5 DEF BlockInv, NumInv, ItemInv
  <2>2. n \in Nat /\ (n = 0 \/ (n <= pass.budget /\ n <= MaxModelLen - q.computed - 1))
    BY <1>1, <1>3, <1>5, <2>1, RunningTokensIs
  <2>3. q.computed \in Int /\ MaxModelLen \in Int
    BY <2>1, LimitsAssumption DEF Numbers
  <2> QED BY <1>2, <2>2, <2>3
<1>12. upto = q.computed + n + NumSpec
  BY <1>1, <1>5
<1>13. w = Allocated(r, upto) /\ Fits(r, upto, 0) /\ flight' = flight
  BY <1>1, <1>2
<1>14. Joins(r, n, upto, item)
  BY <1>5, <1>7, <1>8, <1>9, <1>10, <1>11, <1>12, <1>13 DEF Joins
<1> QED BY <1>3, <1>6, <1>11, <1>13, <1>14, JoinFits

LEMMA AdmitFits ==
  ASSUME QueueInv, BlockInv, FitInv, Admit, UNCHANGED <<runnerVars, left>>
  PROVE  FitInv'
<1>1. PICK r, a, n, upto, item :
        r = Candidate /\ a = Admission(r) /\ n = a.n /\ upto = req[r].computed + n + NumSpec
        /\ item = Scheduled(r, n, a.specs, TRUE)
  OBVIOUS
<1>2. /\ req' = [req EXCEPT ![r].status = "running", ![r].blocks = @ \o Allocated(r, upto)]
      /\ pass' = [pass EXCEPT !.budget = @ - n, !.items = Append(@, item)]
      /\ n > 0 /\ (Padded(r) => PaddingFits(r)) /\ Fits(r, upto, 0)
      /\ InWaitingPass /\ req[r].status \notin Blocked /\ flight' = flight
  BY <1>1 DEF Admit, Admissible, Admitted, runnerVars
<1>3. /\ r \in Reqs /\ Numbers(req[r]) /\ DOMAIN req = Reqs /\ DOMAIN req[r] = Fields
      /\ req[r].status \notin {"running"} \cup Over \cup Past /\ pass.budget \in Int
  BY <1>1, <1>2, CandidateStands
<1>4. PICK p, q, w : p = req'[r] /\ q = req[r] /\ w = Allocated(r, upto)
  OBVIOUS
<1>5. /\ p = [q EXCEPT !.status = "running", !.blocks = @ \o w]
      /\ \A s \in Reqs \ {r} : req'[s] = req[s]
  BY <1>2, <1>3, <1>4
<1>6. p.computed = q.computed /\ p.tokens = q.tokens /\ p.blocks = q.blocks \o w
  BY <1>3, <1>4, <1>5, FieldsAre
<1>7. q.tokens <= MaxModelLen
  BY <1>2, <1>3, <1>4 DEF FitInv, Short, Blocked
<1>8. Short(p)
  BY <1>6, <1>7 DEF Short
<1>9. pass'.items = Append(pass.items, item) /\ pass'.budget = pass.budget - n
  BY <1>2, FieldsAre DEF QueueInv, PassInv
<1>10. item.id = r /\ item.n = n
  BY <1>1 DEF Scheduled
<1>11. n \in Nat /\ n <= pass.budget /\ q.computed + n <= MaxModelLen
  <2>1. q.computed \in Int /\ q.tokens \in Int /\ MaxModelLen \in Int /\ NumSpec \in Nat
    BY <1>3, <1>4, LimitsAssumption DEF Numbers
  <2>2. /\ n \in Nat
        /\ Padded(r) => n <= 1 + NumSpec
        /\ ~Padded(r) => n = 0 \/ (n <= q.tokens - q.computed /\ n <= pass.budget)
    BY <1>1, <1>3, <1>4, AdmissionIs
  <2>3. CASE Padded(r)
    <3>1. 1 + NumSpec <= pass.budget /\ q.computed + 1 + NumSpec <= MaxModelLen
      BY <1>2, <1>4, <2>3 DEF PaddingFits
    <3> QED BY <1>3, <2>1, <2>2, <2>3, <3>1
  <2>4. CASE ~Padded(r)
    BY <1>2, <1>7, <2>1, <2>2, <2>4
  <2> QED BY <2>3, <2>4
<1>12. \A i \in DOMAIN pass.items : pass.items[i].id \in Reqs \ {r}
  BY <1>3, ItemsRun
<1>13. upto = q.computed + n + NumSpec
  BY <1>1, <1>4
<1>14. r \in Reqs /\ Fits(r, upto, 0) /\ flight' = flight
  BY <1>2, <1>3
<1>15. Joins(r, n, upto, item)
  BY <1>4, <1>6, <1>8, <1>9, <1>10, <1>11, <1>13, <1>14 DEF Joins
<1> QED BY <1>5, <1>11, <1>12, <1>14, <1>15, JoinFits

-----------------------------------------------------------------------------
(* The step that goes out. *)

(* The runner writes from a position the scheduler counts as computed. *)
LEMMA WritesBehind ==
  ASSUME QueueInv, BlockInv, HoldInv, RunInv, pass.pc = "emit", NEW out, Emitted(out),
         NEW seq, Sent(out, seq), NEW i \in DOMAIN pass.items, NEW r, r = pass.items[i].id
  PROVE  \E s : Made(out.results[i], pass.items[i], s) /\ s.computed \in Nat
                /\ s.computed <= req[r].computed
<1>1. PICK q, item : q = req[r] /\ item = pass.items[i]
  OBVIOUS
<1>2. r \in Reqs /\ q.status = "running" /\ Numbers(q)
  <2>1. r \in Reqs
    BY DEF Sent
  <2> QED BY <1>1, <2>1, NumbersAre DEF QueueInv, Sent
<1>3. PICK n \in {0, 1} : /\ n = Len(flight)
                          /\ \A k : k > n => Brought(k, r) = Nothing
  <2>1. PICK n : n = Len(flight)
    OBVIOUS
  <2> QED BY <2>1, EmitBrings
<1>4. PICK b : b = Brought(1, r)
  OBVIOUS
<1>5. Result3(b) /\ (b.n = 0 => b = Nothing) /\ Brought(2, r) = Nothing
  <2>1. 2 > n
    OBVIOUS
  <2>2. Brought(2, r) = Nothing
    BY <1>3, <2>1
  <2> QED BY <1>4, <2>2, ResultsAre
<1>6. RunsRight(Async, q, slots[r], NewIn(r), b, Nothing) /\ SignsRight(Async, Solo, q)
  BY <1>1, <1>2, <1>4, <1>5 DEF RunInv, RunFor, Past
<1>7. item.n \in Nat \ {0} /\ Fitting(q, item)
  BY <1>1 DEF BlockInv, NumInv, ItemInv, RunInv, ItemsFit
<1>8. PICK s : Ready(r, s) /\ Made(out.results[i], item, s)
  BY <1>1, <1>2, ReadyIs DEF RunInv
<1>9. PICK f : f = Valid(q, b)
  OBVIOUS
<1>10. Agrees(Async, q, s, f, Nothing) /\ SlotIs(s, f, Nothing) /\ Result3(f)
  BY <1>1, <1>2, <1>4, <1>5, <1>6, <1>7, <1>8, <1>9, ReadyFits
<1>11. s.computed \in Nat /\ s.computed <= q.computed
  <2>1. s.computed \in Nat /\ q.computed = s.computed + Rejected(f) + Rejected(Nothing)
    BY <1>10 DEF SlotIs, Agrees
  <2>2. PICK k \in Nat : k = Rejected(f)
    BY <1>10, RejectedIs
  <2>3. q.computed = s.computed + k
    BY <2>1, <2>2, NothingIs
  <2> QED BY <2>1, <2>3
<1> QED BY <1>1, <1>8, <1>11

(* What StepFits asks of a result. *)
Fitted(x) ==
  /\ x.n >= x.specs + 1
  /\ x.start + x.n <= MaxModelLen
  /\ Cardinality(x.writes) = (x.start + x.n - 1) \div BlockSize - x.start \div BlockSize + 1

(* So each result fits that room. *)
LEMMA FittedOne ==
  ASSUME QueueInv, BlockInv, HoldInv, RunInv, FitInv, pass.pc = "emit", NEW out, Emitted(out),
         NEW seq, Sent(out, seq), NEW i \in DOMAIN pass.items
  PROVE  Fitted(out.results[i])
<1>1. PICK x, item, r, q : x = out.results[i] /\ item = pass.items[i] /\ r = item.id /\ q = req[r]
  OBVIOUS
<1>2. PICK s : Made(x, item, s) /\ s.computed \in Nat /\ s.computed <= q.computed
  BY <1>1, WritesBehind
<1>3. PICK c \in Nat : c = s.computed
  BY <1>2
<1>4. PICK n \in Nat \ {0}, m \in Nat : n = item.n /\ m = item.specs /\ Fitting(q, item)
  BY <1>1 DEF BlockInv, NumInv, ItemInv, RunInv, ItemsFit
<1>5. r \in Reqs /\ Numbers(q)
  <2>1. r \in Reqs
    BY <1>1 DEF Sent
  <2> QED BY <1>1, <2>1, NumbersAre DEF QueueInv
<1>6. x.n = n /\ x.specs = m /\ x.start = c /\ x.writes = Written(r, c, n)
  BY <1>1, <1>2, <1>3, <1>4 DEF Made
<1>7. PICK d \in Int, l \in Int :
        /\ d = q.computed /\ l = Len(q.blocks) * BlockSize /\ c <= d
        /\ d + n <= MaxModelLen /\ d + n <= l /\ MaxModelLen \in Int
  <2>1. Room(q, item)
    BY <1>1 DEF FitInv
  <2>2. q.computed \in Int /\ Len(q.blocks) \in Nat
    BY <1>5 DEF Numbers
  <2>3. PICK b \in Nat, k \in Nat : b = BlockSize /\ k = Len(q.blocks)
    BY <2>2, LimitsAssumption
  <2>4. k * b \in Int /\ MaxModelLen \in Int
    BY LimitsAssumption
  <2>5. Len(q.blocks) * BlockSize \in Int
    BY <2>3, <2>4
  <2> QED BY <1>2, <1>3, <1>4, <2>1, <2>2, <2>4, <2>5 DEF Room
<1>8. c + n <= MaxModelLen /\ c + n <= Len(q.blocks) * BlockSize
  <2>1. c + n <= MaxModelLen /\ c + n <= l
    BY <1>7
  <2> QED BY <1>7, <2>1
<1>9. n >= m + 1
  BY <1>4 DEF Fitting
<1>10. Cardinality(Written(r, c, n)) = (c + n - 1) \div BlockSize - c \div BlockSize + 1
  <2>1. req[r].blocks \in Seq(1 .. NumBlocks) /\ IsInjective(req[r].blocks)
    <3>1. IsInjective(Blocks(req)[r])
      BY <1>5 DEF BlockInv, Apart
    <3>2. Blocks(req)[r] = req[r].blocks
      BY <1>5 DEF Blocks
    <3> QED BY <1>1, <1>5, <3>1, <3>2 DEF Numbers
  <2>2. c + n <= Len(req[r].blocks) * BlockSize
    BY <1>1, <1>8
  <2> QED BY <1>5, <2>1, <2>2, WrittenCount
<1> QED BY <1>1, <1>6, <1>8, <1>9, <1>10 DEF Fitted

LEMMA TakenIs ==
  ASSUME NEW X, NEW items \in Seq(X), \A i \in DOMAIN items : items[i].n \in Int
  PROVE  Taken(items) \in Int
<1>1. PICK item : item = [n |-> 0]
  OBVIOUS
<1>2. PICK more : more = Append(items, item)
  OBVIOUS
<1>3. item.n \in Int
  BY <1>1
<1> QED BY <1>2, <1>3, TakenMore

(* StepFits, result by result. *)
LEMMA StepFitsIs == StepFits <=> \A k \in DOMAIN flight :
                       /\ Total([j \in DOMAIN flight[k].results |-> flight[k].results[j].n]) <= TokenBudget
                       /\ \A j \in DOMAIN flight[k].results : Fitted(flight[k].results[j])
BY DEF StepFits, Fitted

LEMMA EmitFits ==
  ASSUME QueueInv, BlockInv, HoldInv, RunInv, FitInv, Emit
  PROVE  FitInv'
<1>1. pass.pc = "emit"
  BY DEF Emit, FinishSchedule
<1>2. PICK out : Emitted(out)
  BY EmittedIs
<1>3. PICK seq : Sent(out, seq)
  BY <1>2, SentIs
<1>4. PICK n : /\ DOMAIN flight' = 1 .. n + 1 /\ n \in {0, 1} /\ DOMAIN flight = 1 .. n
               /\ flight'[n + 1] = out /\ \A k \in 1 .. n : flight'[k] = flight[k]
  BY <1>1, <1>2, LongerFlight DEF BlockInv, Emitted
<1>5. DOMAIN out.results = DOMAIN pass.items /\ \A i \in DOMAIN pass.items : Fitted(out.results[i])
  BY <1>1, <1>2, <1>3, FittedOne DEF Sent
<1>6. Total([j \in DOMAIN out.results |-> out.results[j].n]) <= TokenBudget
  <2>1. PICK a, b : /\ a = [j \in DOMAIN out.results |-> out.results[j].n]
                    /\ b = [j \in DOMAIN pass.items |-> pass.items[j].n]
    OBVIOUS
  <2>2. a = b
    BY <1>3, <2>1 DEF Sent
  <2>3. PICK t \in Int : t = Taken(pass.items)
    <3>1. PICK X : pass.items \in Seq(X)
      BY DEF QueueInv, PassInv
    <3>2. \A i \in DOMAIN pass.items : pass.items[i].n \in Int
      BY DEF BlockInv, NumInv, ItemInv
    <3> QED BY <3>1, <3>2, TakenIs
  <2>4. t = Total(a)
    BY <2>1, <2>2, <2>3 DEF Taken
  <2>5. PICK g \in Int : g = pass.budget /\ g >= 0 /\ t + g <= TokenBudget /\ TokenBudget \in Int
    BY <2>3, LimitsAssumption DEF FitInv, BudgetFits, BlockInv, NumInv, ItemInv
  <2>6. t <= TokenBudget
    BY <2>5
  <2> QED BY <2>1, <2>4, <2>6
<1>7. ASSUME NEW k \in DOMAIN flight'
      PROVE  /\ Total([j \in DOMAIN flight'[k].results |-> flight'[k].results[j].n]) <= TokenBudget
             /\ \A j \in DOMAIN flight'[k].results : Fitted(flight'[k].results[j])
  <2>1. CASE k = n + 1
    BY <1>4, <1>5, <1>6, <2>1
  <2>2. CASE k \in 1 .. n
    <3>1. k \in DOMAIN flight /\ flight'[k] = flight[k]
      BY <1>4, <2>2
    <3> QED BY <3>1, StepFitsIs DEF FitInv
  <2> QED BY <1>4, <2>1, <2>2
<1>8. StepFits'
  BY <1>7 DEF StepFits, Fitted
<1>9. ASSUME NEW r \in Reqs
      PROVE  Short(req'[r])
  <2>1. Short(req[r])
    BY DEF FitInv
  <2>2. CASE \A i \in DOMAIN pass.items : pass.items[i].id # r
    BY <1>3, <2>1, <2>2 DEF Sent
  <2>3. CASE \E i \in DOMAIN pass.items : pass.items[i].id = r
    <3>1. PICK i \in DOMAIN pass.items : pass.items[i].id = r
      BY <2>3
    <3>2. req'[r].status = req[r].status
      BY <1>3, <3>1 DEF Sent, Grows
    <3>3. req'[r].tokens = req[r].tokens
      <4>1. PICK of : of = Items(pass.items)
        OBVIOUS
      <4>2. r \in DOMAIN of /\ of[r] = pass.items[i]
        <5>1. /\ DOMAIN of = {pass.items[j].id : j \in DOMAIN pass.items}
              /\ \A j \in DOMAIN pass.items : of[pass.items[j].id] = pass.items[j]
          BY <4>1, ItemsAre DEF QueueInv, PassInv
        <5> QED BY <3>1, <5>1
      <4>3. PICK seq2 : req' = [x \in Reqs |-> IF x \in DOMAIN of THEN AfterSchedule(req[x], of[x], seq2)
                                                      ELSE req[x]]
        BY <4>1 DEF Emit, FinishSchedule
      <4>4. PICK p, q, item : p = req'[r] /\ q = req[r] /\ item = pass.items[i]
        OBVIOUS
      <4>5. p = AfterSchedule(q, item, seq2)
        BY <4>2, <4>3, <4>4
      <4>6. DOMAIN q = Fields /\ Numbers(q) /\ item.n \in Int /\ item.specs \in Int
        BY <4>4, NumbersAre DEF QueueInv, BlockInv, NumInv, ItemInv
      <4> QED BY <4>4, <4>5, <4>6, ScheduledNumbersAre
    <3> QED BY <2>1, <3>2, <3>3, SameIsShort
  <2> QED BY <2>2, <2>3
<1>10. pass' = NoPass
  BY <1>3 DEF Sent
<1>11. \A i \in DOMAIN pass'.items : FALSE
  <2>1. pass'.items = <<>>
    BY <1>10 DEF NoPass
  <2> QED BY <2>1
<1>12. BudgetFits'
  <2>1. pass'.items = <<>> /\ pass'.budget = 0
    BY <1>10 DEF NoPass
  <2>2. Taken(pass'.items) = 0
    BY <2>1, NothingTaken
  <2> QED BY <2>1, <2>2, LimitsAssumption DEF BudgetFits
<1> QED BY <1>8, <1>9, <1>11, <1>12 DEF FitInv, Short, Room

-----------------------------------------------------------------------------
(* The output of a step, and the theorem. *)

(* A request the output does not stop has room for another token. *)
LEMMA DeliveredIsShort ==
  ASSUME NEW q, DOMAIN q = Fields, Numbers(q), Short(q), NEW x, Result3(x), StopsAt(q, x) = {},
         NEW a, a = Delivered(q, x)
  PROVE  Short(a)
<1>1. a.status = q.status /\ a.tokens = q.tokens + x.gen
  <2>1. Kept(q, x) = x.gen
    BY DEF Kept
  <2> QED BY <2>1, DeliveredNumbersAre
<1>2. PICK g \in Nat, t \in Int, m \in Int : g = x.gen /\ t = q.tokens /\ m = MaxModelLen
  BY LimitsAssumption DEF Result3, Numbers
<1>3. CASE g = 0
  BY <1>1, <1>2, <1>3 DEF Short
<1>4. CASE g # 0
  <2>1. g \in 1 .. x.gen /\ g \notin StopsAt(q, x)
    BY <1>2, <1>4
  <2>2. ~(t + g >= m)
    BY <1>2, <2>1 DEF StopsAt
  <2>3. t + g <= m
    BY <2>2
  <2> QED BY <1>1, <1>2, <2>3 DEF Short
<1> QED BY <1>3, <1>4

(* One that it stops ends, or takes its next input. *)
LEMMA StoppedWaits ==
  ASSUME NEW r, NEW q, DOMAIN q = Fields, NEW a, a = Stopped(r, q)
  PROVE  a.status \in {"stream"} \cup Past \/ (a.status = "waiting" /\ r \in conf.sessions)
BY StoppedIs DEF Past

(* A request that may go on after its output still fits the model. *)
LEMMA TurnedShort ==
  ASSUME QueueInv, NEW r \in Reqs, NEW q, Short(q), NEW recv, NEW g, Loaded(g, q, recv),
         NEW x, Result3(x), NEW a, a = g \/ a = Drained(g, x.n) \/ a = AfterOutput(r, g, x),
         NEW S, NEW p, p = req'[r], Settles(r, p, a, S), conf' = conf, SessionsFit'
  PROVE  Short(p)
<1>1. SUFFICES ASSUME p.status \notin {"stream"} \cup Past
               PROVE  p.tokens <= MaxModelLen
  BY DEF Short
<1>2. p.status = a.status /\ p.tokens = a.tokens
  BY <1>1 DEF Settles
<1>3. DOMAIN g = Fields /\ Numbers(g) /\ g.status = q.status /\ g.tokens = q.tokens
  BY DEF Loaded
<1>4. Short(g)
  BY <1>3 DEF Short
<1>5. CASE a = g \/ a = Drained(g, x.n)
  <2>1. a.status = g.status /\ a.tokens = g.tokens
    BY <1>3, <1>5, DrainedNumbersAre
  <2> QED BY <1>1, <1>2, <1>4, <2>1 DEF Short
<1>6. CASE a = AfterOutput(r, g, x) /\ ~(a = g \/ a = Drained(g, x.n))
  <2>1. CASE StopsAt(g, x) = {}
    <3>1. a = Delivered(g, x)
      BY <1>6, <2>1 DEF AfterOutput
    <3>2. Short(a)
      BY <1>3, <1>4, <2>1, <3>1, DeliveredIsShort
    <3> QED BY <1>1, <1>2, <3>2 DEF Short
  <2>2. CASE StopsAt(g, x) # {}
    <3>1. PICK d : d = Delivered(g, x)
      OBVIOUS
    <3>2. a = Stopped(r, d) /\ DOMAIN d = Fields
      BY <1>3, <1>6, <2>2, <3>1, DeliveredNumbersAre DEF AfterOutput
    <3>3. a.status = "waiting" /\ r \in conf.sessions
      BY <1>1, <1>2, <3>2, StoppedWaits
    <3>4. r \in GoingOn'
      BY <1>2, <3>3 DEF GoingOn
    <3> QED BY <3>4 DEF SessionsFit
  <2> QED BY <2>1, <2>2
<1> QED BY <1>5, <1>6

LEMMA ProcessFits ==
  ASSUME QueueInv, FullInv, Alone, FitInv, SessionsFit', IsFiniteSet(Reqs), Process
  PROVE  FitInv'
<1>1. PICK out, n, send, M, X, d, l : Processed(out, n, send, M, X, d, l)
  BY ProcessIs
<1>2. Shifted(out, n)
  BY <1>1 DEF Processed
<1>3. 1 \in DOMAIN flight /\ out = flight[1]
  BY <1>2 DEF Shifted
<1>4. Applies(out.results, out.recv, out.sent)
  BY <1>3, OutputApplies
<1>5. PICK to : UpdateFromOutput(out.results, out.recv, out.sent, to)
  <2>1. out = Head(flight)
    BY <1>3 DEF Process
  <2> QED BY <2>1 DEF Process
<1>6. pass' = pass /\ conf' = conf /\ pass.items = <<>>
  BY <1>5 DEF UpdateFromOutput, Process, QueueInv, PassInv
<1>7. BlockInv /\ \A r \in Reqs : Numbers(req[r])
  BY DEF FullInv, BlockInv, NumInv
<1>8. ASSUME NEW r \in Reqs
      PROVE  Short(req'[r])
  <2>1. PICK of, p, q, x : /\ of = Items(out.results) /\ p = req'[r] /\ q = req[r]
                           /\ x = Brought(1, r)
    OBVIOUS
  <2>2. PICK g, a :
           /\ Loaded(g, q, out.recv)
           /\ r \notin DOMAIN of => a = g
           /\ r \in DOMAIN of => \/ a = Drained(g, of[r].n) /\ q.status = "remote"
                                 \/ a = AfterOutput(r, g, of[r])
           /\ Settles(r, p, a, DOMAIN of)
    BY <1>4, <1>5, <1>7, <2>1, UpdatedIs
  <2>3. r \in DOMAIN of => x = of[r]
    BY <1>3, <2>1 DEF Brought
  <2>4. Result3(x)
    BY <1>7, <2>1, ResultsAre
  <2>5. a = g \/ a = Drained(g, x.n) \/ a = AfterOutput(r, g, x)
    BY <2>2, <2>3
  <2>6. Short(q)
    BY <2>1 DEF FitInv
  <2> QED BY <1>6, <2>1, <2>2, <2>4, <2>5, <2>6, TurnedShort
<1>9. StepFits'
  <2>1. \A k \in DOMAIN flight' : 2 \in DOMAIN flight /\ flight'[k] = flight[2]
    <3>1. /\ n \in {1, 2} /\ DOMAIN flight = 1 .. n /\ DOMAIN flight' = 1 .. n - 1
          /\ n = 2 => flight'[1] = flight[2]
      BY <1>2 DEF Shifted
    <3>2. \A k \in 1 .. n - 1 : n = 2 /\ k = 1
      BY <3>1
    <3> QED BY <3>1, <3>2
  <2> QED BY <2>1 DEF FitInv, StepFits
<1>10. BudgetFits'
  BY <1>6 DEF FitInv, BudgetFits, Taken
<1>11. \A i \in DOMAIN pass'.items : FALSE
  BY <1>6
<1> QED BY <1>8, <1>9, <1>10, <1>11 DEF FitInv, Short, Room

LEMMA InitFits == EngineInit => FitInv
<1> SUFFICES ASSUME EngineInit PROVE FitInv
  OBVIOUS
<1>1. req = [r \in Reqs |-> NewRequest(r)] /\ flight = <<>> /\ pass = NoPass
  BY DEF EngineInit, Init
<1>2. pass.items = <<>> /\ pass.budget = 0 /\ DOMAIN flight = {}
  BY <1>1 DEF NoPass
<1>3. \A r \in Reqs : Short(req[r])
  <2>1. \A r \in Reqs : req[r].tokens = Prompt[r] /\ Prompt[r] <= MaxModelLen
    BY <1>1, LimitsAssumption DEF NewRequest
  <2> QED BY <2>1 DEF Short
<1>4. BudgetFits
  BY <1>2, NothingTaken, LimitsAssumption DEF BudgetFits
<1>5. StepFits
  BY <1>2 DEF StepFits
<1> QED BY <1>2, <1>3, <1>4, <1>5 DEF FitInv

LEMMA FitsKept ==
  QueueInv /\ SlotInv /\ FullInv /\ RunInv /\ FitInv /\ SessionsFit' /\ [Next]_vars => FitInv'
<1> SUFFICES ASSUME QueueInv, SlotInv, FullInv, RunInv, FitInv, SessionsFit', [Next]_vars
             PROVE  FitInv'
  OBVIOUS
<1>1. IsFiniteSet(Reqs) /\ Alone /\ HoldInv /\ BlockInv
  BY ReqsAssumption DEF SlotInv, FullInv
<1>2. CASE Schedule
  BY <1>2, ScheduleFits
<1>3. CASE Pass
  <2>1. UNCHANGED <<runnerVars, left>> /\ SchedulePass
    BY <1>3 DEF Pass
  <2>2. CASE ScheduleRunning
    BY <1>1, <2>1, <2>2, ScheduleRunningFits
  <2>3. CASE PreemptLast
    BY <2>1, <2>3, PreemptLastFits
  <2>4. CASE Promote
    BY <1>1, <2>1, <2>4, PromoteFits
  <2>5. CASE Admit
    BY <1>1, <2>1, <2>5, AdmitFits
  <2>6. CASE \/ PassOverRunning \/ RunningDone \/ StopAdmitting \/ SkipWaiting
             \/ \E n \in 1 .. MaxModelLen : RefuseLoad(n)
    BY <2>1, <2>6, LookFits
  <2>7. CASE \E n \in 1 .. MaxModelLen : StartLoad(n)
    <3>1. PICK n \in 1 .. MaxModelLen : StartLoad(n)
      BY <2>7
    <3>2. n \in Nat
      BY LimitsAssumption
    <3> QED BY <1>1, <2>1, <3>1, <3>2, StartLoadFits
  <2> QED BY <2>1, <2>2, <2>3, <2>4, <2>5, <2>6, <2>7 DEF SchedulePass
<1>4. CASE Emit
  BY <1>1, <1>4, EmitFits
<1>5. CASE Process
  BY <1>1, <1>5, ProcessFits
<1>6. CASE Environment
  <2>1. CASE Reset
    BY <1>1, <2>1, ResetFits
  <2>2. CASE Pause \/ Resume \/ \E r \in Reqs : LoadDone(r) \/ StoreDone(r)
    <3>1. flight' = flight /\ req' = req /\ pass' = pass
      BY <2>2 DEF Pause, Resume, SetPauseState, LoadDone, StoreDone, runnerVars, schedVars
    <3> QED BY <3>1, QuietFits
  <2>3. CASE \E r \in Reqs : Arrive(r)
    BY <2>3, ArriveFits
  <2>4. CASE \E r \in Reqs : Compile(r)
    BY <2>4, CompileFits
  <2>5. CASE \E r \in Reqs : NextInput(r)
    BY <2>5, NextInputFits
  <2>6. CASE \E r \in Reqs : \E send \in BOOLEAN : Abort(r, send)
    <3>1. PICK r \in Reqs, send \in BOOLEAN : FinishRequests(r, send) /\ flight' = flight
      BY <2>6 DEF Abort
    <3> QED BY <3>1, FinishFits
  <2> QED BY <1>6, <2>1, <2>2, <2>3, <2>4, <2>5, <2>6 DEF Environment
<1>7. CASE UNCHANGED vars
  <2>1. flight' = flight /\ req' = req /\ pass' = pass
    BY <1>7 DEF vars, schedVars, runnerVars
  <2> QED BY <2>1, QuietFits
<1> QED BY <1>2, <1>3, <1>4, <1>5, <1>6, <1>7 DEF Next, Loop

(* No step asks more of the runner than it has room for, as long as no      *)
(* session's next input takes it beyond max_model_len, which nothing in     *)
(* _update_request_as_session sees to: a step keeps within the token        *)
(* budget, each request has a row for its drafts and one more, and writes   *)
(* a block of its own at every position, none beyond max_model_len.         *)
THEOREM StepFitsCorrect ==
  ASSUME SessionsAlone
  PROVE  Spec /\ []SessionsFit => []StepFits
<1>1. EngineInit => QueueInv /\ SlotInv /\ FullInv /\ RunInv /\ FitInv
  BY InitQueues, InitSlots, InitFull, InitRun, InitFits
<1>2. QueueInv /\ SlotInv /\ FullInv /\ RunInv /\ [Next]_vars
        => (QueueInv /\ SlotInv /\ FullInv /\ RunInv)'
  BY AgreesKept
<1>3. QueueInv /\ SlotInv /\ FullInv /\ RunInv /\ FitInv /\ SessionsFit' /\ [Next]_vars => FitInv'
  BY FitsKept
<1>4. FitInv => StepFits
  BY DEF FitInv
<1> QED BY <1>1, <1>2, <1>3, <1>4, PTL DEF Spec

(* Requests that take no further input keep to it by themselves: their      *)
(* prompts fit, and check_stop ends them before they outgrow the model.     *)
THEOREM StepFitsWithoutSessions ==
  ASSUME SessionsAlone, \A c \in Confs : c.sessions = {}
  PROVE  Spec => []StepFits
<1>1. EngineInit => QueueInv /\ SlotInv /\ FullInv /\ RunInv
  BY InitQueues, InitSlots, InitFull, InitRun
<1>2. QueueInv /\ SlotInv /\ FullInv /\ RunInv /\ [Next]_vars
        => (QueueInv /\ SlotInv /\ FullInv /\ RunInv)'
  BY AgreesKept
<1>3. QueueInv /\ SlotInv /\ FullInv /\ RunInv => SessionsFit
  <2>1. FullInv => conf \in Confs
    BY DEF FullInv, BlockInv, ShareInv
  <2>2. conf \in Confs => GoingOn = {}
    BY DEF GoingOn
  <2> QED BY <2>1, <2>2 DEF SessionsFit
<1>4. Spec => []SessionsFit
  BY <1>1, <1>2, <1>3, PTL DEF Spec
<1> QED BY <1>4, StepFitsCorrect, PTL

=============================================================================
