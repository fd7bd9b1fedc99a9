------------------------------ MODULE Scheduler ------------------------------
(***************************************************************************)
(* The scheduler of the engine core (v1/core/sched/scheduler.py, policy    *)
(* fcfs): which requests run in the next step, for how many tokens and on  *)
(* which KV blocks, and what the output of a step does to them.            *)
(*                                                                         *)
(* schedule() is one call, modelled in small steps (pass.pc): the pass     *)
(* over the running requests, the pass over the waiting ones, the emission *)
(* of the step.  Everything else is one action and happens between calls.  *)
(* A token is not represented, only how many there are; a KV block is a    *)
(* number.  Left out: LoRA, the encoder and its connector, priorities,     *)
(* pipeline parallelism, prefix-cache hits, logging and statistics.        *)
(***************************************************************************)
EXTENDS Sequences, SequencesExt, PrefillSplit

CONSTANTS
    Reqs,          \* the requests
    Prompt,        \* [Reqs -> Nat]: the tokens of the prompt
    Structured,    \* the requests that wait for a compiled grammar
    MaxTokens,     \* sampling_params.max_tokens
    UpdateTokens,  \* the tokens of one update of a session
    MaxModelLen,   \* max_model_len
    NumSpec,       \* num_speculative_tokens
    DynamicSpec,   \* dynamic_sd_lookup is set: no padding of new decodes
    TokenBudget,   \* max_num_batched_tokens
    BlockSize,     \* tokens of a KV block
    NumBlocks,     \* blocks of the KV cache
    Align,         \* mamba_cache_mode is "align"
    Confs          \* the settings a run covers, chosen when it starts

ASSUME ReqsAssumption == IsFiniteSet(Reqs)

ASSUME LimitsAssumption ==
    /\ Prompt \in [Reqs -> 1..MaxModelLen]
    /\ MaxTokens \in Nat \ {0} /\ UpdateTokens \in Nat /\ MaxModelLen \in Nat
    /\ NumSpec \in Nat /\ TokenBudget \in Nat
    /\ BlockSize \in Nat \ {0} /\ NumBlocks \in Nat

ASSUME ConfsAssumption ==
    Confs \subseteq [concurrent : 1..2, seqs : Nat \ {0}, connector : BOOLEAN,
                    recompute : BOOLEAN, delivery : BOOLEAN, sessions : SUBSET Reqs]

VARIABLES
    conf,              \* the chosen settings (see TypeOK)
    req,               \* the Request objects
    waiting, skipped, running,
    finishedIds,       \* finished_req_ids
    preemptedIds,      \* reset_preempted_req_ids
    numStreaming,      \* num_waiting_for_streaming_input
    finishedRecv,      \* finished_recving_kv_req_ids
    failedRecv,        \* failed_recving_kv_req_ids
    grammarErrors,     \* grammar_compile_error_reqs
    inflightPrefills,  \* _inflight_prefills
    pool,              \* the free blocks, deferred_frees and how far
                       \* sched_step_seq is ahead of processed_step_seq
    pause,             \* _pause_state
    pass               \* the call of schedule() under way

queues == <<waiting, skipped, running>>
ids == <<finishedIds, preemptedIds, numStreaming, grammarErrors>>
kv == <<finishedRecv, failedRecv, inflightPrefills>>
schedVars == <<conf, req, queues, ids, kv, pool, pause, pass>>

-----------------------------------------------------------------------------
(* Requests *)

(* "none": not added yet; "gone": deleted from self.requests; "finished":  *)
(* finished, its blocks kept until a KV transfer ends.                     *)
Statuses == {"none", "waiting", "grammar", "remote", "stream", "running",
             "preempted", "finished", "gone"}

Blocked == {"grammar", "remote", "stream"}
Over == {"none", "finished", "gone"}

Known(rq) == {r \in Reqs : rq[r].status \notin {"none", "gone"}}

NewRequest(r) ==
    [status |-> "none", prompt |-> Prompt[r], tokens |-> Prompt[r],
     computed |-> 0, inFlight |-> 0, stale |-> 0, drop |-> FALSE,
     placeholders |-> 0, specs |-> 0, chunk |-> FALSE, preempted |-> FALSE,
     lastSeq |-> 0, blocks |-> <<>>, grammar |-> "none", updates |-> <<>>]

(* The members of q that are in S, and those that are not, in order. *)
Within(q, S) ==
    LET at == {i \in DOMAIN q : q[i] \in S}
    IN  [k \in 1..Cardinality(at) |->
            q[CHOOSE i \in at : Cardinality({j \in at : j < i}) = k - 1]]
Without(q, S) == Within(q, ToSet(q) \ S)
Prepend(r, q) == <<r>> \o q

Async == conf.concurrent > 1
DeferBlockFree == conf.connector /\ Async

(* What the split reads of the configuration and of a request. *)
SplitConf ==
    [block |-> BlockSize, hash |-> BlockSize, partial |-> FALSE,
     eagle |-> NumSpec > 0, maxTokens |-> TokenBudget, long |-> 0,
     lookahead |-> IF NumSpec > 0 THEN 1 ELSE 0]
SplitReq(r) == [prompt |-> req[r].prompt, tokens |-> req[r].tokens, shared |-> 0]

Clipped(r, start, n) ==
    IF Align THEN MambaBlockAlignedSplit(SplitConf, SplitReq(r), start, n) ELSE n
Reserved(r, start, n) == ReserveLookahead(SplitConf, SplitReq(r), start, n)

-----------------------------------------------------------------------------
(* KV blocks: the KV cache manager as the scheduler uses it. *)

BlocksFor(n) == (n + BlockSize - 1) \div BlockSize

(* The blocks a request lacks to hold n tokens. *)
Lacking(r, n) == Max({BlocksFor(Min({n, MaxModelLen})) - Len(req[r].blocks), 0})

(* allocate_slots refuses what would leave fewer than the reserved blocks. *)
Fits(r, n, reserved) == Lacking(r, n) <= Cardinality(pool.free) - reserved

(* The lowest free blocks stand for whichever the pool hands out. *)
Allocated(r, n) ==
    [i \in 1..Lacking(r, n) |->
        CHOOSE b \in pool.free : Cardinality({x \in pool.free : x < b}) = i - 1]

(* mutant: the blocks go back to the pool at once *)
Fenced_Never(q) == FALSE

(* A step that may still write the blocks is in flight.  Step numbers are  *)
(* counted from processed_step_seq, so it is the last one of the request.  *)
Fenced(q) == DeferBlockFree /\ q.lastSeq > 0

(* _free_request_blocks for the requests of the sequence rs, in order. *)
FreeRequestBlocks(p, rq, rs) ==
    LET fenced == {r \in ToSet(rs) : Fenced(rq[r])}
        now == Without(rs, fenced)
        later == Within(rs, {r \in fenced : rq[r].blocks # <<>>})
        Entry(r) == [fence |-> p.ahead, blocks |-> ToSet(rq[r].blocks)]
    IN  [p EXCEPT !.free = @ \cup UNION {ToSet(rq[r].blocks) : r \in ToSet(now)},
                  !.deferred = @ \o [i \in DOMAIN later |-> Entry(later[i])]]

(* mutant: the entries that must wait are forgotten *)
DrainDeferredFrees_Forgets(p) ==
    LET ready == {i \in DOMAIN p.deferred : p.deferred[i].fence = 1}
    IN  [free |-> p.free \cup UNION {p.deferred[i].blocks : i \in ready},
         deferred |-> <<>>, ahead |-> p.ahead - 1]

(* One more step is processed: all numbers are counted from it.  Then      *)
(* _drain_deferred_frees stops at the first entry whose step is pending.   *)
DrainDeferredFrees(p) ==
    LET left == [i \in DOMAIN p.deferred |->
                    [p.deferred[i] EXCEPT !.fence = @ - 1]]
        pending == {i \in DOMAIN left : left[i].fence > 0}
        first == IF pending = {} THEN Len(left) + 1 ELSE Min(pending)
    IN  [free |-> p.free \cup UNION {left[i].blocks : i \in 1..(first - 1)},
         deferred |-> SubSeq(left, first, Len(left)),
         ahead |-> p.ahead - 1]

(* _inflight_prefill_reserved_blocks *)
ReservedBlocks ==
    Cardinality(UNION {{r} \X (1..Lacking(r, req[r].tokens)) : r \in inflightPrefills})

-----------------------------------------------------------------------------
(* schedule(): the pass over the running requests *)

NoPass == [pc |-> "idle", idx |-> 0, budget |-> 0, items |-> <<>>, step |-> <<>>,
           loads |-> {}, preempted |-> FALSE, prefill |-> FALSE]

Init ==
    /\ conf \in Confs
    /\ req = [r \in Reqs |-> NewRequest(r)]
    /\ waiting = <<>> /\ skipped = <<>> /\ running = <<>>
    /\ finishedIds = {} /\ preemptedIds = {} /\ numStreaming = 0
    /\ grammarErrors = {} /\ finishedRecv = {} /\ failedRecv = {}
    /\ inflightPrefills = {}
    /\ pool = [free |-> 1..NumBlocks, deferred |-> <<>>, ahead |-> 0]
    /\ pause = "unpaused"
    /\ pass = NoPass

StartSchedule ==
    /\ pass.pc = "idle"
    /\ pass' = [NoPass EXCEPT !.pc = "running", !.idx = 1,
                !.budget = IF pause = "paused_all" THEN 0 ELSE TokenBudget]
    /\ UNCHANGED <<conf, req, queues, ids, kv, pool, pause>>

Scheduled(r, n, specs, new) ==
    [id |-> r, n |-> n, specs |-> specs, new |-> new, base |-> req[r].computed]

InRunningPass ==
    /\ pass.pc = "running"
    /\ pass.idx <= Len(running)
    /\ pass.budget > 0

(* Async: the step in flight is sure to reach max_tokens. *)
WillReachMax(q) ==
    /\ q.placeholders > 0
    /\ q.computed + 2 - q.placeholders >= q.prompt + MaxTokens

(* mutant: the drafts and placeholders may run past max_model_len *)
RunningTokens_NoMaxLen(r) ==
    LET q == req[r]
        asked == Min({q.tokens + q.specs + q.placeholders - q.computed, pass.budget})
    IN  IF WillReachMax(q) THEN 0
        ELSE Reserved(r, q.computed, Clipped(r, q.computed, asked))

(* The tokens a running request gets; 0 passes it over. *)
RunningTokens(r) ==
    LET q == req[r]
        asked == Min({q.tokens + q.specs + q.placeholders - q.computed,
                      pass.budget, MaxModelLen - q.computed - 1})
    IN  IF WillReachMax(q) THEN 0
        ELSE Reserved(r, q.computed, Clipped(r, q.computed, asked))

PassOverRunning ==
    /\ InRunningPass
    /\ RunningTokens(running[pass.idx]) = 0
    /\ pass' = [pass EXCEPT !.idx = @ + 1]
    /\ UNCHANGED <<conf, req, queues, ids, kv, pool, pause>>

(* The drafts among the n tokens: those beyond the known ones. *)
DraftsAmong(q, n) ==
    IF q.specs = 0 THEN 0
    ELSE Max({Min({q.specs, n + q.computed - q.tokens - q.placeholders}), 0})

ScheduleRunning ==
    /\ InRunningPass
    /\ LET r == running[pass.idx]
           q == req[r]
           n == RunningTokens(r)
           upto == q.computed + n + NumSpec
       IN  /\ n > 0
           /\ Fits(r, upto, 0)
           /\ pool' = [pool EXCEPT !.free = @ \ ToSet(Allocated(r, upto))]
           /\ req' = [req EXCEPT ![r].blocks = @ \o Allocated(r, upto),
                                 ![r].specs = 0]
           /\ pass' = [pass EXCEPT !.idx = @ + 1, !.budget = @ - n,
                          !.prefill = @ \/ q.chunk,
                          !.items = Append(@, Scheduled(r, n, DraftsAmong(q, n), FALSE))]
    /\ UNCHANGED <<conf, queues, ids, kv, pause>>

(* mutant: the share in flight is not marked stale *)
Preempted_NotStale(q, drop) ==
    [q EXCEPT !.status = "preempted", !.computed = 0, !.specs = 0,
              !.drop = drop, !.placeholders = 0, !.preempted = TRUE, !.blocks = <<>>]

(* _preempt_request: what it sets in the request.  A drop-mode share that  *)
(* is still in flight stays dropped.                                       *)
Preempted(q, drop) ==
    [q EXCEPT !.status = "preempted", !.computed = 0, !.specs = 0,
              !.drop = drop \/ (@ /\ q.stale > 0), !.stale = q.inFlight,
              !.placeholders = 0, !.preempted = TRUE, !.blocks = <<>>]

(* No block for the request at hand: the last running one gives its own.   *)
(* If that is the request itself, the pass ends.                           *)
PreemptLast ==
    /\ InRunningPass
    /\ LET r == running[pass.idx]
           n == RunningTokens(r)
           v == Last(running)
       IN  /\ n > 0
           /\ ~Fits(r, req[r].computed + n + NumSpec, 0)
           /\ pool' = FreeRequestBlocks(pool, req, <<v>>)
           /\ req' = [req EXCEPT ![v] = Preempted(@, conf.delivery)]
           /\ running' = Front(running)
           /\ waiting' = Prepend(v, waiting)
           /\ inflightPrefills' = inflightPrefills \ {v}
           /\ preemptedIds' = preemptedIds \cup {v}
           /\ pass' = [pass EXCEPT !.preempted = TRUE,
                          !.pc = IF v = r THEN "emit" ELSE @]
    /\ UNCHANGED <<conf, skipped, finishedIds, numStreaming, grammarErrors,
                   finishedRecv, failedRecv, pause>>

(* The waiting requests get a pass unless one was preempted. *)
RunningDone ==
    /\ pass.pc = "running"
    /\ pass.idx > Len(running) \/ pass.budget = 0
    /\ pass' = [pass EXCEPT !.pc = IF ~pass.preempted /\ pause = "unpaused"
                                     THEN "waiting" ELSE "emit"]
    /\ UNCHANGED <<conf, req, queues, ids, kv, pool, pause>>

-----------------------------------------------------------------------------
(* schedule(): the pass over the waiting requests *)

(* mutant: the slots of paused sessions are not counted *)
InWaitingPass_RunningOnly ==
    /\ pass.pc = "waiting"
    /\ pass.budget > 0
    /\ skipped \o waiting # <<>>
    /\ Len(running) < conf.seqs

InWaitingPass ==
    /\ pass.pc = "waiting"
    /\ pass.budget > 0
    /\ skipped \o waiting # <<>>
    /\ Len(running) + numStreaming < conf.seqs

(* The skipped requests come first. *)
Candidate == Head(skipped \o waiting)

(* The queues without the candidate. *)
PopCandidate ==
    IF skipped # <<>> THEN skipped' = Tail(skipped) /\ UNCHANGED waiting
                      ELSE waiting' = Tail(waiting) /\ UNCHANGED skipped

(* _try_promote_blocked_waiting_request would succeed *)
Promotable(r) ==
    \/ req[r].status = "remote" /\ r \in finishedRecv
    \/ req[r].status = "grammar" /\ req[r].grammar = "ready"

(* Blocked, or its deliverable output is still in flight: resuming now     *)
(* could sample a position that the output will deliver.                   *)
MustWait(r) ==
    \/ req[r].status \in Blocked /\ ~Promotable(r)
    \/ req[r].status \notin Blocked /\ req[r].stale > 0 /\ ~req[r].drop

SkipWaiting ==
    /\ InWaitingPass
    /\ MustWait(Candidate)
    /\ PopCandidate
    /\ pass' = [pass EXCEPT !.step = Append(@, Candidate)]
    /\ grammarErrors' =
           IF req[Candidate].status = "grammar" /\ req[Candidate].grammar = "failed"
             THEN grammarErrors \cup {Candidate} ELSE grammarErrors
    /\ UNCHANGED <<conf, req, running, finishedIds, preemptedIds, numStreaming,
                   kv, pool, pause>>

(* _update_waiting_for_remote_kv and the new status.  A failed load keeps  *)
(* its valid tokens, or gives its blocks back when there is none; after a  *)
(* full hit the last token is computed again.                              *)
Promote ==
    /\ InWaitingPass
    /\ Promotable(Candidate)
    /\ LET r == Candidate
           q == req[r]
           lost == r \in failedRecv /\ q.computed = 0
           full == r \notin failedRecv /\ q.status = "remote" /\ q.computed = q.tokens
       IN  /\ req' = [req EXCEPT ![r].status =
                           IF q.status = "remote" /\ q.preempted THEN "preempted" ELSE "waiting",
                         ![r].computed = IF full THEN @ - 1 ELSE @,
                         ![r].blocks = IF lost THEN <<>> ELSE @]
           /\ pool' = IF lost THEN [pool EXCEPT !.free = @ \cup ToSet(q.blocks)] ELSE pool
           /\ finishedRecv' = finishedRecv \ {r}
           /\ failedRecv' = failedRecv \ {r}
    /\ UNCHANGED <<conf, queues, ids, inflightPrefills, pause, pass>>

Admissible ==
    /\ InWaitingPass
    /\ req[Candidate].status \notin Blocked
    /\ ~MustWait(Candidate)

(* The connector has n tokens of the candidate to load in the background.  *)
MayLoad(n) ==
    /\ Admissible
    /\ conf.connector
    /\ req[Candidate].computed = 0
    /\ n \in {k * BlockSize : k \in 1..BlocksFor(req[Candidate].tokens)}
    /\ n <= req[Candidate].tokens

(* A load is admitted only if it fits in what the in-flight prefills leave. *)
LoadReservation == ReservedBlocks

StartLoad(n) ==
    /\ MayLoad(n)
    /\ Fits(Candidate, n, LoadReservation)
    /\ LET r == Candidate IN
           /\ req' = [req EXCEPT ![r].status = "remote", ![r].computed = n,
                                 ![r].blocks = @ \o Allocated(r, n)]
           /\ pool' = [pool EXCEPT !.free = @ \ ToSet(Allocated(r, n))]
           /\ inflightPrefills' = inflightPrefills \cup {r}
           /\ pass' = [pass EXCEPT !.step = Append(@, r), !.loads = @ \cup {r}]
    /\ PopCandidate
    /\ UNCHANGED <<conf, running, ids, finishedRecv, failedRecv, pause>>

RefuseLoad(n) ==
    /\ MayLoad(n)
    /\ ~Fits(Candidate, n, LoadReservation)
    /\ pass' = [pass EXCEPT !.pc = "emit"]
    /\ UNCHANGED <<conf, req, queues, ids, kv, pool, pause>>

(* A decode that joins a pure decode step is padded to its uniform size. *)
Padded(r) ==
    /\ NumSpec > 0 /\ ~DynamicSpec
    /\ req[r].tokens - req[r].computed = 1
    /\ pass.items # <<>> /\ ~Head(pass.items).new /\ ~pass.prefill

(* The padding fits in the step and in the longest sequence. *)
PaddingFits(r) ==
    1 + NumSpec <= pass.budget /\ req[r].computed + 1 + NumSpec <= MaxModelLen

(* The tokens and the placeholder drafts a waiting request would run with. *)
Admission(r) ==
    LET start == req[r].computed
        asked == IF Padded(r) THEN 1 + NumSpec
                 ELSE Min({req[r].tokens - start, pass.budget})
        clipped == Clipped(r, start, asked)
        unpadded == Padded(r) /\ clipped # asked
    IN  [n |-> Reserved(r, start, IF unpadded THEN Min({clipped, 1}) ELSE clipped),
         specs |-> IF Padded(r) /\ ~unpadded THEN NumSpec ELSE 0]

Admitted(r) ==
    /\ Padded(r) => PaddingFits(r)
    /\ Admission(r).n > 0
    /\ Fits(r, req[r].computed + Admission(r).n + NumSpec, 0)

Admit ==
    /\ Admissible
    /\ LET r == Candidate
           a == Admission(r)
           upto == req[r].computed + a.n + NumSpec
       IN  /\ Admitted(r)
           /\ req' = [req EXCEPT ![r].status = "running",
                                 ![r].blocks = @ \o Allocated(r, upto)]
           /\ pool' = [pool EXCEPT !.free = @ \ ToSet(Allocated(r, upto))]
           /\ running' = Append(running, r)
           /\ inflightPrefills' = inflightPrefills \cup
                  (IF req[r].computed + a.n < req[r].tokens THEN {r} ELSE {})
           /\ pass' = [pass EXCEPT !.budget = @ - a.n,
                          !.items = Append(@, Scheduled(r, a.n, a.specs, TRUE))]
    /\ PopCandidate
    /\ UNCHANGED <<conf, ids, finishedRecv, failedRecv, pause>>

(* The first request that cannot be scheduled ends the pass. *)
StopAdmitting ==
    /\ \/ pass.pc = "waiting" /\ ~InWaitingPass
       \/ Admissible /\ ~Admitted(Candidate)
    /\ pass' = [pass EXCEPT !.pc = "emit"]
    /\ UNCHANGED <<conf, req, queues, ids, kv, pool, pause>>

-----------------------------------------------------------------------------
(* schedule(): the step that goes out *)

(* What the worker is sent. *)
Output == [items |-> pass.items, finished |-> finishedIds,
           preempted |-> preemptedIds, loads |-> pass.loads]

(* mutant: the placeholders of the drafts are not counted *)
AfterSchedule_NoDrafts(q, item, seq) ==
    LET chunk == q.computed + item.n < q.tokens + q.placeholders
        grown == [q EXCEPT !.computed = @ + item.n, !.inFlight = @ + item.n,
                           !.lastSeq = seq, !.chunk = chunk]
    IN  IF chunk \/ ~Async THEN grown
        ELSE [grown EXCEPT !.placeholders = @ + 1, !.specs = NumSpec]

(* _update_after_schedule for one request, and the override of the async   *)
(* scheduler: the sampled token and the drafts are expected in advance.    *)
AfterSchedule(q, item, seq) ==
    LET chunk == q.computed + item.n < q.tokens + q.placeholders
        grown == [q EXCEPT !.computed = @ + item.n, !.inFlight = @ + item.n,
                           !.lastSeq = seq, !.chunk = chunk]
    IN  IF chunk \/ ~Async THEN grown
        ELSE [grown EXCEPT !.placeholders = @ + 1 + item.specs, !.specs = NumSpec]

Items(S) == [r \in {S[i].id : i \in DOMAIN S} |-> CHOOSE x \in ToSet(S) : x.id = r]

FinishSchedule ==
    /\ pass.pc = "emit"
    /\ LET of == Items(pass.items)
           seq == IF DeferBlockFree /\ pass.items # <<>> THEN pool.ahead + 1 ELSE pool.ahead
       IN  /\ pool' = [pool EXCEPT !.ahead = seq]
           /\ req' = [r \in Reqs |-> IF r \in DOMAIN of
                                      THEN AfterSchedule(req[r], of[r], seq) ELSE req[r]]
           /\ inflightPrefills' = {r \in inflightPrefills :
                                       r \in DOMAIN of => req'[r].chunk}
    /\ skipped' = pass.step \o skipped
    /\ finishedIds' = {} /\ preemptedIds' = {}
    /\ pass' = NoPass
    /\ UNCHANGED <<conf, waiting, running, numStreaming, grammarErrors,
                   finishedRecv, failedRecv, pause>>

-----------------------------------------------------------------------------
(* update_from_output() *)

(* A result names a scheduled item and what the worker sampled: gen tokens *)
(* (0 for a chunk of a prefill), the eos-th of which stops the request.    *)

(* The tokens after which check_stop stops the request. *)
StopsAt(q, res) ==
    {k \in 1..res.gen : \/ k = res.eos
                        \/ q.tokens + k >= MaxModelLen
                        \/ q.tokens + k - q.prompt >= MaxTokens}

Kept(q, res) == IF StopsAt(q, res) = {} THEN res.gen ELSE Min(StopsAt(q, res))

Drained(q, n) ==
    [q EXCEPT !.inFlight = @ - n, !.stale = IF @ > 0 THEN @ - n ELSE 0]

(* The output of a request that is over, or stale output in drop mode. *)
Discarded(q) == q.status \in Over \/ (q.stale > 0 /\ q.drop)

(* mutant: stale output takes its placeholders back a second time *)
Delivered_StaleCounts(q, res) ==
    LET kept == Kept(q, res)
        rejected == IF res.specs > 0 /\ res.gen > 0 THEN res.specs - (res.gen - 1) ELSE 0
        d == Drained(q, res.n)
    IN  [d EXCEPT !.computed = IF @ > 0 THEN @ - rejected ELSE @,
                  !.placeholders = (IF @ > 0 THEN @ - rejected ELSE @)
                                     - (IF Async THEN kept ELSE 0),
                  !.tokens = @ + kept]

(* Rejected drafts roll the counters back, unless the output is stale: it  *)
(* predates the reset of the preemption.                                   *)
Delivered(q, res) ==
    LET fresh == q.stale = 0
        kept == Kept(q, res)
        rejected == IF res.specs > 0 /\ res.gen > 0 THEN res.specs - (res.gen - 1) ELSE 0
        d == Drained(q, res.n)
    IN  [d EXCEPT !.computed = IF fresh /\ @ > 0 THEN @ - rejected ELSE @,
                  !.placeholders =
                      (IF fresh /\ @ > 0 THEN @ - rejected ELSE @)
                        - (IF fresh /\ Async THEN kept ELSE 0),
                  !.tokens = @ + kept]

(* _update_request_as_session: only computed tokens stay, the update is    *)
(* appended and all of it is the prompt now.                               *)
AsSession(q) ==
    LET tokens == Min({q.tokens, q.computed}) + UpdateTokens
    IN  [q EXCEPT !.status = "waiting", !.tokens = tokens, !.prompt = tokens]

(* _handle_stopped_request *)
Stopped(r, q) ==
    IF r \notin conf.sessions THEN [q EXCEPT !.status = "finished"]
    ELSE IF q.updates = <<>> THEN [q EXCEPT !.status = "stream"]
    ELSE LET rest == [q EXCEPT !.updates = Tail(@)]
         IN  IF Head(q.updates) = "end" THEN [rest EXCEPT !.status = "finished"]
                                        ELSE AsSession(rest)

(* One turn of the loop over the scheduled requests. *)
AfterOutput(r, q, res) ==
    IF q.status = "gone" THEN q
    ELSE IF Discarded(q) THEN Drained(q, res.n)
    ELSE IF StopsAt(q, res) = {} THEN Delivered(q, res)
    ELSE Stopped(r, Delivered(q, res))

(* The output stops the request: it ends, or a session awaits more input.  *)
StopsRequest(q, res) == ~Discarded(q) /\ StopsAt(q, res) # {}

(* The requests of S leave self.requests. *)
Deleted(rq, S) ==
    [r \in Reqs |-> IF r \in S THEN [rq[r] EXCEPT !.status = "gone", !.blocks = <<>>]
                    ELSE rq[r]]

(* update_draft_token_ids, which the loop calls after the output of a step *)
(* unless it is asynchronous: drafts for every request but chunks.         *)
DraftsOf(q) == IF q.chunk THEN 0 ELSE NumSpec

UpdateDraftTokenIds(rq, S) ==
    [r \in Reqs |-> IF r \in S /\ rq[r].status \notin Over
                      THEN [rq[r] EXCEPT !.specs = DraftsOf(rq[r])] ELSE rq[r]]

(* mutant: a finished transfer of a finished request is ignored *)
Received_KeepsFinished(rq, recv) == {}

(* Finished requests whose delayed blocks may go now. *)
Received(rq, recv) == {r \in recv : rq[r].status = "finished"}

(* The requests of rq whose load left blocks invalid: their computed       *)
(* tokens end at the first of them.                                        *)
LoadsFailed(recv) ==
    {x.id : x \in {y \in recv : req[y.id].status = "remote" /\ y.valid < req[y.id].computed}}

AfterLoads(rq, recv) ==
    [r \in Reqs |-> IF r \in LoadsFailed(recv)
                      THEN [rq[r] EXCEPT !.computed = (CHOOSE x \in recv : x.id = r).valid]
                      ELSE rq[r]]

(* results: of the scheduled requests, in order; recv: the loads that came *)
(* to an end with the tokens that are valid; sent: the stores that did;    *)
(* send: the requests the connector keeps the blocks of to store them.     *)
UpdateFromOutput(results, recv, sent, send) ==
    LET counted == DeferBlockFree /\ results # <<>>
        drained == IF counted THEN DrainDeferredFrees(pool) ELSE pool
        aged == [r \in Reqs |-> IF counted THEN [req[r] EXCEPT !.lastSeq = Max({@ - 1, 0})]
                                ELSE req[r]]
        failed == LoadsFailed(recv)
        loaded == AfterLoads(aged, recv)
        of == Items(results)
        after == [r \in Reqs |-> IF r \in DOMAIN of
                                  THEN IF r \in failed /\ ~conf.recompute
                                         THEN Drained(loaded[r], of[r].n)
                                         ELSE AfterOutput(r, loaded[r], of[r])
                                  ELSE loaded[r]]
        order == [i \in DOMAIN results |-> results[i].id]
        stopped == {r \in DOMAIN of : StopsRequest(loaded[r], of[r])}
                   \ (IF conf.recompute THEN {} ELSE failed)
        \* stopped_preempted_reqs: these leave the queues once they are stopped,
        \* also the one that a session which goes on has just been put into
        late == {r \in stopped : req[r].status # "running"}
        finished == {r \in stopped : after[r].status = "finished"}
        errors == {r \in grammarErrors \cup (IF conf.recompute THEN {} ELSE failed) :
                      after[r].status \notin Over}
        marked == [r \in Reqs |-> IF r \in errors THEN [after[r] EXCEPT !.status = "finished"]
                                  ELSE after[r]]
        kept == (finished \cup errors) \cap send
        \* a request that fails while it loads gives its blocks back below
        ended == {x.id : x \in recv}
        release == Within(order, finished \ kept)
                   \o SetToSeq((errors \ kept) \ failed)
                   \o SetToSeq(Received(marked, ended))
                   \o SetToSeq(sent)
    IN  /\ pass.pc = "idle"
        /\ pool' = FreeRequestBlocks(drained, marked, release)
        /\ req' = UpdateDraftTokenIds(Deleted(marked, ToSet(release)),
                                      IF Async THEN {} ELSE DOMAIN of)
        /\ running' = Without(running, stopped)
        /\ waiting' = Without(waiting \o Within(order, {r \in stopped : after[r].status = "waiting"}),
                              late \cup errors)
        /\ skipped' = Without(skipped \o Within(order, {r \in stopped : after[r].status = "stream"}),
                              late \cup errors)
        /\ numStreaming' = numStreaming
                           + Cardinality({r \in stopped : after[r].status = "stream"})
        /\ finishedIds' = finishedIds \cup finished \cup errors
        /\ grammarErrors' = {}
        /\ failedRecv' = IF conf.recompute THEN failedRecv \cup failed ELSE failedRecv
        /\ finishedRecv' = finishedRecv \cup {r \in ended : marked[r].status = "remote"}
        /\ inflightPrefills' = inflightPrefills \ (finished \cup errors)
        /\ UNCHANGED <<conf, preemptedIds, pause, pass>>

-----------------------------------------------------------------------------
(* Calls from outside *)

AddRequest(r) ==
    /\ pass.pc = "idle"
    /\ req[r].status = "none"
    /\ IF r \in Structured
         THEN /\ req' = [req EXCEPT ![r].status = "grammar"]
              /\ skipped' = Append(skipped, r)
              /\ UNCHANGED waiting
         ELSE /\ req' = [req EXCEPT ![r].status = "waiting"]
              /\ waiting' = Append(waiting, r)
              /\ UNCHANGED skipped
    /\ UNCHANGED <<conf, running, ids, kv, pool, pause, pass>>

(* mutant: a session that goes on is still counted as waiting for input *)
AddUpdate_KeepsCount(r) ==
    /\ pass.pc = "idle"
    /\ r \in conf.sessions \cap Known(req)
    /\ IF req[r].status = "stream"
         THEN req' = [req EXCEPT ![r] = AsSession(@)]
         ELSE req' = [req EXCEPT ![r].updates = Append(@, "update")]
    /\ UNCHANGED <<conf, queues, ids, kv, pool, pause, pass>>

(* add_request for a session that exists: its next input. *)
AddUpdate(r) ==
    /\ pass.pc = "idle"
    /\ r \in conf.sessions \cap Known(req)
    /\ IF req[r].status = "stream"
         THEN /\ req' = [req EXCEPT ![r] = AsSession(@)]
              /\ numStreaming' = numStreaming - 1
         ELSE /\ req' = [req EXCEPT ![r].updates = Append(@, "update")]
              /\ UNCHANGED numStreaming
    /\ UNCHANGED <<conf, queues, finishedIds, preemptedIds, grammarErrors, kv,
                   pool, pause, pass>>

(* finish_requests for one request; send: the connector keeps its blocks.  *)
(* A request that still loads keeps them too.                              *)
FinishRequests(r, send) ==
    /\ pass.pc = "idle"
    /\ r \in Known(req)
    /\ req[r].status \notin Over
    /\ LET loading == req[r].status = "remote" /\ r \notin finishedRecv
           marked == [req EXCEPT ![r].status = "finished"]
           release == IF loading \/ send THEN <<>> ELSE <<r>>
       IN  /\ send => ~loading
           /\ pool' = FreeRequestBlocks(pool, marked, release)
           /\ req' = Deleted(marked, ToSet(release))
    /\ running' = Without(running, {r})
    /\ waiting' = Without(waiting, {r})
    /\ skipped' = Without(skipped, {r})
    /\ numStreaming' = numStreaming - (IF req[r].status = "stream" THEN 1 ELSE 0)
    /\ finishedRecv' = finishedRecv \ {r}
    /\ failedRecv' = IF req[r].status = "remote" THEN failedRecv \ {r} ELSE failedRecv
    /\ inflightPrefills' = inflightPrefills \ {r}
    /\ finishedIds' = finishedIds \cup {r}
    /\ UNCHANGED <<conf, preemptedIds, grammarErrors, pause, pass>>

(* add_request with the end of input: at once, or after the chunk. *)
EndSession(r) ==
    IF req[r].status = "stream"
      THEN r \in conf.sessions /\ FinishRequests(r, FALSE)
      ELSE /\ pass.pc = "idle"
           /\ r \in conf.sessions \cap Known(req)
           /\ req' = [req EXCEPT ![r].updates = Append(@, "end")]
           /\ UNCHANGED <<conf, queues, ids, kv, pool, pause, pass>>

(* reset_prefix_cache with reset_running_requests: every running request   *)
(* is preempted, and its output in flight is dropped.                      *)
ResetPrefixCache ==
    /\ pass.pc = "idle"
    /\ running # <<>>
    /\ pool' = FreeRequestBlocks(pool, req, Reverse(running))
    /\ req' = [r \in Reqs |-> IF r \in ToSet(running) THEN Preempted(req[r], TRUE)
                               ELSE req[r]]
    /\ waiting' = running \o waiting
    /\ running' = <<>>
    /\ inflightPrefills' = inflightPrefills \ ToSet(running)
    /\ preemptedIds' = preemptedIds \cup ToSet(running)
    /\ UNCHANGED <<conf, skipped, finishedIds, numStreaming, grammarErrors,
                   finishedRecv, failedRecv, pause, pass>>

SetPauseState(p) ==
    /\ pass.pc = "idle"
    /\ pause' = p
    /\ UNCHANGED <<conf, req, queues, ids, kv, pool, pass>>

(* The grammar of a request is compiled, or failed to. *)
GrammarCompiled(r, result) ==
    /\ req[r].grammar = "none"
    /\ req[r].status = "grammar"
    /\ req' = [req EXCEPT ![r].grammar = result]
    /\ UNCHANGED <<conf, queues, ids, kv, pool, pause, pass>>

(* has_requests: what keeps the engine stepping. *)
HasRequests ==
    \/ /\ pause # "paused_all"
       /\ \/ running # <<>>
          \/ pause = "unpaused" /\ Len(waiting) + Len(skipped) > numStreaming
    \/ finishedIds # {}
    \/ conf.connector /\ Cardinality(Known(req)) > Len(running \o waiting \o skipped)

(* One call of the worker loop decides; each of these is a step of it. *)
SchedulePass ==
    \/ PassOverRunning \/ ScheduleRunning \/ PreemptLast \/ RunningDone
    \/ SkipWaiting \/ Promote \/ Admit \/ StopAdmitting
    \/ \E n \in 1..MaxModelLen : StartLoad(n) \/ RefuseLoad(n)

=============================================================================
