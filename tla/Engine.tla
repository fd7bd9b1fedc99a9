------------------------------- MODULE Engine -------------------------------
(***************************************************************************)
(* The engine core: its loop schedules a step, hands it to the model       *)
(* runner and applies the outputs in order.  With one batch in flight the  *)
(* output of a step is applied before the next is scheduled; with two (the *)
(* asynchronous scheduler) a step is scheduled while another runs.         *)
(*                                                                         *)
(* The model runner is v1/worker/gpu/model_runner.py: it keeps a slot per  *)
(* request and, on the GPU, the tokens that are really computed.  Steps    *)
(* run in order, so a step is executed when it is handed over and its      *)
(* result waits in flight.  The loop itself, the KV connector and the      *)
(* clients are modelled from how this code uses them.                      *)
(***************************************************************************)
EXTENDS Scheduler

CONSTANTS
    MayStop,  \* the requests that may sample an end-of-sequence token
    Trouble,  \* how often clients, operator and connector may interfere
    Updates   \* how many more inputs a session gets

VARIABLES
    flight,   \* the outputs not applied yet, oldest first
    slots,    \* the runner's request states
    loads,    \* the KV loads: none, loading or done, and the valid tokens
    stores,   \* the KV stores of finished requests: none, storing or done
    left      \* what is left of Trouble and Updates

runnerVars == <<flight, slots, loads, stores>>
vars == <<schedVars, runnerVars, left>>

Interfere == left.trouble > 0 /\ left' = [left EXCEPT !.trouble = @ - 1]

-----------------------------------------------------------------------------
(* The model runner *)

(* finish_requests, then add_requests: a request that is new, resumed or a *)
(* session with a new chunk gets a fresh slot.                             *)
SlotsAfter(out) ==
    LET kept == DOMAIN slots \ (out.finished \cup out.preempted)
        added == {out.items[i].id : i \in {j \in DOMAIN out.items : out.items[j].new}}
    IN  [r \in kept \cup added |->
            IF r \in added
              THEN [computed |-> req[r].computed, len |-> req[r].tokens,
                    prefill |-> req[r].tokens]
              ELSE slots[r]]

(* What the sampler may return: nothing for a chunk of a prefill, else a   *)
(* token after the accepted drafts.                                        *)
Sampled(slot, item) ==
    IF slot.computed + item.n < slot.prefill
      THEN {[gen |-> 0, eos |-> 0]}
      ELSE {x \in [gen : 1..(1 + item.specs), eos : 0..(1 + item.specs)] :
               x.eos <= x.gen /\ (x.eos > 0 => item.id \in MayStop)}

(* The choices of one element of each set. *)
FunctionsInto(sets) ==
    {f \in [DOMAIN sets -> UNION Range(sets)] : \A i \in DOMAIN sets : f[i] \in sets[i]}

Rejected(res) == IF res.gen = 0 THEN 0 ELSE res.specs - (res.gen - 1)

(* postprocess_sampled *)
PostUpdate(slot, res) ==
    [slot EXCEPT !.computed = @ + res.n - Rejected(res), !.len = @ + res.gen]

(* The blocks that hold the positions a step writes. *)
Written(r, start, n) ==
    {req[r].blocks[b] : b \in {p \div BlockSize + 1 : p \in start..(start + n - 1)}
                                \cap DOMAIN req[r].blocks}

Result(item, slot, s) ==
    [id |-> item.id, n |-> item.n, specs |-> item.specs, gen |-> s.gen, eos |-> s.eos,
     pos |-> slot.len, start |-> slot.computed,
     writes |-> Written(item.id, slot.computed, item.n)]

NoTransfer == [st |-> "none", valid |-> 0]

(* execute_model and sample_tokens for the step that goes out.  It reports *)
(* the transfers that are over and starts the loads of this step.          *)
Execute ==
    LET out == Output
        ready == SlotsAfter(out)
        n == Len(out.items)
        outcomes == [i \in 1..n |-> Sampled(ready[out.items[i].id], out.items[i])]
    IN  /\ \A i \in 1..n : out.items[i].id \in DOMAIN ready
        /\ \E s \in FunctionsInto(outcomes) :
             LET res == [i \in 1..n |-> Result(out.items[i], ready[out.items[i].id], s[i])]
                 of == Items(res)
                 over == {r \in Reqs : loads[r].st = "done"}
                 sent == {r \in Reqs : stores[r] = "done"}
             IN  /\ slots' = [r \in DOMAIN ready |-> IF r \in DOMAIN of
                                THEN PostUpdate(ready[r], of[r]) ELSE ready[r]]
                 /\ flight' = Append(flight,
                        [results |-> res, sent |-> sent,
                         recv |-> {[id |-> r, valid |-> loads[r].valid] : r \in over}])
                 /\ loads' = [r \in Reqs |->
                        IF r \in out.loads THEN [st |-> "loading", valid |-> 0]
                        ELSE IF r \in over THEN NoTransfer ELSE loads[r]]
                 /\ stores' = [r \in Reqs |-> IF r \in sent THEN "none" ELSE stores[r]]

-----------------------------------------------------------------------------
(* The engine loop *)

Schedule ==
    /\ HasRequests
    /\ Len(flight) < conf.concurrent
    /\ StartSchedule
    /\ UNCHANGED <<runnerVars, left>>

Pass == SchedulePass /\ UNCHANGED <<runnerVars, left>>

Emit == FinishSchedule /\ Execute /\ UNCHANGED left

(* The requests of rq' whose blocks the connector keeps to store them. *)
Stores(S) == [r \in Reqs |-> IF r \in S THEN "storing" ELSE stores[r]]

Process ==
    /\ flight # <<>>
    /\ pass.pc = "idle"
    /\ LET out == Head(flight) IN
         \E send \in SUBSET {out.results[i].id : i \in DOMAIN out.results} :
           /\ IF send = {} THEN UNCHANGED left ELSE conf.connector /\ Interfere
           /\ UpdateFromOutput(out.results, out.recv, out.sent, send)
           /\ \A r \in send : req[r].status # "finished" /\ req'[r].status = "finished"
           /\ stores' = Stores(send)
    /\ flight' = Tail(flight)
    /\ UNCHANGED <<slots, loads>>

-----------------------------------------------------------------------------
(* The KV connector, the clients and the operator *)

LoadDone(r) ==
    /\ loads[r].st = "loading"
    /\ \E valid \in {k * BlockSize : k \in 0..MaxModelLen} :
         /\ valid <= req[r].computed
         /\ loads' = [loads EXCEPT ![r] = [st |-> "done", valid |-> valid]]
         /\ IF valid < req[r].computed THEN Interfere ELSE UNCHANGED left
    /\ UNCHANGED <<schedVars, flight, slots, stores>>

StoreDone(r) ==
    /\ stores[r] = "storing"
    /\ stores' = [stores EXCEPT ![r] = "done"]
    /\ UNCHANGED <<schedVars, flight, slots, loads, left>>

Arrive(r) == AddRequest(r) /\ UNCHANGED <<runnerVars, left>>

Abort(r, send) ==
    /\ send => conf.connector
    /\ Interfere
    /\ FinishRequests(r, send)
    /\ stores' = Stores(IF send THEN {r} ELSE {})
    /\ UNCHANGED <<flight, slots, loads>>

(* With one batch in flight these wait until its output is applied. *)
BetweenSteps == flight = <<>> \/ Async

NextInput(r) ==
    /\ BetweenSteps
    /\ \/ left.updates > 0 /\ (AddUpdate(r) \/ EndSession(r))
       \/ left.updates = 0 /\ req[r].status = "stream" /\ EndSession(r)
    /\ left' = [left EXCEPT !.updates = Max({@ - 1, 0})]
    /\ UNCHANGED runnerVars

Reset ==
    /\ BetweenSteps
    /\ ~conf.connector
    /\ Interfere
    /\ ResetPrefixCache
    /\ UNCHANGED runnerVars

Pause ==
    /\ BetweenSteps
    /\ pause = "unpaused"
    /\ Interfere
    /\ \E p \in {"paused_new", "paused_all"} : SetPauseState(p)
    /\ UNCHANGED runnerVars

Resume ==
    /\ BetweenSteps
    /\ pause # "unpaused"
    /\ SetPauseState("unpaused")
    /\ UNCHANGED <<runnerVars, left>>

Compile(r) ==
    /\ \E result \in {"ready", "failed"} : GrammarCompiled(r, result)
    /\ UNCHANGED <<runnerVars, left>>

Loop == Schedule \/ Pass \/ Emit \/ Process

Environment ==
    \/ Reset \/ Pause \/ Resume
    \/ \E r \in Reqs : \/ LoadDone(r) \/ StoreDone(r) \/ Arrive(r) \/ Compile(r)
                       \/ NextInput(r) \/ \E send \in BOOLEAN : Abort(r, send)

EngineInit ==
    /\ Init
    /\ flight = <<>>
    /\ slots = <<>>
    /\ loads = [r \in Reqs |-> NoTransfer]
    /\ stores = [r \in Reqs |-> "none"]
    /\ left = [trouble |-> Trouble, updates |-> Updates]

Next == Loop \/ Environment

(* Loop can take a step; it is Loop that changes pass and flight. *)
LoopEnabled ==
    pass.pc # "idle" \/ flight # <<>> \/ (HasRequests /\ Len(flight) < conf.concurrent)

(* The loop thread keeps stepping: WF_vars(Loop), with its ENABLED written *)
(* out, which TLC would take minutes to expand.                            *)
LoopIsFair == []<>~LoopEnabled \/ []<><<TRUE>>_<<pass, flight>>

(* Compilations and transfers end and a pause is lifted.  Clients owe      *)
(* nothing, but a session gets its input.                                  *)
Fairness ==
    /\ LoopIsFair
    /\ WF_vars(Resume)
    /\ \A r \in Reqs : /\ WF_vars(Compile(r)) /\ WF_vars(NextInput(r))
                        /\ WF_vars(LoadDone(r)) /\ WF_vars(StoreDone(r))

Spec == EngineInit /\ [][Next]_vars /\ Fairness

-----------------------------------------------------------------------------
(* Properties *)

Count(q, r) == Cardinality({i \in DOMAIN q : q[i] = r})

TypeOK ==
    /\ conf \in [concurrent : 1..2, seqs : 1..2, connector : BOOLEAN, recompute : BOOLEAN,
                 delivery : BOOLEAN, sessions : SUBSET Reqs]
    /\ \A r \in Reqs :
         /\ req[r] \in [status : Statuses, prompt : 0..MaxModelLen, tokens : 0..MaxModelLen,
                        computed : 0..MaxModelLen, inFlight : Nat, stale : Nat,
                        drop : BOOLEAN, placeholders : Nat, specs : 0..NumSpec,
                        chunk : BOOLEAN, preempted : BOOLEAN, lastSeq : 0..2,
                        blocks : Seq(1..NumBlocks), grammar : {"none", "ready", "failed"},
                        updates : Seq({"update", "end"})]
         /\ loads[r] \in [st : {"none", "loading", "done"}, valid : 0..MaxModelLen]
         /\ stores[r] \in {"none", "storing", "done"}
    /\ waiting \in Seq(Reqs) /\ skipped \in Seq(Reqs) /\ running \in Seq(Reqs)
    /\ finishedIds \cup preemptedIds \cup finishedRecv \cup failedRecv
          \cup grammarErrors \cup inflightPrefills \subseteq Reqs
    /\ numStreaming \in 0..Cardinality(Reqs)
    /\ pool.free \subseteq 1..NumBlocks /\ pool.ahead \in 0..2
    /\ pause \in {"unpaused", "paused_new", "paused_all"}
    /\ pass.pc \in {"idle", "running", "waiting", "emit"}
    /\ pass.budget \in 0..TokenBudget

(* A request is in exactly one queue until it is over, in the one its      *)
(* status names, and the counter of paused sessions is right: a request    *)
(* lost between the queues is never served, one in two is served twice,    *)
(* and a wrong counter admits too many or starves the rest.                *)
OneQueue ==
    /\ \A r \in Reqs :
         /\ Count(running \o waiting \o skipped \o pass.step, r)
               = IF req[r].status \in Over THEN 0 ELSE 1
         /\ Count(running, r) = 1 <=> req[r].status = "running"
         /\ req[r].status \in Blocked => Count(waiting, r) = 0
    /\ numStreaming = Cardinality({r \in Reqs : req[r].status = "stream"})

(* Every KV block is free, owned by one request or deferred, and only once *)
(* in all: no path of preemption, abort, failed load or delayed store      *)
(* leaks a block or frees it twice.                                        *)
BlocksPartitioned ==
    LET deferred == {pool.deferred[i].blocks : i \in DOMAIN pool.deferred}
        owned == [r \in Reqs |-> ToSet(req[r].blocks)]
    IN  /\ pool.free \cup (UNION deferred) \cup (UNION Range(owned)) = 1..NumBlocks
        /\ pool.free \cap (UNION deferred) = {}
        /\ \A i, j \in DOMAIN pool.deferred :
             i # j => pool.deferred[i].blocks \cap pool.deferred[j].blocks = {}
        /\ \A r \in Reqs : /\ owned[r] \cap (pool.free \cup (UNION deferred)) = {}
                            /\ IsInjective(req[r].blocks)
                            /\ \A q \in Reqs \ {r} : owned[q] \cap owned[r] = {}

(* The sum of a sequence of numbers. *)
Total(s) ==
    LET sum[k \in 0..Len(s)] == IF k = 0 THEN 0 ELSE sum[k - 1] + s[k]
    IN  sum[Len(s)]

(* What the k-th output in flight holds for a request. *)
NoResult == [n |-> 0, specs |-> 0, gen |-> 0]
ResultIn(k, r) ==
    LET of == Items(flight[k].results) IN IF r \in DOMAIN of THEN of[r] ELSE NoResult

(* Its tokens in flight up to the k-th output. *)
Flying(r, k) == Total([j \in 1..k |-> ResultIn(j, r).n])

(* The sum of f over the results that its stale share does not cover. *)
Fresh(r, f(_)) ==
    Total([k \in DOMAIN flight |->
              IF Flying(r, k - 1) < req[r].stale THEN 0 ELSE f(ResultIn(k, r))])

(* What the scheduler believes of a running request agrees with the        *)
(* runner: the tokens in flight are those of its results, and once the     *)
(* results are applied - drafts rejected, tokens appended, placeholders    *)
(* filled - computed tokens and length are the ones on the GPU.            *)
RunnerAgrees ==
    \A r \in Reqs :
        /\ req[r].status \notin {"none", "gone"} => req[r].inFlight = Flying(r, Len(flight))
        /\ req[r].status = "running" /\ pass.pc = "idle" =>
             /\ r \in DOMAIN slots
             /\ req[r].computed = slots[r].computed + Fresh(r, Rejected)
             /\ req[r].tokens + Fresh(r, LAMBDA x : x.gen) = slots[r].len
             /\ req[r].placeholders = IF Async
                  THEN Fresh(r, LAMBDA x : IF x.gen = 0 THEN 0 ELSE 1 + x.specs) ELSE 0

(* A step the runner can run: within the token budget, and for a request a *)
(* row for each draft and one more (the assertion of prepare_inputs), a    *)
(* block behind every position it writes, none beyond max_model_len.       *)
StepFits ==
    \A i \in DOMAIN flight :
        /\ Total([j \in DOMAIN flight[i].results |-> flight[i].results[j].n]) <= TokenBudget
        /\ \A j \in DOMAIN flight[i].results :
             LET x == flight[i].results[j]
             IN  /\ x.n >= x.specs + 1
                 /\ x.start + x.n <= MaxModelLen
                 /\ Cardinality(x.writes) =
                       (x.start + x.n - 1) \div BlockSize - x.start \div BlockSize + 1

(* A session that took its next input waits like a new request, but still  *)
(* has its slot.                                                           *)
GoingOn == {r \in conf.sessions : req[r].status = "waiting"}

(* The slots the next step does not release. *)
Held == DOMAIN slots \ (finishedIds \cup preemptedIds)

(* The runner has a slot for every request of the step: one that is not    *)
(* new has its slot already; and but for sessions that go on there are     *)
(* never more than max_num_seqs, paused sessions included.                 *)
SlotsSuffice ==
    /\ pass.pc = "emit" =>
         \A i \in DOMAIN pass.items : pass.items[i].new \/ pass.items[i].id \in Held
    /\ Cardinality(Held \ GoingOn) <= conf.seqs

(* No step in flight writes a block that a background load fills: what     *)
(* the deferred free of blocks is for.                                     *)
LoadsUndisturbed ==
    \A r \in Reqs : loads[r].st = "loading" =>
        \A i \in DOMAIN flight : \A j \in DOMAIN flight[i].results :
            flight[i].results[j].writes \cap ToSet(req[r].blocks) = {}

(* The waiting pass finds something to compute: a request it may admit has *)
(* tokens left (the assertion of schedule()), also after a session took    *)
(* its next input.                                                         *)
AdmitsWork == Admissible => req[Candidate].tokens > req[Candidate].computed

(* Output is delivered in order and exactly once: a token that is appended *)
(* was sampled for the position after the last one, across preemptions,    *)
(* resets of the cache and resumptions.                                    *)
InOrder ==
    [][flight # <<>> /\ flight' = Tail(flight) =>
         \A i \in DOMAIN Head(flight).results :
            LET x == Head(flight).results[i]
            IN  req'[x.id].status \notin {"none"} /\ req'[x.id].tokens > req[x.id].tokens
                  => x.pos = req[x.id].tokens]_vars

Ended(r) == req[r].status \in {"finished", "gone"}

(* A session between two inputs keeps its blocks, and nothing preempts it: *)
(* a request ahead of it that needs more than the rest is never scheduled, *)
(* or preempts itself on every chunk, and the session is never reached.    *)
SessionPins ==
    \E r \in conf.sessions : req[r].status # "running" /\ req[r].blocks # <<>>

(* Every request is served, whatever is preempted, paused, reset, aborted  *)
(* or rejected meanwhile: it ends, or it is a session that waits for its   *)
(* client, unless a session pins the blocks for ever.                      *)
Served ==
    \A r \in Reqs :
        \/ <>[]SessionPins
        \/ req[r].status # "none" ~> Ended(r) \/ req[r].status = "stream"

(* The blocks of a finished request that a transfer holds back come back:  *)
(* the engine keeps stepping for it even with nothing else to do.          *)
BlocksReturn == \A r \in Reqs : req[r].status = "finished" ~> req[r].status = "gone"

=============================================================================
