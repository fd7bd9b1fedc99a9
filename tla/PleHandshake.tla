---------------------------- MODULE PleHandshake ----------------------------
(***************************************************************************)
(* The handshake of PLE CPU offload: for every engine step the CPU worker  *)
(* computes the output of each PLE layer once per data-parallel group and  *)
(* hands it to the GPU stream of every tensor-parallel rank of the group.  *)
(*                                                                         *)
(* Four kinds of actors run concurrently: the model thread of each rank    *)
(* (PleOffloadConnector._launch, signal_dummy_outputs), the request thread *)
(* of each group's rank 0 (_request_loop), the CPU worker's busy loop, and *)
(* the CUDA stream of each rank, which executes in order what its model    *)
(* thread has enqueued.  They share the flags ready and consumed of each   *)
(* rank and layer, host buffers, and a message channel.                    *)
(***************************************************************************)
EXTENDS Integers, Sequences, FiniteSets

CONSTANTS DpSize, TpSize,
          NumLayers,            \* PLE layers of the model
          Plans,                \* the kinds of the steps an engine may run
          MaxConcurrentBatches, \* 1, or 2 under --async-scheduling
          MayTimeout            \* may a wait reach VLLM_PLE_OFFLOAD_READY_TIMEOUT?

Groups == 0 .. DpSize - 1
Ranks  == Groups \X (0 .. TpSize - 1)
Layers == 1 .. NumLayers
Kinds  == {"capture", "dummy", "real"}

ASSUME HandshakeAssumption ==
  /\ DpSize \in Nat \ {0} /\ TpSize \in Nat \ {0} /\ NumLayers \in Nat \ {0}
  /\ \A plan \in Plans : plan \in Seq(Kinds)
  /\ MaxConcurrentBatches \in Nat \ {0}
  /\ MayTimeout \in BOOLEAN

GroupOf(r)   == r[1]
IsRankZero(r) == r[2] = 0
RankZero(d)  == <<d, 0>>
Targets(d)   == {r \in Ranks : GroupOf(r) = d}

VARIABLES
  plan,         \* group -> the kinds of its steps
  (* model threads *)
  step,         \* rank -> the step it runs next, or is running
  pc,           \* rank -> "idle", "signal", "claim", "full" or "timeout"
  layer,        \* rank -> the layer its loop is at
  (* request threads *)
  queue,        \* group -> _request_queue, of one entry
  request,      \* group -> the request being staged, 0 if none
  staging,      \* group -> "idle", "get", "d2h", "copy" or "send"
  awaited,      \* group -> the record of _input_ready_event d2h waits for
  channel,      \* group -> messages sent to the worker's PULL socket
  (* the CUDA streams *)
  stream,       \* rank -> the operations enqueued and not executed
  recorded, passed,     \* group -> _input_ready_event: recorded, executed up to
  source,       \* group -> the step whose inputs the runner's buffers hold
  gpu,          \* rank -> layer -> the step that copied last, and what it got
  done,         \* rank -> the last step whose forward is over
  (* shared host memory *)
  inputs,       \* group -> the shared input buffers
  out,          \* rank -> layer -> cpu_output_buffer
  ready, consumed,      \* rank -> layer -> the flags
  (* the CPU worker *)
  wpc, batch, wlayer, windex, wtarget, reading,
  skipped       \* requests the worker dropped

threads  == <<step, pc, layer>>
requests == <<queue, request, staging, awaited, channel>>
streams  == <<stream, recorded, passed, source, gpu, done>>
flags    == <<ready, consumed>>
worker   == <<wpc, batch, wlayer, windex, wtarget, reading, skipped>>
vars == <<plan, threads, requests, streams, inputs, out, flags, worker>>

(* What a buffer holds: the step it belongs to, and whether the placeholder *)
(* ids of speculative decoding have been clamped.  Step 0 is a dummy's zeros *)
(* or what was there at first, step -1 a mixture of two contents.           *)
Data(n, clamped) == [step |-> n, clamped |-> clamped]
Nothing == Data(0, TRUE)
Torn    == Data(-1, FALSE)

Init ==
  /\ plan \in [Groups -> Plans]
  /\ step = [r \in Ranks |-> 1] /\ pc = [r \in Ranks |-> "idle"]
  /\ layer = [r \in Ranks |-> 1]
  /\ queue = [d \in Groups |-> <<>>] /\ request = [d \in Groups |-> 0]
  /\ staging = [d \in Groups |-> "idle"] /\ awaited = [d \in Groups |-> 0]
  /\ channel = [d \in Groups |-> <<>>]
  /\ stream = [r \in Ranks |-> <<>>]
  /\ recorded = [d \in Groups |-> 0] /\ passed = [d \in Groups |-> 0]
  /\ source = [d \in Groups |-> 0]
  /\ gpu = [r \in Ranks |-> [l \in Layers |-> [forward |-> 0, got |-> Nothing]]]
  /\ done = [r \in Ranks |-> 0]
  /\ inputs = [d \in Groups |-> Nothing]
  /\ out = [r \in Ranks |-> [l \in Layers |-> Nothing]]
  /\ ready = [r \in Ranks |-> [l \in Layers |-> 0]]
  /\ consumed = [r \in Ranks |-> [l \in Layers |-> 1]]
  /\ wpc = "poll" /\ batch = <<>> /\ wlayer = 1 /\ windex = 1
  /\ wtarget = 0 /\ reading = Nothing /\ skipped = {}

-----------------------------------------------------------------------------
(* The model thread of a rank.  The engine dispatches a step to all ranks   *)
(* of a group at once.  Of the real steps it lets MaxConcurrentBatches be   *)
(* under way, counting those whose output rank 0 has not returned, and none *)
(* before every rank has left the boot, its captures; a dummy run returns   *)
(* nothing and nobody waits for the device to finish it.                    *)

Kind(r) == plan[GroupOf(r)][step[r]]

Dispatched(r) ==
  /\ step[r] <= Len(plan[GroupOf(r)])
  /\ Kind(r) = "real" =>
       \A k \in 1 .. step[r] - 1, q \in Targets(GroupOf(r)) :
         plan[GroupOf(r)][k] = "capture" => step[q] > k
  /\ \A k \in 1 .. step[r] - MaxConcurrentBatches :
       plan[GroupOf(r)][k] = "real" => done[RankZero(GroupOf(r))] >= k

Op(name, r, l) == [op |-> name, step |-> step[r], layer |-> l]

(* ple_offload_host_copy of one layer, and a whole forward: every layer,    *)
(* then collectives that no rank leaves before all have reached them.       *)
HostCopy(r, l) ==
  <<Op("wait", r, l), Op("copy", r, l), Op("reset", r, l), Op("consume", r, l)>>

Forward(r) ==
  [i \in 1 .. 4 * NumLayers + 1 |->
     IF i <= 4 * NumLayers THEN HostCopy(r, (i + 3) \div 4)[1 + ((i - 1) % 4)]
                           ELSE Op("end", r, 0)]

(* A captured forward is recorded in a graph and not executed.              *)
Enqueued(r) == IF Kind(r) = "capture" THEN <<>> ELSE Forward(r)

Finish(r) ==                                   \* the thread leaves the step
  /\ stream' = [stream EXCEPT ![r] = @ \o Enqueued(r)]
  /\ pc' = [pc EXCEPT ![r] = "idle"]
  /\ step' = [step EXCEPT ![r] = @ + 1]
  /\ layer' = [layer EXCEPT ![r] = 1]

(* _launch: prepare_inputs is on the stream already; rank 0 records the     *)
(* event behind it and queues the request.                                  *)
BeginReal(r) ==
  LET d == GroupOf(r) IN
  /\ pc[r] = "idle" /\ Dispatched(r) /\ Kind(r) = "real"
  /\ stream' = [stream EXCEPT ![r] = @ \o
       (IF IsRankZero(r) THEN <<Op("produce", r, 0), Op("event", r, 0)>> ELSE <<>>)]
  /\ recorded' = IF IsRankZero(r) THEN [recorded EXCEPT ![d] = step[r]] ELSE recorded
  /\ IF IsRankZero(r) /\ queue[d] # <<>>
       THEN pc' = [pc EXCEPT ![r] = "full"] /\ UNCHANGED queue        \* queue.Full
       ELSE /\ pc' = [pc EXCEPT ![r] = "claim"]
            /\ queue' = IF IsRankZero(r) THEN [queue EXCEPT ![d] = <<step[r]>>]
                                         ELSE queue
  /\ UNCHANGED <<plan, step, layer, request, staging, awaited, channel,
                 passed, source, gpu, done, inputs, out, flags, worker>>

Claimed_Anyway(r, l) == TRUE            \* mutant: the launch does not wait

Claimed(r, l) == consumed[r][l] = 0

(* The claim loop: one layer after another until its output is claimed.    *)
ClaimSeen(r) ==
  /\ pc[r] = "claim" /\ layer[r] <= NumLayers
  /\ Claimed(r, layer[r])
  /\ layer' = [layer EXCEPT ![r] = @ + 1]
  /\ UNCHANGED <<plan, step, pc, requests, streams, inputs, out, flags, worker>>

ClaimTimeout(r) ==
  /\ MayTimeout
  /\ pc[r] = "claim" /\ layer[r] <= NumLayers
  /\ ~Claimed(r, layer[r])
  /\ pc' = [pc EXCEPT ![r] = "timeout"]
  /\ UNCHANGED <<plan, step, layer, requests, streams, inputs, out, flags, worker>>

LaunchReal(r) ==
  /\ pc[r] = "claim" /\ layer[r] = NumLayers + 1
  /\ Finish(r)
  /\ UNCHANGED <<plan, requests, recorded, passed, source, gpu, done,
                 inputs, out, flags, worker>>

(* signal_dummy_outputs, one layer at a time.  Entering a CUDA graph        *)
(* capture synchronises the device; a plain dummy run prepares its inputs   *)
(* on the stream like a real one.                                           *)
BeginDummy(r) ==
  /\ pc[r] = "idle" /\ Dispatched(r) /\ Kind(r) # "real"
  /\ Kind(r) = "capture" => stream[r] = <<>>
  /\ pc' = [pc EXCEPT ![r] = "signal"]
  /\ stream' = IF Kind(r) = "dummy" /\ IsRankZero(r)
                 THEN [stream EXCEPT ![r] = Append(@, Op("produce", r, 0))]
                 ELSE stream
  /\ UNCHANGED <<plan, step, layer, requests, recorded, passed, source, gpu, done,
                 inputs, out, flags, worker>>

ConsumedAfterSignal_Zero == 0           \* mutant: the dummy claims its output

ConsumedAfterSignal == 1

SignalDummy(r) ==
  LET l == layer[r] IN
  /\ pc[r] = "signal" /\ l <= NumLayers
  /\ out' = [out EXCEPT ![r][l] = Nothing]
  /\ ready' = [ready EXCEPT ![r][l] = 1]
  /\ consumed' = [consumed EXCEPT ![r][l] = ConsumedAfterSignal]
  /\ layer' = [layer EXCEPT ![r] = @ + 1]
  /\ UNCHANGED <<plan, step, pc, requests, streams, inputs, worker>>

LaunchDummy(r) ==
  /\ pc[r] = "signal" /\ layer[r] = NumLayers + 1
  /\ Finish(r)
  /\ UNCHANGED <<plan, requests, recorded, passed, source, gpu, done,
                 inputs, out, flags, worker>>

-----------------------------------------------------------------------------
(* The request thread of a group's rank 0. *)

GetRequest(d) ==
  /\ staging[d] = "idle" /\ queue[d] # <<>>
  /\ request' = [request EXCEPT ![d] = Head(queue[d])]
  /\ queue' = [queue EXCEPT ![d] = <<>>]
  /\ staging' = [staging EXCEPT ![d] = "get"]
  /\ UNCHANGED <<plan, threads, awaited, channel, streams, inputs, out, flags, worker>>

AwaitAnything(d) == 0                   \* mutant: the copy does not wait

(* wait_event waits for what the event last recorded when it is called.     *)
AwaitRecord(d) == recorded[d]

WaitEvent(d) ==
  /\ staging[d] = "get"
  /\ awaited' = [awaited EXCEPT ![d] = AwaitRecord(d)]
  /\ staging' = [staging EXCEPT ![d] = "d2h"]
  /\ UNCHANGED <<plan, threads, queue, request, channel, streams, inputs, out,
                 flags, worker>>

(* The copies run on the d2h stream, from one moment to a later one.       *)
StartCopy(d) ==
  /\ staging[d] = "d2h" /\ passed[d] >= awaited[d]
  /\ inputs' = [inputs EXCEPT ![d] = Torn]
  /\ awaited' = [awaited EXCEPT ![d] = source[d]]
  /\ staging' = [staging EXCEPT ![d] = "copy"]
  /\ UNCHANGED <<plan, threads, queue, request, channel, streams, out, flags, worker>>

EndCopy(d) ==
  /\ staging[d] = "copy"
  /\ inputs' = [inputs EXCEPT ![d] =
                  IF source[d] = awaited[d] THEN Data(source[d], FALSE) ELSE Torn]
  /\ staging' = [staging EXCEPT ![d] = "send"]
  /\ UNCHANGED <<plan, threads, queue, request, awaited, channel, streams, out,
                 flags, worker>>

Send(d) ==
  /\ staging[d] = "send"
  /\ channel' = [channel EXCEPT ![d] = Append(@, request[d])]
  /\ request' = [request EXCEPT ![d] = 0]
  /\ staging' = [staging EXCEPT ![d] = "idle"]
  /\ UNCHANGED <<plan, threads, queue, awaited, streams, inputs, out, flags, worker>>

-----------------------------------------------------------------------------
(* The worker.  One drain of the socket takes some of what has arrived; of  *)
(* two requests of a group it keeps the first.                              *)

Drain ==
  /\ wpc = "poll"
  /\ \E taken \in [Groups -> 0 .. 2] :
       /\ \A d \in Groups : taken[d] <= Len(channel[d])
       /\ LET from == {d \in Groups : taken[d] > 0} IN
          /\ from # {}
          /\ \E order \in [1 .. Cardinality(from) -> from] :
               /\ \A d \in from : \E i \in DOMAIN order : order[i] = d
               /\ batch' = [i \in DOMAIN order |->
                              [group |-> order[i], step |-> Head(channel[order[i]])]]
          /\ skipped' = skipped \cup {<<d, channel[d][2]>> : d \in {e \in from : taken[e] = 2}}
          (* clamp_min_ on the shared input ids of every group in the batch *)
          /\ inputs' = [d \in Groups |-> IF d \in from THEN [inputs[d] EXCEPT !.clamped = TRUE]
                                                       ELSE inputs[d]]
       /\ channel' = [d \in Groups |-> SubSeq(channel[d], taken[d] + 1, Len(channel[d]))]
  /\ wpc' = "wait" /\ wlayer' = 1 /\ windex' = 1
  /\ UNCHANGED <<plan, threads, queue, request, staging, awaited, streams, out,
                 flags, wtarget, reading>>

WGroup == batch[windex].group
WTarget == <<WGroup, wtarget>>

MoreTargets_OffByOne == wtarget < TpSize      \* mutant: one target too many

MoreTargets == wtarget < TpSize - 1

(* Every target of the group has consumed its last output of this layer.   *)
WaitConsumed ==
  /\ wpc = "wait"
  /\ \A r \in Targets(WGroup) : consumed[r][wlayer] = 1
  /\ wpc' = "ready" /\ wtarget' = 0
  /\ UNCHANGED <<plan, threads, requests, streams, inputs, out, flags,
                 batch, wlayer, windex, reading, skipped>>

FirstFlag_Consumed == "consumed"        \* mutant: the order of two stores

FirstFlag == "ready"

Lower(flag) ==
  IF flag = "ready"
    THEN ready' = [ready EXCEPT ![WTarget][wlayer] = 0] /\ UNCHANGED consumed
    ELSE consumed' = [consumed EXCEPT ![WTarget][wlayer] = 0] /\ UNCHANGED ready

ClaimReady ==
  /\ wpc = "ready"
  /\ Lower(FirstFlag)
  /\ wpc' = "consumed"
  /\ UNCHANGED <<plan, threads, requests, streams, inputs, out,
                 batch, wlayer, windex, wtarget, reading, skipped>>

ClaimConsumed ==
  /\ wpc = "consumed"
  /\ Lower(IF FirstFlag = "ready" THEN "consumed" ELSE "ready")
  /\ IF MoreTargets THEN wpc' = "ready" /\ wtarget' = wtarget + 1
                             ELSE wpc' = "compute" /\ wtarget' = 0
  /\ UNCHANGED <<plan, threads, requests, streams, inputs, out,
                 batch, wlayer, windex, reading, skipped>>

(* forward_impl reads the input buffers and writes the first target's       *)
(* output buffer, from one moment to a later one.                           *)
StartCompute ==
  /\ wpc = "compute"
  /\ reading' = inputs[WGroup]
  /\ out' = [out EXCEPT ![RankZero(WGroup)][wlayer] = Torn]
  /\ wpc' = "computing"
  /\ UNCHANGED <<plan, threads, requests, streams, inputs, flags,
                 batch, wlayer, windex, wtarget, skipped>>

EndCompute ==
  /\ wpc = "computing"
  /\ out' = [out EXCEPT ![RankZero(WGroup)][wlayer] =
               IF inputs[WGroup] = reading THEN reading ELSE Torn]
  /\ wpc' = "fanout" /\ wtarget' = 1
  /\ UNCHANGED <<plan, threads, requests, streams, inputs, flags,
                 batch, wlayer, windex, reading, skipped>>

FanOut ==
  /\ wpc = "fanout"
  /\ IF wtarget < TpSize
       THEN /\ out' = [out EXCEPT ![WTarget][wlayer] = out[RankZero(WGroup)][wlayer]]
            /\ wtarget' = wtarget + 1 /\ UNCHANGED wpc
       ELSE wpc' = "publish" /\ wtarget' = 0 /\ UNCHANGED out
  /\ UNCHANGED <<plan, threads, requests, streams, inputs, flags,
                 batch, wlayer, windex, reading, skipped>>

Publish ==
  /\ wpc = "publish"
  /\ ready' = [ready EXCEPT ![WTarget][wlayer] = 1]
  /\ IF MoreTargets
       THEN wtarget' = wtarget + 1 /\ UNCHANGED <<wpc, batch, wlayer, windex>>
       ELSE /\ wtarget' = 0
            /\ IF windex < Len(batch)                     \* the next group,
                 THEN wpc' = "wait" /\ windex' = windex + 1 /\ UNCHANGED <<batch, wlayer>>
               ELSE IF wlayer < NumLayers                 \* the next layer,
                 THEN wpc' = "wait" /\ windex' = 1 /\ wlayer' = wlayer + 1 /\ UNCHANGED batch
               ELSE wpc' = "poll" /\ batch' = <<>> /\ wlayer' = 1 /\ windex' = 1
  /\ UNCHANGED <<plan, threads, requests, streams, inputs, out, consumed,
                 reading, skipped>>

-----------------------------------------------------------------------------
(* The CUDA stream of a rank executes the operation at its head. *)

Next1(r, name) == stream[r] # <<>> /\ Head(stream[r]).op = name
Pop(r) == stream' = [stream EXCEPT ![r] = Tail(@)]

Produce(r) ==
  /\ Next1(r, "produce") /\ Pop(r)
  /\ source' = [source EXCEPT ![GroupOf(r)] = Head(stream[r]).step]
  /\ UNCHANGED <<plan, threads, requests, recorded, passed, gpu, done, inputs,
                 out, flags, worker>>

PassEvent(r) ==
  /\ Next1(r, "event") /\ Pop(r)
  /\ passed' = [passed EXCEPT ![GroupOf(r)] = Head(stream[r]).step]
  /\ UNCHANGED <<plan, threads, requests, recorded, source, gpu, done, inputs,
                 out, flags, worker>>

WaitReady(r) ==
  /\ Next1(r, "wait") /\ Pop(r)
  /\ ready[r][Head(stream[r]).layer] = 1
  /\ UNCHANGED <<plan, threads, requests, recorded, passed, source, gpu, done,
                 inputs, out, flags, worker>>

CopyToDevice(r) ==
  LET l == Head(stream[r]).layer IN
  /\ Next1(r, "copy") /\ Pop(r)
  /\ gpu' = [gpu EXCEPT ![r][l] = [forward |-> Head(stream[r]).step, got |-> out[r][l]]]
  /\ UNCHANGED <<plan, threads, requests, recorded, passed, source, done,
                 inputs, out, flags, worker>>

ResetReady(r) ==
  LET l == Head(stream[r]).layer IN
  /\ Next1(r, "reset") /\ Pop(r)
  /\ ready' = [ready EXCEPT ![r][l] = 0]
  /\ UNCHANGED <<plan, threads, requests, recorded, passed, source, gpu, done,
                 inputs, out, consumed, worker>>

ConsumedAfterCopy_Zero == 0             \* mutant: the buffer is not given back

ConsumedAfterCopy == 1

SetConsumed(r) ==
  /\ Next1(r, "consume") /\ Pop(r)
  /\ consumed' = [consumed EXCEPT ![r][Head(stream[r]).layer] = ConsumedAfterCopy]
  /\ UNCHANGED <<plan, threads, requests, recorded, passed, source, gpu, done,
                 inputs, out, ready, worker>>

EndForward(r) ==
  LET n == Head(stream[r]).step IN
  /\ Next1(r, "end") /\ Pop(r)
  /\ \A q \in Targets(GroupOf(r)) :
       done[q] >= n \/ (Next1(q, "end") /\ Head(stream[q]).step = n)
  /\ done' = [done EXCEPT ![r] = n]
  /\ UNCHANGED <<plan, threads, requests, recorded, passed, source, gpu,
                 inputs, out, flags, worker>>

-----------------------------------------------------------------------------
ModelThread(r) ==
  \/ BeginReal(r) \/ ClaimSeen(r) \/ LaunchReal(r)
  \/ BeginDummy(r) \/ SignalDummy(r) \/ LaunchDummy(r)

RequestThread(d) ==
  GetRequest(d) \/ WaitEvent(d) \/ StartCopy(d) \/ EndCopy(d) \/ Send(d)

Worker ==
  \/ Drain \/ WaitConsumed \/ ClaimReady \/ ClaimConsumed
  \/ StartCompute \/ EndCompute \/ FanOut \/ Publish

StreamStep(r) ==
  \/ Produce(r) \/ PassEvent(r) \/ WaitReady(r) \/ CopyToDevice(r)
  \/ ResetReady(r) \/ SetConsumed(r) \/ EndForward(r)

Next ==
  \/ \E r \in Ranks : ModelThread(r) \/ ClaimTimeout(r) \/ StreamStep(r)
  \/ \E d \in Groups : RequestThread(d)
  \/ Worker

(* Every actor keeps running; nothing makes a wait reach its timeout.       *)
Fairness ==
  /\ \A r \in Ranks : WF_vars(ModelThread(r)) /\ WF_vars(StreamStep(r))
  /\ \A d \in Groups : WF_vars(RequestThread(d))
  /\ WF_vars(Worker)

Spec == Init /\ [][Next]_vars /\ Fairness

-----------------------------------------------------------------------------
Steps    == Nat
Contents == [step : Steps \cup {-1}, clamped : BOOLEAN]
Ops      == [op : {"produce", "event", "wait", "copy", "reset", "consume", "end"},
             step : Steps, layer : 0 .. NumLayers]

(* Every flag, buffer, queue and program counter has a value of its kind.  *)
TypeOK ==
  /\ plan \in [Groups -> Plans]
  /\ step \in [Ranks -> Steps] /\ layer \in [Ranks -> 1 .. NumLayers + 1]
  /\ pc \in [Ranks -> {"idle", "signal", "claim", "full", "timeout"}]
  /\ queue \in [Groups -> Seq(Steps)] /\ \A d \in Groups : Len(queue[d]) <= 1
  /\ request \in [Groups -> Steps] /\ awaited \in [Groups -> Steps]
  /\ staging \in [Groups -> {"idle", "get", "d2h", "copy", "send"}]
  /\ channel \in [Groups -> Seq(Steps)] /\ stream \in [Ranks -> Seq(Ops)]
  /\ recorded \in [Groups -> Steps] /\ passed \in [Groups -> Steps]
  /\ source \in [Groups -> Steps] /\ done \in [Ranks -> Steps]
  /\ gpu \in [Ranks -> [Layers -> [forward : Steps, got : Contents]]]
  /\ inputs \in [Groups -> Contents]
  /\ out \in [Ranks -> [Layers -> Contents]]
  /\ ready \in [Ranks -> [Layers -> 0 .. 1]]
  /\ consumed \in [Ranks -> [Layers -> 0 .. 1]]
  /\ wpc \in {"poll", "wait", "ready", "consumed", "compute", "computing",
             "fanout", "publish"}
  /\ batch \in Seq([group : Groups, step : Steps])
  /\ wlayer \in Layers /\ windex \in Nat \ {0} /\ wtarget \in 0 .. TpSize
  /\ wtarget = TpSize => wpc = "fanout"
  /\ reading \in Contents /\ skipped \subseteq Groups \X Steps

(* What a forward copies to the device is the output computed from its own  *)
(* inputs, whole and clamped: never an older output, a dummy's zeros, a     *)
(* buffer the worker is still writing.  A dummy forward gets zeros.  Code:  *)
(* the ready and consumed flags, and the order in which they are stored.    *)
OwnResult ==
  \A r \in Ranks, l \in Layers :
    LET n == gpu[r][l].forward IN
    n > 0 => gpu[r][l].got = IF plan[GroupOf(r)][n] = "real" THEN Data(n, TRUE)
                                                             ELSE Nothing

(* As long as the worker has a layer of a request to compute, the group's   *)
(* shared input buffers hold that step's inputs and nobody stages others    *)
(* over them: the buffers are single and no flag guards them.  Code: the    *)
(* D2H event, the claim of every layer, the engine's wait for real steps.   *)
StillReads(i) ==
  \/ wlayer < NumLayers
  \/ i > windex
  \/ i = windex /\ wpc \notin {"fanout", "publish"}

InputsStable ==
  \A i \in DOMAIN batch :
    StillReads(i) => inputs[batch[i].group] = Data(batch[i].step, TRUE)

(* No request is dropped as a duplicate: its forward would wait for ever.   *)
(* Code: _handle_requests logs a warning and skips it.                      *)
NothingSkipped == skipped = {}

(* put_nowait finds the one-entry queue empty, so that no model thread dies *)
(* of queue.Full.                                                           *)
QueueNeverFull == \A r \in Ranks : pc[r] # "full"

(* Rank 0 launches a real step only when the forwards before it have        *)
(* consumed every output, on every rank of the group: the reason given for  *)
(* a request queue of one entry.                                            *)
ConsumedBeforeLaunch ==
  [][\A d \in Groups : BeginReal(RankZero(d)) =>
       \A r \in Targets(d), l \in Layers : consumed[r][l] = 1]_vars

(* Every forward ends: no wait of a model thread, of the worker or of a     *)
(* stream lasts for ever, unless a rank has given up waiting.               *)
EveryForwardEnds ==
  <>(\/ \A r \in Ranks : step[r] > Len(plan[GroupOf(r)]) /\ stream[r] = <<>>
     \/ \E r \in Ranks : pc[r] = "timeout")

-----------------------------------------------------------------------------
(* A group's request on its way to the worker; the layers of the request    *)
(* before the worker; the layer the worker is at.                           *)
InFront(d) == queue[d] # <<>> \/ staging[d] # "idle" \/ channel[d] # <<>>

Ahead(d, l) ==
  \/ InFront(d)
  \/ \E i \in 1 .. Len(batch) :
       /\ batch[i].group = d
       /\ wlayer < l \/ (wlayer = l /\ (windex < i \/ (windex = i /\ wpc = "wait")))

At(d, l) == wpc \notin {"poll", "wait"} /\ WGroup = d /\ wlayer = l

Owed(d, l) == Ahead(d, l) \/ (At(d, l) /\ wpc \notin {"fanout", "publish"})

Service == INSTANCE PleService WITH
  Output   <- [n \in Steps |-> Data(n, TRUE)],
  Zeros    <- Nothing,
  asked    <- recorded,
  answered <- [d \in Groups |-> {l \in Layers : ~Owed(d, l)}],
  given    <- gpu

(* Behind the threads, flags and buffers is one service per group: a real   *)
(* step is asked for when everything before it was given, its layers are    *)
(* computed in order, and each rank copies each layer of each forward once, *)
(* in order, its own output or a dummy's zeros.  Code: the whole handshake. *)
ServesForwards == Service!Spec

=============================================================================
