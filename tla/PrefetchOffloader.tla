-------------------------- MODULE PrefetchOffloader --------------------------
(***************************************************************************)
(* Weight offloading with prefetch: the weights of some layers stay in host *)
(* memory and are copied, PrefetchStep layers ahead, into a ring of static *)
(* device buffers that the layers' parameters point to.                    *)
(*                                                                         *)
(* The host enqueues a forward layer by layer: a wait for the layer's copy, *)
(* the layer, and the copy of a later layer on a stream of its own.  The    *)
(* same code runs eagerly and under graph capture, which records the        *)
(* operations of both streams instead of executing them; a replay executes  *)
(* the record.  Streams execute what is enqueued in order and at their own  *)
(* pace; an event is the position of a stream where it was recorded.        *)
(***************************************************************************)
EXTENDS Integers, Sequences, FiniteSets

CONSTANTS Counts,          \* how many layers a model may offload
          PrefetchStep,    \* also the capacity of the buffer pool
          MaxForwards      \* bound: forwards, captures and replays of a run

ASSUME OffloaderAssumption ==
  /\ Counts \subseteq Nat \ {0}
  /\ PrefetchStep \in Nat \ {0} /\ MaxForwards \in Nat

Streams == {"compute", "copy", "graph_compute", "graph_copy"}

VARIABLES
  count,        \* len(module_offloaders)
  program,      \* stream -> the operations enqueued, or recorded, so far
  ran, active,  \* stream -> operations finished; is the next one under way?
  buffer,       \* slot of the pool -> the layer whose weights it holds
  pc, layer,    \* where the host is in a forward
  capturing,    \* is the current stream capturing?
  forwards, captures,
  done,         \* layer -> _copy_done_event: position, and its capture or 0
  valid,        \* layer -> _event_valid_for_eager
  inCapture     \* layer -> _prefetch_in_capture

gpu    == <<program, ran, active, buffer>>
host   == <<pc, layer, capturing, forwards, captures>>
events == <<done, valid, inCapture>>
vars   == <<count, gpu, host, events>>

Layers  == 0 .. count - 1
Slot(l) == l % PrefetchStep

Await(stream, n, of) == [op |-> "await", on |-> stream, n |-> n, of |-> of]
Read(l)  == [op |-> "read", layer |-> l]
Copy(l)  == [op |-> "copy", layer |-> l]
Replayed == [op |-> "replay"]

(* post_init starts the copies of the first layers.                         *)
FirstCopies(n) ==
  [k \in 1 .. 2 * n |-> IF k % 2 = 1 THEN Await("compute", 0, 0) ELSE Copy(k \div 2 - 1)]

Init ==
  /\ count \in Counts
  /\ LET n == IF PrefetchStep < count THEN PrefetchStep ELSE count IN
       /\ program = [s \in Streams |-> IF s = "copy" THEN FirstCopies(n) ELSE <<>>]
       /\ valid = [l \in Layers |-> l < n]
       /\ done = [l \in Layers |-> [at |-> IF l < n THEN 2 * (l + 1) ELSE 0, of |-> 0]]
  /\ inCapture = [l \in Layers |-> FALSE]
  /\ ran = [s \in Streams |-> 0] /\ active = [s \in Streams |-> FALSE]
  /\ buffer = [s \in 0 .. PrefetchStep - 1 |-> -1]
  /\ pc = "idle" /\ layer = 0 /\ capturing = FALSE
  /\ forwards = 0 /\ captures = 0

-----------------------------------------------------------------------------
(* The host.  current_stream() and copy_stream record into the graph while  *)
(* a capture is on.                                                         *)

Current    == IF capturing THEN "graph_compute" ELSE "compute"
CopyStream == IF capturing THEN "graph_copy" ELSE "copy"
Capture    == IF capturing THEN captures ELSE 0
End(s)     == Len(program[s])

Enqueue(ops) ==         \* ops: stream -> the operations put behind its others
  program' = [s \in Streams |-> IF s \in DOMAIN ops THEN program[s] \o ops[s]
                                                    ELSE program[s]]

On(s, ops) == [t \in {s} |-> ops]

(* sync_prev_onload: the current stream waits for all of copy_stream.       *)
SyncPrevOnload == <<Await("copy", End("copy"), 0)>>

Starts == pc = "idle" /\ forwards < MaxForwards /\ forwards' = forwards + 1

BeginEager ==
  /\ Starts
  /\ pc' = "wait" /\ layer' = 0
  /\ UNCHANGED <<count, gpu, capturing, captures, events>>

(* torch.cuda.graph synchronises the device before it starts to record.    *)
BeginCapture ==
  /\ Starts
  /\ \A s \in {"compute", "copy"} : ran[s] = End(s)
  /\ capturing' = TRUE /\ captures' = captures + 1
  /\ program' = [program EXCEPT !["graph_compute"] = <<>>, !["graph_copy"] = <<>>]
  /\ ran' = [ran EXCEPT !["graph_compute"] = 0, !["graph_copy"] = 0]
  /\ pc' = "wait" /\ layer' = 0
  /\ UNCHANGED <<count, active, buffer, events>>

BeforeReplay_Nothing == <<>>            \* mutant: replay without a sync

BeforeReplay == SyncPrevOnload

Replay ==
  /\ Starts
  /\ captures > 0
  /\ Enqueue(On("compute", BeforeReplay \o <<Replayed>>))
  /\ UNCHANGED <<count, ran, active, buffer, pc, layer, capturing, captures, events>>

(* _wait_for_layer. *)
WaitFor(l) ==
  IF capturing
    THEN IF inCapture[l] THEN <<Await("graph_copy", done[l].at, done[l].of)>> ELSE <<>>
    ELSE IF valid[l] THEN <<Await("copy", done[l].at, done[l].of)>> ELSE SyncPrevOnload

WaitForLayer ==
  /\ pc = "wait"
  /\ Enqueue(On(Current, WaitFor(layer)))
  /\ inCapture' = IF capturing THEN [inCapture EXCEPT ![layer] = FALSE] ELSE inCapture
  /\ pc' = "forward"
  /\ UNCHANGED <<count, ran, active, buffer, layer, capturing, forwards, captures,
                 done, valid>>

ForwardLayer ==
  /\ pc = "forward"
  /\ Enqueue(On(Current, <<Read(layer)>>))
  /\ pc' = "start"
  /\ UNCHANGED <<count, ran, active, buffer, layer, capturing, forwards, captures, events>>

NextIndex_NoWrap == layer + PrefetchStep        \* mutant: not circular

NextIndex == (layer + PrefetchStep) % count

ForkPoint_None == 0                     \* mutant: the copy does not wait

ForkPoint == End(Current)

ValidAfterStart_Always == TRUE          \* mutant: capture is not told apart

ValidAfterStart == ~capturing

(* start_onload_to_static of a later layer, and the end of this one.        *)
StartPrefetch ==
  /\ pc = "start"
  /\ LET next == NextIndex IN
       /\ Enqueue(On(CopyStream, <<Await(Current, ForkPoint, Capture), Copy(next)>>))
       /\ done' = [done EXCEPT ![next] = [at |-> End(CopyStream) + 2, of |-> Capture]]
       /\ inCapture' = [inCapture EXCEPT ![next] = capturing]
       /\ valid' = [valid EXCEPT ![next] = ValidAfterStart]
  /\ IF layer + 1 < count THEN pc' = "wait" /\ layer' = layer + 1
     ELSE IF capturing    THEN pc' = "join" /\ layer' = 0
                          ELSE pc' = "idle" /\ layer' = 0
  /\ UNCHANGED <<count, ran, active, buffer, capturing, forwards, captures>>

ToJoin_First == {0} \cap Layers         \* mutant: only the next layer's copy

ToJoin == {l \in Layers : inCapture[l]}

(* join_after_forward, one layer at a time, and the end of the capture.     *)
JoinLayer ==
  /\ pc = "join" /\ layer < count
  /\ IF layer \in ToJoin
       THEN /\ Enqueue(On(Current, <<Await("graph_copy", done[layer].at, done[layer].of)>>))
            /\ inCapture' = [inCapture EXCEPT ![layer] = FALSE]
       ELSE UNCHANGED <<program, inCapture>>
  /\ layer' = layer + 1
  /\ UNCHANGED <<count, ran, active, buffer, pc, capturing, forwards, captures, done, valid>>

EndCapture ==
  /\ pc = "join" /\ layer = count
  /\ pc' = "idle" /\ layer' = 0 /\ capturing' = FALSE
  /\ UNCHANGED <<count, gpu, forwards, captures, events>>

Host == \/ BeginEager \/ BeginCapture \/ Replay
        \/ WaitForLayer \/ ForwardLayer \/ StartPrefetch
        \/ JoinLayer \/ EndCapture

-----------------------------------------------------------------------------
(* The device: the two streams, and inside a replay the two of the graph.   *)

Op(s)      == program[s][ran[s] + 1]
Replaying  == active["compute"] /\ Op("compute") = Replayed
Executing  == IF Replaying THEN {"graph_compute", "graph_copy", "copy"}
                           ELSE {"compute", "copy"}
Ready(s, name) == /\ s \in Executing
                  /\ ran[s] < End(s) /\ Op(s).op = name

Finish(s) == ran' = [ran EXCEPT ![s] = @ + 1] /\ active' = [active EXCEPT ![s] = FALSE]

PassAwait(s) ==
  /\ Ready(s, "await")
  /\ ran[Op(s).on] >= Op(s).n
  /\ Finish(s)
  /\ UNCHANGED <<count, program, buffer, host, events>>

BeginRead(s) ==
  /\ Ready(s, "read") /\ ~active[s]
  /\ active' = [active EXCEPT ![s] = TRUE]
  /\ UNCHANGED <<count, program, ran, buffer, host, events>>

EndRead(s) ==
  /\ Ready(s, "read") /\ active[s]
  /\ Finish(s)
  /\ UNCHANGED <<count, program, buffer, host, events>>

BeginCopy(s) ==
  /\ Ready(s, "copy") /\ ~active[s]
  /\ active' = [active EXCEPT ![s] = TRUE]
  /\ buffer' = [buffer EXCEPT ![Slot(Op(s).layer)] = -1]
  /\ UNCHANGED <<count, program, ran, host, events>>

EndCopy(s) ==
  /\ Ready(s, "copy") /\ active[s]
  /\ buffer' = [buffer EXCEPT ![Slot(Op(s).layer)] = Op(s).layer]
  /\ Finish(s)
  /\ UNCHANGED <<count, program, host, events>>

BeginReplay ==
  /\ Ready("compute", "replay")
  /\ active' = [active EXCEPT !["compute"] = TRUE]
  /\ ran' = [ran EXCEPT !["graph_compute"] = 0, !["graph_copy"] = 0]
  /\ UNCHANGED <<count, program, buffer, host, events>>

EndReplay ==
  /\ Replaying
  /\ \A s \in {"graph_compute", "graph_copy"} : ran[s] = End(s)
  /\ Finish("compute")
  /\ UNCHANGED <<count, program, buffer, host, events>>

Device ==
  \/ \E s \in Streams :
       \/ PassAwait(s) \/ BeginRead(s) \/ EndRead(s) \/ BeginCopy(s) \/ EndCopy(s)
  \/ BeginReplay \/ EndReplay

Next == Host \/ Device

Spec == Init /\ [][Next]_vars

-----------------------------------------------------------------------------
Ops ==
  [op : {"await"}, on : Streams, n : Nat, of : Nat]
    \cup [op : {"read", "copy"}, layer : Layers] \cup {Replayed}

TypeOK ==
  /\ program \in [Streams -> Seq(Ops)]
  /\ ran \in [Streams -> Nat] /\ \A s \in Streams : ran[s] <= End(s)
  /\ active \in [Streams -> BOOLEAN]
  /\ buffer \in [0 .. PrefetchStep - 1 -> Layers \cup {-1}]
  /\ pc \in {"idle", "wait", "forward", "start", "join"} /\ layer \in 0 .. count
  /\ {capturing} \subseteq BOOLEAN /\ forwards \in Nat /\ captures \in Nat
  /\ done \in [Layers -> [at : Nat, of : Nat]]
  /\ valid \in [Layers -> BOOLEAN] /\ inCapture \in [Layers -> BOOLEAN]

(* While a layer computes, the buffer its parameters point to holds its own *)
(* weights, all of them: no copy, of an eager forward or of a replay, is    *)
(* late or early.  Code: the waits of _wait_for_layer, the fork event of    *)
(* start_onload_to_static, sync_prev_onload before a replay.                *)
ReadsOwnWeights ==
  \A s \in {"compute", "graph_compute"} :
    active[s] /\ Op(s).op = "read" => buffer[Slot(Op(s).layer)] = Op(s).layer

(* A wait refers to a record of its own capture, or of no capture when it   *)
(* is executed at once: an event recorded elsewhere is an error there.      *)
(* Code: _prefetch_in_capture and _event_valid_for_eager.                   *)
WaitsWithinCapture ==
  \A s \in Streams : \A k \in DOMAIN program[s] :
    program[s][k].op = "await" =>
      program[s][k].of = IF s \in {"compute", "copy"} THEN 0 ELSE captures

(* When a capture ends, every copy recorded in it has been waited for: the  *)
(* copy stream is joined.  Code: join_after_forward.                        *)
CaptureJoined ==
  ~capturing =>
    \A k \in DOMAIN program["graph_copy"] :
      \E j \in DOMAIN program["graph_compute"] :
        LET op == program["graph_compute"][j] IN
          op.op = "await" /\ op.on = "graph_copy" /\ op.n >= k
=============================================================================
