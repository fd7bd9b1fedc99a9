---------------------------- MODULE PleLifecycle ----------------------------
(***************************************************************************)
(* The life of the PLE CPU worker and of the connectors that use it: the   *)
(* GPU worker of rank 0 spawns the CPU worker as a child process and owns  *)
(* it through two pipes; every rank builds a connector, which registers    *)
(* its buffers with the child; rank 0 waits for READY; the ranks serve;    *)
(* and everything is shut down, by request or because something failed.    *)
(*                                                                         *)
(* Actors: the main thread of each GPU worker, the request thread of rank  *)
(* 0, the main thread and the death monitor of the child, the CUDA stream  *)
(* of each rank.  A process may be killed at any moment, the child's load  *)
(* may fail, any wait may reach its timeout, and a signal may interrupt a  *)
(* GPU worker between two calls or inside a wait.  The handshake itself is *)
(* PleHandshake's; here a step has one PLE layer and one flag per rank.    *)
(***************************************************************************)
EXTENDS Naturals, Sequences, FiniteSets

CONSTANTS NumWorkers,   \* GPU workers, one per tensor-parallel rank
          MaxForwards   \* bound: engine steps served before shutdown

ASSUME LifecycleAssumption ==
  NumWorkers \in Nat \ {0} /\ MaxForwards \in Nat

Ranks == 0 .. NumWorkers - 1

VARIABLES
  method,     \* how the child is started: "spawn" or "fork"
  rank,       \* rank -> where its GPU worker's main thread is
  handle,     \* rank 0's PleOffloadWorkerHandle: "none", "open" or "closed"
  connector,  \* rank -> does its runner own a connector?
  pinned,     \* rank -> its registered buffers: "no", "yes" or "released"
  stream,     \* rank -> does its CUDA stream wait for an output?
  forwards,   \* engine steps started
  thread,     \* the request thread: "none", "boot", "get", "stage", "dead"
  queue,      \* its _request_queue
  writer,     \* does rank 0 still hold the write end of the ready pipe?
  ready,      \* what is in the ready pipe: "", "READY" or "FAILURE"
  child,      \* "none", "load", "recv", "poll", "claim", "compute", "dead"
  event,      \* the child's shutdown_event
  sent, received,  \* ranks whose registration is under way, was received
  requests,   \* requests under way to the child
  flag        \* rank -> "consumed", "claimed" or "ready"

held    == <<handle, connector, pinned, forwards>>
threads == <<thread, queue>>
gpu     == <<rank, held, stream, threads>>
pipes   == <<writer, ready>>
offload == <<child, event, received>>
wires   == <<sent, requests>>
others  == <<threads, pipes, offload, wires, flag, method>>
vars    == <<gpu, pipes, offload, wires, flag, method>>

Init ==
  /\ method \in {"spawn", "fork"}
  /\ rank = [r \in Ranks |-> IF r = 0 THEN "new" ELSE "load"]
  /\ handle = "none" /\ forwards = 0
  /\ connector = [r \in Ranks |-> FALSE] /\ pinned = [r \in Ranks |-> "no"]
  /\ stream = [r \in Ranks |-> FALSE]
  /\ thread = "none" /\ queue = <<>>
  /\ writer = FALSE /\ ready = ""
  /\ child = "none" /\ event = FALSE /\ received = {}
  /\ sent = {} /\ requests = 0
  /\ flag = [r \in Ranks |-> "consumed"]

Alive(r)    == rank[r] # "gone"
ChildAlive  == child \notin {"none", "dead"}
ThreadAlive == thread \in {"boot", "get", "stage"}
Goto(r, pc) == rank' = [rank EXCEPT ![r] = pc]

-----------------------------------------------------------------------------
(* GPU workers: start. *)

(* make_process closes the parent's copy of ready_writer after the start.  *)
WriterAfterStart_Open == TRUE  \* mutant: the parent keeps its write end
WriterAfterStart == FALSE

Spawn ==
  /\ rank[0] = "new" /\ Goto(0, "load")
  /\ child' = "load" /\ handle' = "open" /\ writer' = WriterAfterStart
  /\ UNCHANGED <<threads, wires, method, connector, pinned, stream,
                forwards, ready, event, received, flag>>

(* The constructor sends its registration, which waits in the socket until *)
(* the child is there to receive it, and only then pins the buffers; rank  *)
(* 0 starts its request thread last.                                       *)
Register(r) ==
  /\ rank[r] = "load" /\ Goto(r, "pin") /\ sent' = sent \cup {r}
  /\ UNCHANGED <<held, threads, pipes, offload, method, stream, requests,
                flag>>

Pin(r) ==
  /\ rank[r] = "pin" /\ pinned' = [pinned EXCEPT ![r] = "yes"]
  /\ Goto(r, IF r = 0 THEN "start" ELSE "ready")
  /\ thread' = IF r = 0 THEN "boot" ELSE thread
  /\ connector' = [connector EXCEPT ![r] = r # 0]
  /\ UNCHANGED <<pipes, offload, wires, method, handle, stream, forwards,
                queue, flag>>

Started ==
  /\ rank[0] = "start" /\ thread # "boot"
  /\ Goto(0, "wait") /\ connector' = [connector EXCEPT ![0] = TRUE]
  /\ UNCHANGED <<others, handle, pinned, stream, forwards>>

(* A driver call of the constructor fails, or the request thread is not up *)
(* within ten seconds: the constructor calls close() and raises.           *)
PinFails(r) ==
  /\ \/ rank[r] = "pin" /\ pinned' = [pinned EXCEPT ![r] = "yes"]
     \/ rank[r] = "start" /\ thread = "boot" /\ UNCHANGED pinned
  /\ Goto(r, "undo")
  /\ UNCHANGED <<others, handle, connector, stream, forwards>>

-----------------------------------------------------------------------------
(* wait_for_ready: a message, the end of the pipe, or the timeout.         *)

EndOfPipe == ~writer /\ ~ChildAlive
WaitEnds ==
  /\ rank[0] = "wait" /\ (ready # "" \/ EndOfPipe)
  /\ Goto(0, IF ready = "READY" THEN "ready" ELSE "raised")
  /\ UNCHANGED <<others, held, stream>>

AfterReadyTimeout_GoOn == "ready"  \* mutant: a late child is served anyway
AfterReadyTimeout == "raised"

WaitTimeout ==
  /\ rank[0] = "wait" /\ ready = "" /\ ~EndOfPipe
  /\ Goto(0, AfterReadyTimeout)
  /\ UNCHANGED <<others, held, stream>>

-----------------------------------------------------------------------------
(* Serving.  The engine starts a step on every rank once all have returned *)
(* from the one before and its forward is over.                            *)

StartForward ==
  /\ forwards < MaxForwards /\ forwards' = forwards + 1
  /\ \A r \in Ranks : rank[r] = "ready" /\ ~stream[r]
  /\ rank' = [r \in Ranks |-> "claim"]
  /\ queue' = Append(queue, "request")
  /\ UNCHANGED <<pipes, offload, wires, method, handle, connector, pinned,
                stream, thread, flag>>

Claimed(r) ==
  /\ rank[r] = "claim" /\ flag[r] # "consumed"
  /\ Goto(r, "ready") /\ stream' = [stream EXCEPT ![r] = TRUE]
  /\ UNCHANGED <<others, held>>

ClaimTimeout(r) ==
  /\ rank[r] = "claim" /\ flag[r] = "consumed" /\ Goto(r, "raised")
  /\ UNCHANGED <<others, held, stream>>

(* The stream copies an output that is ready and marks it consumed. *)
Copy(r) ==
  /\ Alive(r) /\ stream[r] /\ flag[r] = "ready"
  /\ flag' = [flag EXCEPT ![r] = "consumed"]
  /\ stream' = [stream EXCEPT ![r] = FALSE]
  /\ UNCHANGED <<held, threads, pipes, offload, wires, method, rank>>

-----------------------------------------------------------------------------
(* The request thread. *)

ThreadUp ==
  /\ Alive(0) /\ thread = "boot" /\ thread' = "get"
  /\ UNCHANGED <<held, pipes, offload, wires, method, rank, stream, queue,
                flag>>

GetRequest ==
  /\ Alive(0) /\ thread = "get" /\ queue # <<>> /\ queue' = Tail(queue)
  /\ IF Head(queue) = "stop"
     THEN thread' = "dead" /\ requests' \in {0, requests}  \* linger = 0
     ELSE thread' = "stage" /\ UNCHANGED requests
  /\ UNCHANGED <<held, pipes, offload, method, rank, stream, sent, flag>>

(* The copy of the inputs into the pinned buffers is over: send. *)
Staged ==
  /\ Alive(0) /\ thread = "stage" /\ thread' = "get"
  /\ requests' = requests + 1
  /\ UNCHANGED <<held, pipes, offload, method, rank, stream, queue, sent,
                flag>>

-----------------------------------------------------------------------------
(* Shutdown of a GPU worker: the child first, then the connector. *)

(* A signal interrupts the main thread between two calls or in a wait; a   *)
(* call that raised makes the executor shut the worker down.               *)
Shutdown(r) ==
  /\ rank[r] \in {"load", "wait", "ready", "claim", "raised"}
  /\ IF r = 0 THEN handle' = "closed" /\ Goto(0, "join")
     ELSE Goto(r, "sync") /\ UNCHANGED handle
  /\ UNCHANGED <<others, connector, pinned, stream, forwards>>

(* PleOffloadWorkerHandle.close has closed the death pipe: wait for the    *)
(* child, at most five seconds, then send SIGTERM, then SIGKILL.           *)
Joined ==
  /\ rank[0] \in {"join", "terminate"} /\ ~ChildAlive /\ Goto(0, "sync")
  /\ UNCHANGED <<others, held, stream>>

Terminate ==
  /\ rank[0] = "join" /\ ChildAlive
  /\ Goto(0, "terminate") /\ event' = TRUE
  /\ UNCHANGED <<held, threads, pipes, wires, method, stream, child,
                received, flag>>

AfterTerminate_Nothing == child  \* mutant: no SIGKILL after the SIGTERM
AfterTerminate == "dead"

KillChild ==
  /\ rank[0] = "terminate" /\ ChildAlive
  /\ Goto(0, "sync") /\ child' = AfterTerminate
  /\ UNCHANGED <<held, threads, pipes, wires, method, stream, event,
                received, flag>>

(* The runner's shutdown waits for the device, then closes the connector.  *)
DeviceIdle_Unasked(r) == TRUE  \* mutant: the device is not waited for
DeviceIdle(r) == ~stream[r]

Synchronize(r) ==
  /\ rank[r] = "sync" /\ DeviceIdle(r)
  /\ Goto(r, IF connector[r] THEN "stop" ELSE "closed")
  /\ UNCHANGED <<others, held, stream>>

(* close(), from the shutdown or from the constructor: None through the    *)
(* queue of one entry, which may stay full for five seconds.               *)
HasThread(r) == r = 0 /\ ThreadAlive
StopThread(r) ==
  /\ rank[r] \in {"stop", "undo"}
  /\ \/ ~HasThread(r) /\ UNCHANGED queue
     \/ HasThread(r) /\ queue = <<>> /\ queue' = <<"stop">>
     \/ HasThread(r) /\ queue # <<>> /\ UNCHANGED queue
  /\ Goto(r, IF rank[r] = "stop" THEN "release" ELSE "unpin")
  /\ UNCHANGED <<held, pipes, offload, wires, method, stream, thread, flag>>

(* Its join of five seconds ends with the thread, or without it: then the  *)
(* buffers stay registered and the sockets open.                           *)
AfterClose(r) == Goto(r, IF rank[r] = "release" THEN "closed" ELSE "raised")

MayRelease_Always(r) == TRUE  \* mutant: the thread is not asked for again
MayRelease(r) == ~HasThread(r)

Release(r) ==
  /\ rank[r] \in {"release", "unpin"} /\ MayRelease(r)
  /\ AfterClose(r) /\ pinned' = [pinned EXCEPT ![r] = "released"]
  /\ \E lost \in {{}, {r}} : sent' = sent \ lost  \* linger = 0
  /\ UNCHANGED <<threads, pipes, offload, method, handle, connector, stream,
                forwards, requests, flag>>

Defer(r) ==
  /\ rank[r] \in {"release", "unpin"} /\ HasThread(r) /\ AfterClose(r)
  /\ UNCHANGED <<others, held, stream>>

(* A process ends, after its shutdown or by a kill, an exception of the    *)
(* request thread (os._exit) or an exception of a constructor: its threads *)
(* and its pipe ends go with it, and what its sockets held may be lost.    *)
Exit(r) ==
  /\ Alive(r) /\ Goto(r, "gone")
  /\ stream' = [stream EXCEPT ![r] = FALSE]
  /\ \E lost \in {{}, {r}} : sent' = sent \ lost
  /\ IF r = 0
     THEN /\ handle' = IF handle = "open" THEN "closed" ELSE handle
          /\ writer' = FALSE /\ queue' = <<>>
          /\ thread' = IF ThreadAlive THEN "dead" ELSE thread
          /\ requests' \in {0, requests}
     ELSE UNCHANGED <<handle, writer, queue, thread, requests>>
  /\ UNCHANGED <<offload, method, connector, pinned, forwards, ready, flag>>

-----------------------------------------------------------------------------
(* The child. *)

Loaded ==
  /\ child = "load" /\ child' = "recv"
  /\ UNCHANGED <<gpu, pipes, wires, method, event, received, flag>>

(* An exception is reported through the ready pipe if that is still open. *)
Raise == child' = "dead" /\ ready' = IF ready = "" THEN "FAILURE" ELSE ready

LoadFails ==
  /\ child = "load" /\ Raise
  /\ UNCHANGED <<gpu, wires, method, writer, event, received, flag>>

(* accept_registrations blocks in recv, whatever the shutdown event says.  *)
(* READY into a pipe whose reader is closed is an exception.               *)
Accept(r) ==
  /\ child = "recv" /\ r \in sent /\ sent' = sent \ {r}
  /\ received' = received \cup {r}
  /\ IF received' # Ranks THEN UNCHANGED <<child, ready>>
     ELSE IF handle = "open" THEN child' = "poll" /\ ready' = "READY"
     ELSE child' = "dead" /\ UNCHANGED ready
  /\ UNCHANGED <<gpu, method, writer, event, requests, flag>>

(* busy_loop looks at the event between two rounds only. *)
Take ==
  /\ child = "poll" /\ ~event /\ requests > 0
  /\ requests' = 0 /\ child' = "claim"
  /\ UNCHANGED <<gpu, pipes, method, event, sent, received, flag>>

ClaimOutputs ==
  /\ child = "claim" /\ \A r \in Ranks : flag[r] = "consumed"
  /\ flag' = [r \in Ranks |-> "claimed"] /\ child' = "compute"
  /\ UNCHANGED <<gpu, pipes, wires, method, event, received>>

Publish ==
  /\ child = "compute" /\ child' = "poll"
  /\ flag' = [r \in Ranks |-> "ready"]
  /\ UNCHANGED <<gpu, pipes, wires, method, event, received>>

Leave ==
  /\ child = "poll" /\ event /\ child' = "dead"
  /\ UNCHANGED <<gpu, pipes, wires, method, event, received, flag>>

(* The monitor sees the end of the death pipe when no process holds its    *)
(* write end: a forked child has inherited it.                             *)
DeathPipeClosed == handle = "closed" /\ method # "fork"
Monitor ==
  /\ ChildAlive /\ ~event /\ DeathPipeClosed /\ event' = TRUE
  /\ UNCHANGED <<gpu, pipes, wires, method, child, received, flag>>

(* A signal to the whole group of processes, as from a terminal. *)
Signalled ==
  /\ ChildAlive /\ ~event /\ event' = TRUE
  /\ UNCHANGED <<gpu, pipes, wires, method, child, received, flag>>

ChildKilled ==
  /\ ChildAlive /\ child' = "dead"
  /\ UNCHANGED <<gpu, pipes, wires, method, event, received, flag>>

-----------------------------------------------------------------------------
Main(r) ==
  \/ r = 0 /\ (Spawn \/ Started \/ WaitEnds)
  \/ r = 0 /\ (Joined \/ Terminate \/ KillChild)
  \/ Register(r) \/ Pin(r) \/ Claimed(r)
  \/ Synchronize(r) \/ StopThread(r) \/ Release(r) \/ Defer(r)
RequestThread == ThreadUp \/ GetRequest \/ Staged
Child == \/ Loaded \/ Take \/ ClaimOutputs \/ Publish \/ Leave
         \/ \E r \in Ranks : Accept(r)

(* What need not happen: engine steps, interrupts, long timeouts, faults. *)
Outside ==
  \/ StartForward \/ WaitTimeout \/ LoadFails \/ Signalled \/ ChildKilled
  \/ \E r \in Ranks : Shutdown(r) \/ PinFails(r) \/ ClaimTimeout(r) \/ Exit(r)

Next ==
  \/ \E r \in Ranks : Main(r) \/ Copy(r)
  \/ RequestThread \/ Child \/ Monitor \/ Outside

(* Every thread and stream that can go on does so at some time; a join's   *)
(* five seconds run out.                                                   *)
Fairness ==
  /\ \A r \in Ranks : WF_vars(Main(r)) /\ WF_vars(Copy(r))
  /\ WF_vars(RequestThread) /\ WF_vars(Child) /\ WF_vars(Monitor)
Spec == Init /\ [][Next]_vars /\ Fairness

-----------------------------------------------------------------------------
(* A connector that has released its buffers has no request thread left    *)
(* that could stage into them or use its ZMQ context, however close() met  *)
(* the thread (before its first request, with a full queue, in a copy),    *)
(* and no captured wait or copy of theirs is left on the rank's stream,    *)
(* nor comes later.  The child may still use the memory: it is shared, and *)
(* unregistering it takes only the device's access away.                   *)
NoUseAfterRelease ==
  \A r \in Ranks : pinned[r] = "released" => ~HasThread(r) /\ ~stream[r]

(* No request reaches the child while it waits for registrations, where    *)
(* accept_registrations would take it for one and fail: READY comes after  *)
(* the last of them, and no rank serves before READY.                      *)
OnlyRegistrations == child = "recv" => requests = 0

(* A child that is dead, at whatever point of its start, ends rank 0's     *)
(* wait for READY long before the timeout.                                 *)
DeathEndsWait ==
  (rank[0] = "wait" /\ ~ChildAlive) ~> (rank[0] # "wait")

(* Once rank 0 closes its handle the child ends: at the event, at SIGTERM  *)
(* or, blocked in recv, at SIGKILL.  And a spawned child that has its      *)
(* registrations ends even if rank 0 is killed.                            *)
ChildEnds ==
  /\ (rank[0] = "join") ~> (~ChildAlive \/ ~Alive(0))
  /\ (~Alive(0) /\ method = "spawn" /\ child \in {"poll", "claim", "compute"})
       ~> ~ChildAlive
=============================================================================
