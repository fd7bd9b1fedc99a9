------------------------- MODULE PleLifecycleProofs -------------------------
(***************************************************************************)
(* Proofs about the life of the PLE CPU worker, for any number of GPU      *)
(* workers and of engine steps, however kills, signals, timeouts and       *)
(* failures fall.  Fairness plays no part: these are safety properties.    *)
(***************************************************************************)
EXTENDS PleLifecycle, TLAPS

(* What EXCEPT and Tail need to know.                                       *)
Messages == {"request", "stop"}

Shape ==
  /\ DOMAIN rank = Ranks /\ DOMAIN pinned = Ranks /\ DOMAIN stream = Ranks
  /\ queue \in Seq(Messages)

(* A rank on its way to its registration has no buffers yet; only then may *)
(* the request thread be started.                                          *)
BeforeThread == {"new", "load", "pin"}

ReleasedForGood ==
  /\ rank[0] \in BeforeThread => pinned[0] = "no" /\ thread = "none"
  /\ pinned[0] = "released" => ~ThreadAlive

(* A stream has something to wait for only while its rank serves, and until *)
(* its device was waited for; a rank that has released its buffers has gone *)
(* past that, and never serves again.                                       *)
Busy      == {"ready", "join", "terminate", "sync"}
Unserving == {"raised", "join", "terminate", "sync", "stop", "release", "undo",
              "unpin", "closed", "gone"}

StreamsDrain ==
  \A r \in Ranks :
    /\ stream[r] => rank[r] \in Busy
    /\ pinned[r] = "released" => rank[r] \in Unserving /\ ~stream[r]

(* A child that is not ready has been sent nothing, and nothing is on the  *)
(* way to it: no rank serves, no request is queued or staged.              *)
NotReady == child \in {"none", "load", "recv"}

OnlyStops(q) == \A k \in DOMAIN q : q[k] = "stop"

Quiet ==
  /\ ready # "READY"
  /\ rank[0] \notin {"ready", "claim"}
  /\ OnlyStops(queue)
  /\ thread # "stage" /\ requests = 0

ServesWhenReady ==
  /\ rank[0] = "new" => child = "none"
  /\ NotReady => Quiet

IInv == Shape /\ ReleasedForGood /\ StreamsDrain /\ ServesWhenReady

USE LifecycleAssumption

-----------------------------------------------------------------------------
LEMMA RankZero == 0 \in Ranks
BY DEF Ranks

(* Queues: what an append and a removal leave.                              *)
LEMMA QueueSteps ==
  /\ <<>> \in Seq(Messages) /\ OnlyStops(<<>>)
  /\ <<"stop">> \in Seq(Messages) /\ OnlyStops(<<"stop">>)
  /\ \A q \in Seq(Messages) :
       /\ Append(q, "request") \in Seq(Messages)
       /\ q # <<>> => /\ Tail(q) \in Seq(Messages)
                      /\ OnlyStops(q) => OnlyStops(Tail(q)) /\ Head(q) = "stop"
<1>1. "request" \in Messages /\ "stop" \in Messages
  BY DEF Messages
<1>2. ASSUME NEW q \in Seq(Messages)
      PROVE  Append(q, "request") \in Seq(Messages)
  BY <1>1
<1>3. ASSUME NEW q \in Seq(Messages), q # <<>>
      PROVE  /\ Tail(q) \in Seq(Messages)
             /\ OnlyStops(q) => OnlyStops(Tail(q)) /\ Head(q) = "stop"
  BY <1>3 DEF OnlyStops
<1>4. <<>> \in Seq(Messages) /\ <<"stop">> \in Seq(Messages)
  BY <1>1
<1>5. OnlyStops(<<>>) /\ OnlyStops(<<"stop">>)
  BY DEF OnlyStops
<1> QED BY <1>2, <1>3, <1>4, <1>5

LEMMA InitInv == Init => IInv
<1> SUFFICES ASSUME Init PROVE IInv
  OBVIOUS
<1>1. Shape
  BY QueueSteps DEF Init, Shape
<1>2. ReleasedForGood
  BY RankZero DEF Init, ReleasedForGood, BeforeThread, ThreadAlive
<1>3. ServesWhenReady
  BY RankZero, QueueSteps DEF Init, ServesWhenReady, NotReady, Quiet
<1>4. StreamsDrain
  BY DEF Init, StreamsDrain
<1> QED BY <1>1, <1>2, <1>3, <1>4 DEF IInv

-----------------------------------------------------------------------------
(* One lemma for each actor: the request thread stays over once the        *)
(* buffers are released, and nothing is sent before READY.                 *)
LEMMA MainKeepsInv ==
  ASSUME IInv, NEW r \in Ranks, Main(r)
  PROVE  IInv'
<1> USE RankZero DEF IInv, Shape, ReleasedForGood, ServesWhenReady, StreamsDrain,
        Busy, Unserving, BeforeThread,
        NotReady, Quiet, ThreadAlive, Goto, held, threads, gpu, pipes, offload, wires,
        others
<1>1. CASE r = 0 /\ Spawn
  BY <1>1 DEF Spawn
<1>2. CASE r = 0 /\ Started
  BY <1>2 DEF Started
<1>3. CASE r = 0 /\ WaitEnds
  BY <1>3 DEF WaitEnds
<1>4. CASE r = 0 /\ (Joined \/ Terminate)
  BY <1>4 DEF Joined, Terminate
<1>5. CASE r = 0 /\ KillChild
  BY <1>5 DEF KillChild, AfterTerminate
<1>6. CASE Register(r)
  BY <1>6 DEF Register
<1>7. CASE Pin(r)
  BY <1>7 DEF Pin
<1>8. CASE Claimed(r) \/ Synchronize(r)
  BY <1>8 DEF Claimed, Synchronize, DeviceIdle
<1>9. CASE StopThread(r)
  <2>1. queue' = queue \/ queue' = <<"stop">>
    BY <1>9 DEF StopThread
  <2>2. queue' \in Seq(Messages) /\ (OnlyStops(queue) => OnlyStops(queue'))
    BY <2>1, QueueSteps
  <2> QED BY <1>9, <2>2 DEF StopThread
<1>10. CASE Release(r) \/ Defer(r)
  BY <1>10 DEF Release, Defer, MayRelease, HasThread, AfterClose
<1> QED BY <1>1, <1>2, <1>3, <1>4, <1>5, <1>6, <1>7, <1>8, <1>9, <1>10 DEF Main

LEMMA ThreadKeepsInv ==
  ASSUME IInv, RequestThread
  PROVE  IInv'
<1> USE RankZero DEF IInv, Shape, ReleasedForGood, ServesWhenReady, StreamsDrain,
        Busy, Unserving, BeforeThread,
        NotReady, Quiet, ThreadAlive, held, pipes, offload, wires
<1>1. CASE ThreadUp
  BY <1>1 DEF ThreadUp
<1>2. CASE GetRequest
  <2>1. /\ queue' \in Seq(Messages)
        /\ OnlyStops(queue) => OnlyStops(queue') /\ Head(queue) = "stop"
    BY <1>2, QueueSteps DEF GetRequest
  <2> QED BY <1>2, <2>1 DEF GetRequest
<1>3. CASE Staged
  BY <1>3 DEF Staged
<1> QED BY <1>1, <1>2, <1>3 DEF RequestThread

LEMMA ChildKeepsInv ==
  ASSUME IInv, Child \/ Monitor
  PROVE  IInv'
<1> USE DEF IInv, Shape, ReleasedForGood, ServesWhenReady, StreamsDrain,
        Busy, Unserving, BeforeThread,
        NotReady, Quiet, ThreadAlive, gpu, held, threads, pipes, wires
<1>1. ASSUME NEW r \in Ranks, Accept(r) PROVE IInv'
  BY <1>1 DEF Accept
<1>2. CASE Loaded \/ Take \/ Leave
  BY <1>2 DEF Loaded, Take, Leave
<1>3. CASE ClaimOutputs \/ Publish
  BY <1>3 DEF ClaimOutputs, Publish
<1>4. CASE Monitor
  BY <1>4 DEF Monitor
<1> QED BY <1>1, <1>2, <1>3, <1>4 DEF Child

LEMMA OutsideKeepsInv ==
  ASSUME IInv, Outside
  PROVE  IInv'
<1> USE RankZero DEF IInv, Shape, ReleasedForGood, ServesWhenReady, StreamsDrain,
        Busy, Unserving, BeforeThread,
        NotReady, Quiet, ThreadAlive, Goto, held, threads, gpu, pipes, offload, wires,
        others
<1>1. CASE StartForward
  <2>1. queue' \in Seq(Messages) /\ rank[0] = "ready"
    BY <1>1, QueueSteps DEF StartForward
  <2> QED BY <1>1, <2>1 DEF StartForward
<1>2. CASE WaitTimeout
  BY <1>2 DEF WaitTimeout, AfterReadyTimeout
<1>3. CASE LoadFails \/ Signalled \/ ChildKilled
  BY <1>3 DEF LoadFails, Signalled, ChildKilled, Raise, ChildAlive
<1>4. ASSUME NEW r \in Ranks, Shutdown(r) PROVE IInv'
  BY <1>4 DEF Shutdown
<1>5. ASSUME NEW r \in Ranks, PinFails(r) PROVE IInv'
  BY <1>5 DEF PinFails
<1>6. ASSUME NEW r \in Ranks, ClaimTimeout(r) PROVE IInv'
  BY <1>6 DEF ClaimTimeout
<1>7. ASSUME NEW r \in Ranks, Exit(r) PROVE IInv'
  BY <1>7, QueueSteps DEF Exit, Alive
<1> QED BY <1>1, <1>2, <1>3, <1>4, <1>5, <1>6, <1>7 DEF Outside

LEMMA StepInv == IInv /\ [Next]_vars => IInv'
<1> SUFFICES ASSUME IInv, [Next]_vars PROVE IInv'
  OBVIOUS
<1>1. CASE UNCHANGED vars
  BY <1>1 DEF vars, gpu, held, threads, pipes, offload, wires, IInv, Shape,
     ReleasedForGood, StreamsDrain, Busy, Unserving, ServesWhenReady, NotReady,
     Quiet, ThreadAlive
<1>2. ASSUME NEW r \in Ranks, Copy(r) PROVE IInv'
  BY <1>2 DEF Copy, held, threads, pipes, offload, wires, IInv, Shape,
     ReleasedForGood, StreamsDrain, Busy, Unserving, ServesWhenReady, NotReady,
     Quiet, ThreadAlive
<1> QED BY <1>1, <1>2, MainKeepsInv, ThreadKeepsInv, ChildKeepsInv, OutsideKeepsInv
        DEF Next

-----------------------------------------------------------------------------
(* However close() meets the request thread, in start-up, with a full      *)
(* queue or in the middle of a copy, and whatever interrupts it: a rank    *)
(* whose buffers are released has no thread left that could use them, and  *)
(* nothing of a forward is left on its stream.                             *)
THEOREM NothingUsesReleasedBuffers == Spec => []NoUseAfterRelease
<1>1. IInv => NoUseAfterRelease
  BY DEF IInv, ReleasedForGood, StreamsDrain, NoUseAfterRelease, HasThread
<1> QED BY <1>1, InitInv, StepInv, PTL DEF Spec

(* accept_registrations meets nothing but registrations: with any number   *)
(* of ranks, no forward request reaches the child before the last of them. *)
THEOREM RegistrationsComeFirst == Spec => []OnlyRegistrations
<1>1. IInv => OnlyRegistrations
  BY DEF IInv, ServesWhenReady, NotReady, Quiet, OnlyRegistrations
<1> QED BY <1>1, InitInv, StepInv, PTL DEF Spec
=============================================================================
