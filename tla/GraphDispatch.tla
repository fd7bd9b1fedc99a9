--------------------------- MODULE GraphDispatch ---------------------------
(***************************************************************************)
(* Which shapes of a forward are captured as CUDA graphs and which graph   *)
(* runs a batch (cudagraph_utils.py, CudaGraphManager).                    *)
(*                                                                         *)
(* c is the configuration: capture sizes, most requests, query lengths of  *)
(* decode, whether decode graphs take any mix of lengths (varlen), modes   *)
(* of decode and of mixed batches, whether they are separate, the largest  *)
(* capture size and the captured numbers of adapters.  A batch has reqs,   *)
(* tokens, the token count all requests share (0: none), the most tokens   *)
(* of a request and its number of adapters.  In a descriptor 0 stands for  *)
(* no constraint.                                                          *)
(***************************************************************************)
EXTENDS Integers, FiniteSetsExt

RoundUp(n, q) == ((n + q - 1) \div q) * q

MaxDecodeTokens(c) == c.maxReqs * c.queryLen

Desc(mode, tokens, reqs, uniform, longest, loras) ==
    [mode |-> mode, tokens |-> tokens, reqs |-> reqs, uniform |-> uniform,
     longest |-> longest, loras |-> loras]

(* Decode graphs that take 1 .. queryLen tokens per request. *)
VarlenDescs(c) ==
    IF c.separate /\ c.decodeMode # "NONE" /\ c.varlen
      THEN {Desc(c.decodeMode, n, Min({n, c.maxReqs}), 0, c.queryLen, l) :
              n \in {n \in c.sizes : n <= MaxDecodeTokens(c)}, l \in c.loraCases}
      ELSE {}

(* Decode graphs of one query length, each size rounded up to whole        *)
(* requests.                                                               *)
UniformDescs_AnySize(c) ==
    IF c.separate /\ c.decodeMode # "NONE" /\ ~c.varlen
      THEN {d \in {Desc(c.decodeMode, RoundUp(n, q), RoundUp(n, q) \div q, q, 0, l) :
                     n \in c.sizes, q \in c.decodeLens, l \in c.loraCases} :
              /\ d.tokens <= MaxDecodeTokens(c)
              /\ d.reqs <= c.maxReqs}
      ELSE {}
UniformDescs(c) ==
    IF c.separate /\ c.decodeMode # "NONE" /\ ~c.varlen
      THEN {d \in {Desc(c.decodeMode, RoundUp(n, q), RoundUp(n, q) \div q, q, 0, l) :
                     n \in c.sizes, q \in c.decodeLens, l \in c.loraCases} :
              /\ d.tokens <= MaxDecodeTokens(c)
              /\ d.tokens <= c.maxSize
              /\ d.reqs <= c.maxReqs}
      ELSE {}

DecodeDescs(c) == VarlenDescs(c) \cup UniformDescs(c)

\* A full graph is captured for as many requests as can share the tokens.
MixedReqs(c, n) == IF c.mixedMode = "FULL" THEN Min({n, c.maxReqs}) ELSE 0

MixedDescs(c) ==
    IF c.mixedMode # "NONE"
      THEN {Desc(c.mixedMode, n, MixedReqs(c, n), 0, 0, l) : n \in c.sizes, l \in c.loraCases}
      ELSE {}

CaptureDescs(c) == DecodeDescs(c) \cup MixedDescs(c)

(* The next shapes to capture of those left: piecewise ones first, then    *)
(* full ones, each from the largest to the smallest.                       *)
NextToCapture(left) ==
    LET piecewise == {d \in left : d.mode = "PIECEWISE"}
        group == IF piecewise # {} THEN piecewise ELSE left
    IN  {d \in group : \A e \in group : e.tokens <= d.tokens}

-----------------------------------------------------------------------------
Compatible(d, b, loras) ==
    /\ d.uniform = 0 \/ d.uniform = b.uniform
    /\ d.longest = 0 \/ (b.longest # 0 /\ d.longest >= b.longest)
    /\ d.reqs = 0 \/ d.reqs >= b.reqs
    /\ d.tokens >= b.tokens
    /\ d.loras = loras

(* The smallest captured number of adapters that serves n, the largest     *)
(* where there is none.                                                    *)
EffectiveLoras(c, n) ==
    LET cases == {l \in c.loraCases : l > 0}
        enough == {l \in cases : l >= n}
    IN  IF n <= 0 \/ cases = {} THEN n
        ELSE IF enough # {} THEN Min(enough) ELSE Max(cases)

(* Only the shapes of the smallest token count that holds the batch are    *)
(* candidates.  descs are the shapes of the manager, CaptureDescs.         *)
Candidates(descs, b, loras) ==
    {d \in descs :
       /\ d.loras = loras
       /\ b.tokens <= d.tokens
       /\ \A e \in descs : b.tokens <= e.tokens => d.tokens <= e.tokens}

\* captured for decode alone
DecodeOnly(d) == d.uniform # 0 \/ d.longest # 0

(* Of the candidates decode graphs come before mixed ones; without one the *)
(* batch runs as it is.                                                    *)
Dispatch(c, descs, captured, b) ==
    LET loras == EffectiveLoras(c, b.loras)
        fitting == IF captured /\ b.tokens > 0
                     THEN {d \in Candidates(descs, b, loras) : Compatible(d, b, loras)}
                     ELSE {}
        decode == {d \in fitting : DecodeOnly(d)}
    IN  IF decode # {} THEN decode
        ELSE IF fitting # {} THEN fitting
        ELSE {Desc("NONE", b.tokens, b.reqs, 0, 0, loras)}

=============================================================================
