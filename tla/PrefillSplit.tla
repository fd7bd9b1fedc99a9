---------------------------- MODULE PrefillSplit ----------------------------
(***************************************************************************)
(* Where the scheduler may end a prefill chunk (scheduler.py):             *)
(* _mamba_block_aligned_split clips a chunk so that the recurrent state is *)
(* saved at a block boundary, _reserve_prefill_lookahead keeps the end of  *)
(* a chunk away from the end of the prefill when the drafter reads ahead.  *)
(*                                                                         *)
(* c is the configuration: block and hash block sizes, whether a partial   *)
(* tail may hit the cache, whether the drafter is of the Eagle family, the *)
(* most tokens of a step, the long prefill threshold (0: none) and the     *)
(* lookahead of the drafter.  q is the request: prompt, tokens and the     *)
(* shared prefix junction (0: none).                                       *)
(***************************************************************************)
EXTENDS Integers, FiniteSetsExt

FloorTo(n, size) == (n \div size) * size

(* Only a prefill is split; a resumed request replays its output as one. *)
PrefillEnd(q) == Max({q.prompt, q.tokens - 1})

(* The last block boundary whose state can be cached; an Eagle drafter     *)
(* prunes one matching block.                                              *)
LastCachePosition(c, q) ==
    LET last == FloorTo(q.tokens, c.block)
    IN  IF c.eagle THEN Max({last - c.block, 0}) ELSE last

(* The longest chunk a step could ever give: a block wider than this is    *)
(* crossed in several chunks.                                              *)
WidestChunk(c) == IF c.long > 0 THEN Min({c.maxTokens, c.long}) ELSE c.maxTokens

(* The end of the chunk before the mandatory stops. *)
AlignedEnd(c, q, start, n) ==
    LET end == start + n
        aligned == FloorTo(end, c.block)
    IN  IF end < PrefillEnd(q) /\ (aligned > start \/ c.block <= WidestChunk(c))
          THEN aligned
          ELSE end

(* The positions a chunk may not run past: the next boundary when it       *)
(* starts inside a block, the last cacheable boundary, the partial tail of *)
(* the prompt and the junction with a shared prefix.                       *)
Stops(c, q, start, end) ==
    LET last == LastCachePosition(c, q)
        tail == IF c.partial THEN FloorTo(q.prompt, c.hash) ELSE 0
    IN  (IF start % c.block # 0 THEN {FloorTo(start, c.block) + c.block} ELSE {})
        \cup {last}
        \cup (IF last < tail /\ tail < q.prompt THEN {tail} ELSE {})
        \cup (IF start < q.shared /\ q.shared < end
                THEN {start + FloorTo(q.shared - start, c.block)} ELSE {})

MambaBlockAlignedSplit(c, q, start, n) ==
    IF start >= PrefillEnd(q)
      THEN n
      ELSE LET end == AlignedEnd(c, q, start, n)
               inside == {s \in Stops(c, q, start, end) : start < s /\ s < end}
           IN  Max({(IF inside = {} THEN end ELSE Min(inside)) - start, 0})

ReserveLookahead(c, q, computed, n) ==
    LET remaining == q.tokens - computed - n
    IN  Max({IF 0 < remaining /\ remaining < c.lookahead
               THEN n - (c.lookahead - remaining) ELSE n, 0})

=============================================================================
