----------------------------- MODULE PleForward -----------------------------
(***************************************************************************)
(* What a PLE layer is given in a forward of the model runner: the batch   *)
(* is put in order and padded to the CUDA graph that takes it, each of its *)
(* tokens gets its n-gram (NgramIds) and the inputs of its short           *)
(* convolution (ShortConv), and the tokens the request keeps are decided   *)
(* after the forward.  A forward replayed from a full graph reads its      *)
(* metadata where the capture read them.                                   *)
(*                                                                         *)
(* Tokens are numbers.  The input of a convolution at a position depends   *)
(* on the text up to it: it stands for itself as the request followed by   *)
(* that text.  Zero is a row never written.                                *)
(*                                                                         *)
(* A request starts at 0 computed tokens and keeps one row: sessions that  *)
(* go on and hits in the prefix cache, whose state is found elsewhere, and *)
(* the move of a state over block boundaries (preprocess_state, outside    *)
(* the repository) are left out.                                           *)
(***************************************************************************)
EXTENDS GraphDispatch, NgramIds, ShortConv

CONSTANTS Requests,      \* a finite set of numbers
          MaxText,       \* bound: length of a text
          MaxTotal,      \* bound: MaxTotal[n], length of the texts of n requests together
          MaxEos,        \* bound: end-of-sequence tokens in a text
          MaxPrompt,     \* bound: length of a prompt
          MaxWidth,      \* tokens of a batch, max_num_batched_tokens
          Confs          \* the configurations: see GraphDispatch; offload, drafts

Configs ==
    [sizes : SUBSET (Nat \ {0}), maxReqs : Nat \ {0}, queryLen : Nat \ {0},
     decodeLens : SUBSET (Nat \ {0}), varlen : BOOLEAN, separate : BOOLEAN,
     decodeMode : {"NONE", "PIECEWISE", "FULL"}, mixedMode : {"NONE", "PIECEWISE", "FULL"},
     maxSize : Nat, loraCases : SUBSET Nat, offload : BOOLEAN, drafts : Nat]

(* What vLLM's configuration sees to: the largest capture size is one of   *)
(* them and no larger than a batch, and decode graphs of their own are     *)
(* full graphs, piecewise ones at most beside them.                        *)
Consistent(c) ==
    /\ c.sizes # {} => c.maxSize \in c.sizes
    /\ \A n \in c.sizes : n <= c.maxSize
    /\ c.maxSize <= MaxWidth
    /\ c.loraCases # {}
    /\ c.separate => c.decodeMode = "FULL" /\ c.mixedMode # "FULL"

ASSUME ForwardAssumption ==
    /\ Requests \subseteq Nat /\ IsFiniteSet(Requests)
    /\ MaxText \in Nat /\ MaxPrompt \in 0 .. MaxText /\ MaxWidth \in Nat \ {0}
    /\ \A c \in Confs : c \in Configs /\ Consistent(c)

Words == {0, Eos}
Junk  == 2                \* what padding leaves in input_ids

VARIABLES
    conf,
    descs,     \* _capture_descs
    left,      \* those not captured yet
    graphs,    \* CudaGraphManager.graphs
    hidden,    \* rows of hidden_states, 0 before it is allocated
    captured,  \* _graphs_captured
    req,       \* per request: text, prompt, computed, accepted, slot
    conv,      \* conv_state
    staged,    \* the rows of conv_state a full graph reads: state_indices
    shown,     \* the tokens of the last forward, with what the layer got
    failed     \* an assertion failed

vars == <<conf, descs, left, graphs, hidden, captured, req, conv, staged, shown, failed>>

NoRequest == [text |-> <<>>, prompt |-> 0, computed |-> 0, accepted |-> 1, slot |-> NullSlot]
Slots == NullSlot .. Cardinality(Requests)
Live  == {r \in Requests : req[r].prompt > 0}
Width == conf.drafts + 1
Prefilling(r) == req[r].computed < req[r].prompt

Bounded(text) == Cardinality({i \in DOMAIN text : text[i] = Eos}) <= MaxEos
Total == MapThenSumSet(LAMBDA r : Len(req[r].text), Requests)

Init ==
    /\ conf \in Confs
    /\ descs = CaptureDescs(conf)
    /\ left = descs
    /\ graphs = {}
    /\ hidden = 0
    /\ captured = FALSE
    /\ req = [r \in Requests |-> NoRequest]
    /\ conv = [s \in Slots |-> Zeros(StateLen + conf.drafts)]
    /\ staged = [i \in 1 .. conf.maxReqs |-> NullSlot]
    /\ shown = {}
    /\ failed = FALSE

-----------------------------------------------------------------------------
(* A padding row of a batch *)
NullRow == [slot |-> NullSlot, initial |-> FALSE, accepted |-> 1, count |-> 0,
            kind |-> IF Width > 1 THEN "spec" ELSE "decode"]

\* A full graph has its metadata put where it was captured.
Staged(desc, rows) ==
    [i \in DOMAIN staged |->
       IF desc.mode = "FULL" /\ i <= Len(rows) THEN rows[i].slot ELSE staged[i]]

\* The first forward allocates the buffer of hidden states.
HiddenRows(d) == IF hidden = 0 THEN d.tokens ELSE hidden

(* The warm-up of a shape runs without a graph and keeps its hidden        *)
(* states; then the shape is recorded.  Piecewise graphs live in the       *)
(* compiled model.                                                         *)
CaptureGraph ==
    /\ ~captured
    /\ \E d \in NextToCapture(left) :
         /\ hidden' = HiddenRows(d)
         /\ failed' = (failed \/ d.tokens > HiddenRows(d) \/ d \in graphs)
         /\ graphs' = IF d.mode = "FULL" THEN graphs \cup {d} ELSE graphs
         /\ staged' = Staged(d, [i \in 1 .. d.reqs |-> NullRow])
         /\ left' = left \ {d}
    /\ UNCHANGED <<conf, descs, captured, req, conv, shown>>

CaptureDone ==
    /\ ~captured /\ left = {}
    /\ captured' = TRUE
    /\ UNCHANGED <<conf, descs, left, graphs, hidden, req, conv, staged, shown, failed>>

\* The lowest identifier and the lowest row that are free: others look alike.
Add(r) ==
    /\ captured
    /\ Live # Requests /\ r = Min(Requests \ Live)
    /\ \E n \in {n \in 1 .. MaxPrompt : Total + n < MaxTotal[Cardinality(Live) + 1]} :
       \E text \in {t \in [1 .. n -> Words] : Bounded(t)} :
         req' = [req EXCEPT ![r] =
                   [text |-> text, prompt |-> n, computed |-> 0, accepted |-> 1,
                    slot |-> Min(Slots \ ({NullSlot} \cup {req[q].slot : q \in Live}))]]
    /\ shown' = {}
    /\ UNCHANGED <<conf, descs, left, graphs, hidden, captured, conv, staged, failed>>

\* Its row of the cache stays as it is; as the inputs in it are now those of
\* nobody, Junk stands for them all.
Finish(r) ==
    /\ r \in Live
    /\ req' = [req EXCEPT ![r] = NoRequest]
    /\ conv' = [conv EXCEPT ![req[r].slot] = [i \in DOMAIN @ |-> <<Junk>>]]
    /\ shown' = {}
    /\ UNCHANGED <<conf, descs, left, graphs, hidden, captured, staged, failed>>

-----------------------------------------------------------------------------
(* A forward.  work[r] is what the scheduler gives request r: drafts, and  *)
(* how many tokens with them.                                              *)
Numbers == UNION {1 .. c.drafts : c \in Confs}
Drafts  == UNION {[1 .. n -> Words] : n \in Numbers}
Works   == [count : 1 .. MaxPrompt, drafts : {<<>>}]
             \cup {[count |-> Len(d) + 1, drafts |-> d] : d \in Drafts}

Suits(w, r) ==
    IF Prefilling(r) THEN w.drafts = <<>> /\ w.count <= req[r].prompt - req[r].computed
    ELSE w.count = Len(w.drafts) + 1 /\ w.count <= Width

Completes(r, w) == req[r].computed + w.count >= req[r].prompt

Drafted(work) == \E r \in DOMAIN work : work[r].drafts # <<>>

\* Verifications come first, then the usual decode length, then by length.
Before(q, r, work) ==
    LET Key(x) == <<IF work[x].drafts = <<>> THEN 1 ELSE 0,
                    IF work[x].count = Width THEN 0 ELSE 1, work[x].count, x>>
    IN  \E i \in 1 .. 4 : /\ Key(q)[i] < Key(r)[i]
                          /\ \A j \in 1 .. i - 1 : Key(q)[j] = Key(r)[j]

BatchOrder(work) ==
    [i \in 1 .. Cardinality(DOMAIN work) |->
       CHOOSE r \in DOMAIN work : Cardinality({q \in DOMAIN work : Before(q, r, work)}) = i - 1]

\* what request r is known to have said once the forward has its tokens
Fed(r, w) == SubSeq(req[r].text, 1, req[r].computed + w.count - Len(w.drafts)) \o w.drafts

(* query_start_loc: where the requests' tokens start in the batch, and     *)
(* after them the end of the last one for every empty row.                 *)
Starts(order, work) ==
    LET start[i \in 0 .. Len(order)] ==
          IF i = 0 THEN 0 ELSE start[i - 1] + work[order[i]].count
    IN  start

Padded(starts, n, rows) == [i \in 0 .. rows |-> IF i <= n THEN starts[i] ELSE starts[n]]

Tokens(work) == Starts(BatchOrder(work), work)[Cardinality(DOMAIN work)]

(* A decode in a batch without drafts reads its state at the first entry:  *)
(* it is assumed that the step before it accepted no draft.                *)
Schedulable(work) ==
    LET Longest(r) == Len(work[r].drafts) + IF Completes(r, work[r]) THEN 1 ELSE 0
    IN  /\ \A r \in DOMAIN work : Suits(work[r], r)
        /\ ~Drafted(work) => \A r \in DOMAIN work : Prefilling(r) \/ req[r].accepted <= 1
        /\ \A r \in DOMAIN work : Len(req[r].text) + Longest(r) <= MaxText
        /\ Total + MapThenSumSet(Longest, DOMAIN work) <= MaxTotal[Cardinality(Live)]
        /\ Tokens(work) <= MaxWidth

(* The batch as the graphs are asked for it; 0 where its requests do not   *)
(* have one decode length in common.                                       *)
Batch(work) ==
    LET counts == {work[r].count : r \in DOMAIN work}
    IN  [reqs |-> Cardinality(DOMAIN work), tokens |-> Tokens(work),
         longest |-> Max(counts), loras |-> 0,
         uniform |-> IF Cardinality(counts) = 1 /\ \A r \in DOMAIN work : ~Prefilling(r)
                       THEN Max(counts) ELSE 0]

(* The metadata of the short convolution.  Requests that verify drafts are *)
(* told from the others; of these the leading ones with one token decode.  *)
Metadata(order, work, rows) ==
    LET Verifies(r) == Drafted(work) /\ ~Prefilling(r)
    IN  [i \in 1 .. rows |->
           IF i > Len(order) THEN NullRow
           ELSE LET r == order[i] IN
                [slot |-> req[r].slot, initial |-> req[r].computed > 0,
                 accepted |-> req[r].accepted, count |-> work[r].count,
                 kind |-> IF Verifies(r) THEN "spec"
                          ELSE IF \A j \in 1 .. i : Verifies(order[j]) \/ work[order[j]].count = 1
                                 THEN "decode" ELSE "prefill"]]

(* What the rows of the convolution read and leave, given where they start *)
(* and the inputs of the tokens in a line.                                 *)
Convolved(rows, starts, inputs) ==
    [i \in DOMAIN rows |->
       LET row == rows[i]
           to  == starts[i - 1] + IF row.kind = "decode" THEN 1 ELSE row.count
       IN  RowResult(row, conv[row.slot], SubSeq(inputs, starts[i - 1] + 1, to), Width)]

\* The inputs of the convolution, padded to n.
Inputs(order, work, starts, n) ==
    [p \in 1 .. n |->
       IF p > starts[Len(order)] THEN <<Junk>>
       ELSE LET i == CHOOSE i \in DOMAIN order : p \in starts[i - 1] + 1 .. starts[i]
                r == order[i]
            IN  <<r>> \o SubSeq(Fed(r, work[r]), 1, req[r].computed + p - starts[i - 1])]

LastOf(input) == input[Len(input)]

\* what the layer finds once the slots are staged
Read(desc, rows) ==
    IF desc.mode = "FULL" THEN [i \in DOMAIN rows |-> [rows[i] EXCEPT !.slot = staged'[i]]]
                          ELSE rows

(* The layer sees the batch padded to desc; a full graph reads what was    *)
(* staged for it.                                                          *)
Forward(desc, order, work) ==
    LET reqs    == Len(order)
        rows    == IF desc.reqs = 0 THEN reqs ELSE desc.reqs
        meta    == Metadata(order, work, rows)
        starts  == Starts(order, work)
        inputs  == Inputs(order, work, starts, desc.tokens)
        read    == Read(desc, meta)
        results == Convolved(read, Padded(starts, reqs, rows), inputs)
        known   == IF conf.offload THEN reqs ELSE rows
        ids     == [p \in 0 .. desc.tokens - 1 |-> LastOf(inputs[p + 1])]
        context == [i \in 0 .. known - 1 |->
                      IF i < reqs THEN Context(req[order[i + 1]].text, req[order[i + 1]].computed)
                                  ELSE [k \in 1 .. ContextLen |-> Eos]]
    IN  /\ staged' = Staged(desc, meta)
        /\ conv' = WriteBack(conv, read, results)
        /\ failed' = (failed \/ (desc.mode = "FULL" /\ (desc \notin graphs \/ desc.tokens > hidden)))
        /\ shown' = UNION {
             {[req |-> order[i],
               text |-> SubSeq(Fed(order[i], work[order[i]]), 1, req[order[i]].computed + k),
               window |-> results[i].outputs[k],
               gram |-> GramAt(conf.offload, Padded(starts, reqs, known), known, ids, desc.tokens,
                               MaxWidth, context, starts[i - 1] + k - 1)] :
                k \in 1 .. work[order[i]].count} : i \in 1 .. reqs}

(* After the forward a prompt goes on, or gets its first token when it is  *)
(* done; of the drafts some are accepted, and another token follows them.  *)
Endings == [kept : {0} \cup Numbers, next : {<<>>} \cup [1 .. 1 -> Words]]

Ends(end, r, w) ==
    /\ end.kept <= Len(w.drafts)
    /\ IF Completes(r, w) THEN end.next # <<>> ELSE end.next = <<>>
    /\ end.kept < Len(w.drafts) => end.next[1] # w.drafts[end.kept + 1]

After(r, w, end) ==
    [req[r] EXCEPT !.text = @ \o SubSeq(w.drafts, 1, end.kept) \o end.next,
                   !.computed = @ + w.count - Len(w.drafts) + end.kept,
                   !.accepted = end.kept + 1]

Step ==
    /\ captured
    /\ \E batch \in (SUBSET Live) \ {{}} : \E work \in [batch -> Works] :
         /\ Schedulable(work)
         /\ \E desc \in Dispatch(conf, descs, captured, Batch(work)) :
              Forward(desc, BatchOrder(work), work)
         /\ \E end \in [batch -> Endings] :
              /\ \A r \in batch : Ends(end[r], r, work[r])
              /\ req' = [r \in Requests |-> IF r \in batch THEN After(r, work[r], end[r]) ELSE req[r]]
              /\ \A r \in batch : Bounded(req'[r].text)
    /\ UNCHANGED <<conf, descs, left, graphs, hidden, captured>>

DummyStaged_Kept(desc, rows) == staged
DummyStaged(desc, rows) == Staged(desc, rows)

(* A dummy batch of a data-parallel rank without work: n requests of one   *)
(* decode length, on rows of the null slot.  Such a row takes no state and *)
(* leaves none, whatever its length.                                       *)
DummyRun ==
    /\ captured
    /\ \E n \in 1 .. conf.maxReqs, q \in {1, Width} :
         \E desc \in Dispatch(conf, descs, captured,
                      [reqs |-> n, tokens |-> n * q, uniform |-> q, longest |-> q, loras |-> 0]) :
           LET rows == [i \in 1 .. IF desc.reqs = 0 THEN n ELSE desc.reqs |-> NullRow]
               read == Read(desc, rows)
           IN  /\ staged' = DummyStaged(desc, rows)
               /\ conv' = WriteBack(conv, read,
                            Convolved(read, [i \in 0 .. Len(rows) |-> 0],
                                      [i \in 1 .. desc.tokens |-> <<Junk>>]))
               /\ failed' = (failed \/ (desc.mode = "FULL" /\ desc \notin graphs))
    /\ shown' = {}
    /\ UNCHANGED <<conf, descs, left, graphs, hidden, captured, req>>

Next ==
    \/ CaptureGraph \/ CaptureDone
    \/ \E r \in Requests : Add(r) \/ Finish(r)
    \/ Step
    \/ DummyRun

Spec == Init /\ [][Next]_vars

-----------------------------------------------------------------------------
TypeOK ==
    /\ conf \in Confs
    /\ left \subseteq descs
    /\ graphs \subseteq descs
    /\ hidden \in 0 .. conf.maxSize
    /\ captured \in BOOLEAN
    /\ \A r \in Requests :
         /\ Len(req[r].text) <= MaxText
         /\ req[r].computed <= Len(req[r].text)
         /\ req[r].accepted \in 1 .. Width
         /\ req[r].slot \in Slots
    /\ \A s \in Slots : Len(conv[s]) = StateLen + conf.drafts
    /\ failed \in BOOLEAN

(* The short convolution sees history: every token's output is computed    *)
(* from the StateLen inputs before it in its own request, zeros before its *)
(* start, whatever drafts were rejected, whichever graph ran, whoever had  *)
(* the row of the cache before (ple_layer.py, _short_conv_dilated_         *)
(* dispatch).                                                              *)
WindowsAreHistory ==
    \A t \in shown :
      t.window = [i \in 1 .. StateLen + 1 |->
                    LET p == Len(t.text) - StateLen - 1 + i
                    IN  IF p >= 1 THEN <<t.req>> \o SubSeq(t.text, 1, p) ELSE Zero]

(* The layer looks up the n-grams of the text: chunks, padding, neighbours *)
(* in the batch and rejected drafts leave no trace (ple_layer.py,          *)
(* forward_impl; model_state.py, _prepare_ngram_context).                  *)
GramsAreHistory == \A t \in shown : t.gram = WholeGram(t.text, Len(t.text))

(* No shape is captured twice, the buffer of hidden states holds every     *)
(* captured shape, and a shape that is chosen was captured                 *)
(* (cudagraph_utils.py, the assertions of capture and run_fullgraph).      *)
NothingFails == ~failed

=============================================================================
