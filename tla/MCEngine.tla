------------------------------ MODULE MCEngine ------------------------------
(* A small engine for TLC. *)
EXTENDS Engine, TLC

CONSTANTS r1, r2

MCPrompt == (r1 :> 2) @@ (r2 :> 5)
KvPrompt == (r1 :> 2) @@ (r2 :> 3)

\* seqs is max_num_seqs, concurrent the number of batches in flight
Conf(concurrent, seqs, connector, recompute, delivery, sessions) ==
    [concurrent |-> concurrent, seqs |-> seqs, connector |-> connector,
     recompute |-> recompute, delivery |-> delivery, sessions |-> sessions]

\* synchronous with a session, with room for one or for both requests, and
\* asynchronous without one
MCConfs == {Conf(1, 1, FALSE, TRUE, FALSE, {r1}), Conf(1, 2, FALSE, TRUE, FALSE, {r1}),
            Conf(2, 2, FALSE, TRUE, FALSE, {})}

\* asynchronous with a session, which no run assumes: see the README
AsyncConfs == {Conf(2, 2, FALSE, TRUE, FALSE, {r1})}

\* with a KV connector: synchronous, recomputing what a load lost, and
\* asynchronous, failing such a request, with delivery of KV promised
KvConfs == {Conf(1, 2, TRUE, TRUE, FALSE, {}), Conf(2, 2, TRUE, FALSE, TRUE, {})}

=============================================================================
