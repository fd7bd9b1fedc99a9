---------------------------- MODULE MCPleForward ----------------------------
(***************************************************************************)
(* Configurations of the forward: drafts with decode graphs only, on the   *)
(* CPU worker; drafts with decode and piecewise graphs; no drafts.         *)
(***************************************************************************)
EXTENDS PleForward

Conf(sizes, drafts, mixed, offload) ==
    [sizes |-> sizes, maxReqs |-> 2, queryLen |-> drafts + 1, decodeLens |-> {drafts + 1},
     varlen |-> FALSE, separate |-> TRUE, decodeMode |-> "FULL", mixedMode |-> mixed,
     maxSize |-> Max(sizes), loraCases |-> {0}, offload |-> offload, drafts |-> drafts]

MCConfs == {Conf({3, 6}, 2, "NONE", TRUE), Conf({1, 2, 4}, 2, "PIECEWISE", FALSE),
            Conf({1, 2, 4}, 0, "PIECEWISE", TRUE)}

MCTotal == <<7,6>>

=============================================================================
