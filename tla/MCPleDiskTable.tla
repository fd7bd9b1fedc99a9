--------------------------- MODULE MCPleDiskTable ---------------------------
(* Two shards, in checkpoint directories that hold them both and in others. *)
EXTENDS PleDiskTable

CONSTANTS s1, s2

TwoShards == {s1, s2}
AllShards == {TwoShards}
\* what no run assumes: see the README
AnyShards == SUBSET TwoShards
=============================================================================
