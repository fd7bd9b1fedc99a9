--------------------------- MODULE MCPleHandshake ---------------------------
(* Plans for the small instances: a boot of two warm-up runs and captures   *)
(* and then real steps; groups that serve from the start; the warm-up of    *)
(* several sizes, one dummy run after another (gpu_worker.py:852), which    *)
(* no run assumes: see the README.                                         *)
EXTENDS PleHandshake

BootThenServe ==
  {<<"dummy", "capture", "dummy", "capture", "real", "real", "real">>}
Serve      == {<<"real", "real">>, <<"capture", "real", "real">>}
WarmUpSizes == {<<"dummy", "dummy">>}
=============================================================================
