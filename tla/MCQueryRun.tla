------------------------------ MODULE MCQueryRun -----------------------------
(* TLC instance of QueryRun: two listeners, three tokens. *)
EXTENDS QueryRun

CONSTANTS l1, l2

MCListeners == {l1, l2}
MCReenters == {l1}
===============================================================================
