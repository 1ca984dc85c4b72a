------------------------------ MODULE MCReconnect ------------------------------
(* TLC instances of Reconnect: their cfgs give the numbers and the flags.    *)
EXTENDS Reconnect
================================================================================
