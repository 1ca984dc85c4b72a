----------------------------- MODULE MCAuthFlight -----------------------------
(* TLC instance of AuthFlight: two calls and a login. *)
EXTENDS AuthFlight, TLC

CONSTANTS a, b, login

None == {}
MCCalls == {a, b, login}
===============================================================================
