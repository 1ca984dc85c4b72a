----------------------------- MODULE MCDownloads ------------------------------
(* TLC instance of Downloads: three items, two of them of one key. *)
EXTENDS Downloads

CONSTANTS x, y

MCKeyings == {<<x, x, y>>}
SomeCallbacks == {<<"start", 2>>, <<"settled", 1>>}
===============================================================================
