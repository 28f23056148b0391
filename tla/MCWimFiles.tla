----------------------------- MODULE MCWimFiles -----------------------------
(* Two scripts and two files; enough calls to start a thread, open a       *)
(* window, close it and start again, also from both scripts at once.       *)
EXTENDS WimFiles

CONSTANTS a, b

MCScripts == {a, b}
=============================================================================
