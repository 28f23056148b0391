-------------------------- MODULE MCScriptThreads ---------------------------
(* Two threads beside the main one, so that one collects or exits while    *)
(* another is being created.                                               *)
EXTENDS ScriptThreads

CONSTANTS main, w1, w2, none

MCWorkers == {w1, w2}
MCThreads == {main} \union MCWorkers
MCMaxNest == [t \in MCThreads |-> IF t = main THEN 1 ELSE 0]
=============================================================================
