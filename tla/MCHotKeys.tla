----------------------------- MODULE MCHotKeys ------------------------------
(* Two scripts, so that both may find no hot-key thread; two combinations, *)
(* which share their modifier.                                             *)
EXTENDS HotKeys

CONSTANTS s1, s2, h1, h2, none

MCScripts == {s1, s2}
MCHkThreads == {h1, h2}
MCCallbacks == {h1}
MCMaxQueue == [h \in MCHkThreads |-> IF h = h1 THEN 2 ELSE 1]
=============================================================================
