--------------------------- MODULE MCGeckoEvents ----------------------------
(* A script that uses a view, another that collects and changes the        *)
(* document, and the UI thread.                                            *)
EXTENDS GeckoEvents

CONSTANTS ui, s1, s2, l1, l2, none

MCThreads == {ui, s1, s2}
MCOthers == {s2}
MCListeners == {l1, l2}
MCMaxDepth == 2
=============================================================================
