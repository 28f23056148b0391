--------------------------- MODULE MCGeckoSession ---------------------------
(* Two sessions and a view that both find.  The main script drives the     *)
(* sessions; it and a created thread make the view and collect, each while *)
(* the other waits.                                                        *)
EXTENDS GeckoSession

CONSTANTS s1, s2, u1, u2, v1, none

MCScripts == {s1, s2}
MCDrivers == {s1}
MCUIs == {u1, u2}
MCThreads == Scripts \union UIs
MCViews == {v1}
=============================================================================
