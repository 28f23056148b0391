--------------------------- MODULE MCNativeTable ----------------------------
(* The top-level script and a created one; a table that grows by two, so   *)
(* that two loads fill it and the third makes it grow.  A script that is   *)
(* not in the loader may call the natives that libraries define, and       *)
(* LoadJSLib.                                                              *)
EXTENDS NativeFaults

CONSTANTS main, thread

MCScripts == {main, thread}
MCInRequest == {thread}
=============================================================================
