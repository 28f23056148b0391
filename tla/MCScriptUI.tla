----------------------------- MODULE MCScriptUI -----------------------------
(* Two scripts; two UI threads, so that the UI is started again; two       *)
(* shows, so that they overlap or follow each other.  Three values put     *)
(* into a store under two names.                                           *)
EXTENDS ScriptUI

CONSTANTS a, b, text

MCScripts == {a, b}
MCStrings == {text}
=============================================================================
