---------------------------- MODULE MCWildMatch ----------------------------
(* Two letters, one of them in both cases; every short path and pattern.   *)
EXTENDS WildMatch

MCLetters == {"a", "b", "A"}
MCLower == [c \in MCLetters |-> IF c = "A" THEN "a" ELSE c]
MCSlash == "\\"
=============================================================================
