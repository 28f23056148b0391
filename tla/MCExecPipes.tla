---------------------------- MODULE MCExecPipes ----------------------------
(* Two calls at once; standard output is more than pipe and buffer hold.   *)
EXTENDS ExecPipes

MCStreams == {"out", "err"}
MCMaxWritten == [s \in MCStreams |-> IF s = "out" THEN 3 ELSE 1]
=============================================================================
