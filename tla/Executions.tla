----------------------------- MODULE Executions -----------------------------
(***************************************************************************)
(* What Exec promises the scripts that call it, whatever pipes, readers    *)
(* and buffers it takes: a call is asked once and answered at most once,   *)
(* its process is started at most once, and the answer of a call that      *)
(* waits is given only when its own process has ended.  The answer of a    *)
(* call that captures is all that this process wrote, to each stream but   *)
(* those for which memory was short; of these it is a beginning.  A call   *)
(* that has failed leaves its process alone, which may run on and write.   *)
(***************************************************************************)
EXTENDS Naturals

CONSTANTS Calls, Streams

VARIABLES
  call,     \* [Calls -> ..], how far a call is
  kind,     \* [Calls -> ..], what its script asked for
  process,  \* [Calls -> ..], its process
  written,  \* [Calls \X Streams -> Nat], what the process has written
  short,    \* [Calls -> SUBSET Streams], streams memory was short for
  output    \* [Calls \X Streams -> Nat], what the script was given

vars == <<call, kind, process, written, short, output>>

Init ==
  /\ call = [c \in Calls |-> "new"]
  /\ kind = [c \in Calls |-> "captures"]
  /\ process = [c \in Calls |-> "none"]
  /\ written = [p \in Calls \X Streams |-> 0]
  /\ short = [c \in Calls |-> {}]
  /\ output = [p \in Calls \X Streams |-> 0]

Ask(c) ==
  /\ call[c] = "new"
  /\ call' = [call EXCEPT ![c] = "asked"]
  /\ \E k \in {"captures", "waits", "detached"} : kind' = [kind EXCEPT ![c] = k]
  /\ UNCHANGED <<process, written, short, output>>

(* A call that does not wait is answered when its process is there.        *)
Start(c) ==
  /\ call[c] = "asked" /\ process[c] = "none"
  /\ process' = [process EXCEPT ![c] = "running"]
  /\ call' = IF kind[c] = "detached" THEN [call EXCEPT ![c] = "answered"] ELSE call
  /\ UNCHANGED <<kind, written, short, output>>

Write(c) ==
  /\ process[c] = "running"
  /\ \E s \in Streams : written' = [written EXCEPT ![<<c, s>>] = @ + 1]
  /\ UNCHANGED <<call, kind, process, short, output>>

End(c) ==
  /\ process[c] = "running"
  /\ process' = [process EXCEPT ![c] = "ended"]
  /\ UNCHANGED <<call, kind, written, short, output>>

RunShort(c) ==
  /\ call[c] = "asked" /\ kind[c] = "captures"
  /\ \E s \in Streams : short' = [short EXCEPT ![c] = @ \union {s}]
  /\ UNCHANGED <<call, kind, process, written, output>>

(* What the answer of a call says of stream s.                             *)
Tells(c, s) ==
  LET p == <<c, s>> IN
  IF s \in short[c] THEN output'[p] \in 0..written[p] ELSE output'[p] = written[p]

Answer(c) ==
  /\ call[c] = "asked" /\ kind[c] # "detached" /\ process[c] = "ended"
  /\ call' = [call EXCEPT ![c] = "answered"]
  /\ IF kind[c] = "captures"
     THEN /\ \A s \in Streams : Tells(c, s)
          /\ \A d \in Calls \ {c}, s \in Streams : output'[<<d, s>>] = output[<<d, s>>]
     ELSE UNCHANGED output
  /\ UNCHANGED <<kind, process, written, short>>

Fail(c) ==
  /\ call[c] = "asked"
  /\ call' = [call EXCEPT ![c] = "failed"]
  /\ UNCHANGED <<kind, process, written, short, output>>

Next ==
  \E c \in Calls :
    Ask(c) \/ Start(c) \/ Write(c) \/ End(c) \/ RunShort(c) \/ Answer(c) \/ Fail(c)

Spec == Init /\ [][Next]_vars
=============================================================================
