------------------------------ MODULE HandOver ------------------------------
(***************************************************************************)
(* What CreateThread and the asynchronous Eval promise a script that gives *)
(* a function to a new thread.  The caller comes back when the thread has  *)
(* accepted the function, or is gone; the collector frees no function that *)
(* its thread still has to take, or is running.  The promise has a gap: a  *)
(* function that was accepted and not yet taken may be lost, but not while *)
(* its caller is waiting.  Then the thread leaves it for something else.   *)
(***************************************************************************)
CONSTANTS Threads,  \* the threads that may call
          Workers,  \* those that are created, each with a function of its own
          Nobody    \* whom a thread waits for that waits for nobody

VARIABLES
  fn,        \* [Workers -> ..], the function of a thread
  waiting,   \* [Threads -> Workers \union {Nobody}], callers
  accepted,  \* threads that have accepted their function
  freed      \* threads whose function the collector has freed

vars == <<fn, waiting, accepted, freed>>

Init ==
  /\ fn = [w \in Workers |-> "none"]
  /\ waiting = [t \in Threads |-> Nobody]
  /\ accepted = {} /\ freed = {}

Give(t, w) ==
  /\ fn[w] = "none" /\ waiting[t] = Nobody
  /\ fn' = [fn EXCEPT ![w] = "given"]
  /\ waiting' = [waiting EXCEPT ![t] = w]
  /\ UNCHANGED <<accepted, freed>>

Accept(w) ==
  /\ fn[w] = "given" /\ \E t \in Threads : waiting[t] = w
  /\ accepted' = accepted \union {w}
  /\ UNCHANGED <<fn, waiting, freed>>

Return(t) ==
  /\ \E w \in Workers : waiting[t] = w /\ (w \in accepted \/ fn[w] = "left")
  /\ waiting' = [waiting EXCEPT ![t] = Nobody]
  /\ UNCHANGED <<fn, accepted, freed>>

Take(w) ==
  /\ fn[w] = "given" /\ w \in accepted
  /\ fn' = [fn EXCEPT ![w] = "taken"]
  /\ UNCHANGED <<waiting, accepted, freed>>

Lose(w) ==
  /\ fn[w] = "given" /\ w \in accepted /\ \A t \in Threads : waiting[t] # w
  /\ fn' = [fn EXCEPT ![w] = "lost"]
  /\ UNCHANGED <<waiting, accepted, freed>>

(* The threads W are done with their functions, or are killed.             *)
Leave(W) ==
  /\ \A w \in W : fn[w] # "none"
  /\ fn' = [w \in Workers |-> IF w \in W THEN "left" ELSE fn[w]]
  /\ UNCHANGED <<waiting, accepted, freed>>

Collect(W) ==
  /\ \A w \in W : fn[w] \in {"lost", "left"}
  /\ freed' = freed \union W
  /\ UNCHANGED <<fn, waiting, accepted>>

Next ==
  \/ \E t \in Threads : Return(t) \/ \E w \in Workers : Give(t, w)
  \/ \E w \in Workers : Accept(w) \/ Take(w) \/ Lose(w)
  \/ \E W \in SUBSET Workers : Leave(W) \/ Collect(W)

Spec == Init /\ [][Next]_vars
=============================================================================
