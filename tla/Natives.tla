------------------------------- MODULE Natives -------------------------------
(***************************************************************************)
(* What a native function does with requests and with what it takes, along *)
(* every way out of it.  A native is the set of its ways, a way is the     *)
(* sequence of the steps that matter: it begins, ends, suspends, resumes   *)
(* or yields requests, waits, takes memory or a handle, frees it or hands  *)
(* it to a script object.  An early return is an alternative, so the ways  *)
(* of a native are the paths of its code.  A resource that an object of    *)
(* the script owns all along is not a step, and an engine or heap out of   *)
(* memory is a way only where the code tests for it.                       *)
(***************************************************************************)
EXTENDS Naturals, Sequences, SequencesExt

Resources == {"mem",     \* a block of memory
              "handle",  \* a handle or an interface of Windows
              "crypt",   \* a provider, hash, key or certificate
              "node"}    \* a reference to a node of a document

(* First a way of A, then a way of B.                                      *)
A ** B == {a \o b : a \in A, b \in B}

Step(op) == {<<<<op, "">>>>}

Skip == {<<>>}          \* nothing, or the end of a way
Begin == Step("begin")    \* JS_BeginRequest
End == Step("end")      \* JS_EndRequest
Suspend == Step("suspend")  \* JS_SuspendRequest, its result kept
Resume == Step("resume")   \* JS_ResumeRequest with that result
Yield == Step("yield")    \* JS_YieldRequest
Wait == Step("wait")     \* for the user, a clock, a process, a computer,
                         \* the thread of a window or the lock it holds
Garbage == Step("garbage") \* a pointer nobody has set, or that is gone, is used

Take(r) == {<<<<"take", r>>>>}  \* a resource is taken
Drop(r) == {<<<<"drop", r>>>>}  \* ... and freed
Hand(r) == Drop(r)              \* ... or handed to an object or string,
                                \* which frees it later on

(* A loop, as far as two rounds.                                           *)
Loop(A) == Skip \union A \union (A ** A)

(* A native whose every way out, the error paths included, ends its request.*)
WithRequest(A) == Begin ** A ** End
-----------------------------------------------------------------------------
(* What is left when a way has been gone: the depth of requests, what the  *)
(* suspension saved, what is held, and what went wrong meanwhile.          *)
Start(d) == [depth |-> d, saved |-> 0, held |-> [r \in Resources |-> 0], wrong |-> {}]

Wrong(w, is, fault) == IF is THEN [w EXCEPT !.wrong = @ \union {fault}] ELSE w

Walk(w, step) ==
  LET op == step[1]  r == step[2] IN
  CASE op = "begin"   -> [w EXCEPT !.depth = @ + 1]
    [] op = "end"     -> IF w.depth = 0 THEN Wrong(w, TRUE, "outside")
                         ELSE [w EXCEPT !.depth = @ - 1]
    [] op = "suspend" -> [w EXCEPT !.depth = 0, !.saved = w.depth]
    [] op = "resume"  -> [w EXCEPT !.depth = w.saved, !.saved = 0]
    [] op = "yield"   -> Wrong(w, w.depth = 0, "outside")
    [] op = "wait"    -> Wrong(w, w.depth > 0, "waits")
    [] op = "take"    -> [w EXCEPT !.held[r] = @ + 1]
    [] op = "drop"    -> IF w.held[r] = 0 THEN Wrong(w, TRUE, "dangling")
                         ELSE [w EXCEPT !.held[r] = @ - 1]
    [] op = "garbage" -> Wrong(w, TRUE, "garbage")

(* What is wrong with a way of a native called at depth d: what it did     *)
(* wrong, a request more or fewer than before, or a resource kept.         *)
FaultsFrom(d, way) ==
  LET end == FoldLeft(Walk, Start(d), way) IN
    end.wrong \union {r \in Resources : end.held[r] > 0}
              \union (IF end.depth = d THEN {} ELSE {"request"})

(* A script calls natives from inside a request (a created script), or     *)
(* from outside any (a callback of the host).                              *)
Faults(d, native) == UNION {FaultsFrom(d, way) : way \in native}
=============================================================================
