------------------------------ MODULE Sessions ------------------------------
(***************************************************************************)
(* What GeckoInit, GeckoTerm and CreateView promise to scripts, where one  *)
(* of them starts and ends the sessions.  A thread serves the views while  *)
(* a session is on, and none does after it.  A script that asks for a view *)
(* gets its answer when a thread that serves has made it a window and has  *)
(* shown it.  A second GeckoInit within a session voids the promise about  *)
(* the threads until no thread serves and a session starts anew, but not   *)
(* the promise about the views.                                            *)
(***************************************************************************)
CONSTANTS Scripts,  \* script threads
          UIs,      \* threads that may serve
          Views     \* what scripts ask for

VARIABLES
  phase,    \* "off", "starting", "on", "ending" or "doubled"
  serving,  \* the threads that serve the views
  stage,    \* [Views -> {"none", "asked", "made", "shown"}]
  waiting   \* [Views -> SUBSET Scripts], who waits for a view

vars == <<phase, serving, stage, waiting>>

Init ==
  /\ phase = "off" /\ serving = {}
  /\ stage = [v \in Views |-> "none"] /\ waiting = [v \in Views |-> {}]

Move(from, to) == phase \in from /\ phase' = to /\ UNCHANGED <<serving, stage, waiting>>

Start == serving = {} /\ Move({"off", "doubled"}, "starting")
Started == serving # {} /\ Move({"starting"}, "on")
Failed == serving = {} /\ Move({"starting"}, "off")
StartAgain == Move({"on", "doubled"}, "doubled")
End == Move({"off", "on"}, "ending")
Ended == serving = {} /\ Move({"ending"}, "off")

Enter(u) ==
  /\ phase = "doubled" \/ (phase = "starting" /\ serving = {})
  /\ serving' = serving \union {u}
  /\ UNCHANGED <<phase, stage, waiting>>

Leave(u) ==
  /\ phase \in {"ending", "doubled"} /\ u \in serving
  /\ serving' = serving \ {u}
  /\ UNCHANGED <<phase, stage, waiting>>

Ask(s, v) ==
  /\ stage[v] = "none" /\ \A w \in Views : s \notin waiting[w]
  /\ stage' = [stage EXCEPT ![v] = "asked"]
  /\ waiting' = [waiting EXCEPT ![v] = {s}]
  /\ UNCHANGED <<phase, serving>>

Advance(v, from, to) ==
  /\ serving # {} /\ stage[v] = from
  /\ stage' = [stage EXCEPT ![v] = to]
  /\ UNCHANGED <<phase, serving, waiting>>

Make(v) == Advance(v, "asked", "made")
Show(v) == Advance(v, "made", "shown")

Answer(s, v) ==
  /\ stage[v] = "shown" /\ s \in waiting[v]
  /\ waiting' = [waiting EXCEPT ![v] = {}]
  /\ UNCHANGED <<phase, serving, stage>>

Next ==
  \/ Start \/ Started \/ Failed \/ StartAgain \/ End \/ Ended
  \/ \E u \in UIs : Enter(u) \/ Leave(u)
  \/ \E v \in Views : Make(v) \/ Show(v) \/ \E s \in Scripts : Ask(s, v) \/ Answer(s, v)

Spec == Init /\ [][Next]_vars
=============================================================================
