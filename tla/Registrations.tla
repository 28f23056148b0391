---------------------------- MODULE Registrations ---------------------------
(***************************************************************************)
(* What a registration service promises its callers: each request is asked *)
(* once, answered once, and what was granted is released at most once.     *)
(* When the service ends, what was asked and not answered stays so.        *)
(***************************************************************************)
CONSTANT Regs  \* the requests
VARIABLE status

Statuses == {"new", "asked", "granted", "refused", "released"}

Init == status = [r \in Regs |-> "new"]

Move(r, from, to) ==
  /\ status[r] = from
  /\ status' = [status EXCEPT ![r] = to]

Ask(r)     == Move(r, "new", "asked")
Grant(r)   == Move(r, "asked", "granted")
Refuse(r)  == Move(r, "asked", "refused")
Release(r) == Move(r, "granted", "released")

Next == \E r \in Regs : Ask(r) \/ Grant(r) \/ Refuse(r) \/ Release(r)

Spec == Init /\ [][Next]_status
=============================================================================
