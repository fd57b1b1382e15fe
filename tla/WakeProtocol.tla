---------------------------- MODULE WakeProtocol ----------------------------
(***************************************************************************)
(* How a fiber waits.  Before it suspends it hands itself to something     *)
(* that will schedule it again, a waker; the waker schedules it once,      *)
(* perhaps before it has suspended; then the scheduler resumes it.  The    *)
(* scheduler relies on this, and whatever makes fibers wait must keep it.  *)
(***************************************************************************)
CONSTANT Fibers
VARIABLE wake     \* per fiber: "none", "armed" (a waker holds it), "fired" (it was scheduled)

Init == wake = [f \in Fibers |-> "none"]

Step(f, from, to) == wake[f] = from /\ wake' = [wake EXCEPT ![f] = to]

Arm(f)    == Step(f, "none", "armed")
Fire(f)   == Step(f, "armed", "fired")
Resume(f) == Step(f, "fired", "none")

Next == \E f \in Fibers : Arm(f) \/ Fire(f) \/ Resume(f)

Spec == Init /\ [][Next]_wake
=============================================================================
