---------------------------- MODULE MCScheduler ----------------------------
(* Instances of Scheduler for TLC. *)
EXTENDS Scheduler, TLC

CONSTANTS w1, w2, r1, u1, f1, f2, c1, c2

\* Fiber objects and callbacks of a kind are interchangeable.
Sym == Permutations(CbFibers) \cup Permutations(Cbs)
WorkerSym == Sym \cup Permutations(Workers)
=============================================================================
