--------------------------- MODULE MCTimerManager ---------------------------
(* Instances of TimerManager for TLC. *)
EXTENDS TimerManager, TLC

CONSTANTS t1, t2, x1, x2

\* Threads are interchangeable.
Sym == Permutations(Threads)
=============================================================================
