------------------------------- MODULE MCHook -------------------------------
(* Instances of Hook for TLC. *)
EXTENDS Hook, TLC

CONSTANTS k1, k2, k3, i1, i2

\* Timer and timer_info objects are interchangeable.
Sym == Permutations(Timers) \cup Permutations(Infos)
=============================================================================
