----------------------------- MODULE MCIOManager -----------------------------
(* Instances of IOManager for TLC. *)
EXTENDS IOManager, TLC

CONSTANTS u1, u2, t1, t2, x1, x2, x3

\* Users, idle threads and waiters are interchangeable.
Sym == Permutations(Users) \cup Permutations(Threads) \cup Permutations(Waiters)
=============================================================================
