-------------------------- MODULE MCThreadSafeQueue --------------------------
(* Model values and symmetry for ThreadSafeQueue. *)
EXTENDS ThreadSafeQueue, TLC

CONSTANTS th1, th2, th3, m1, m2

MCThreads == {th1, th2, th3}
MCMsgs == {m1, m2}

MCSymmetry == Permutations(MCThreads) \cup Permutations(MCMsgs)
=============================================================================
