----------------------------- MODULE MCOrbisFutex -----------------------------
(***************************************************************************)
(* Instances of OrbisFutex for TLC.                                        *)
(***************************************************************************)
EXTENDS OrbisFutex, TLC

CONSTANTS t1, t2, t3, t4, m1, m2, f1, f2

AllFour    == {t1, t2, t3, t4}
FirstThree == {t1, t2, t3}

(* Threads that do the same may be exchanged.                              *)
FourAlike  == Permutations({t1, t2, t3, t4})
Waiters    == Permutations({t2, t3})
=============================================================================
