------------------------------ MODULE SimpleMtx -------------------------------
(***************************************************************************)
(* What simple_mtx (util/simple_mtx.h) promises: a mutex is taken when     *)
(* nobody has it, and given up by the one thread that has it.  OrbisFutex  *)
(* shows how the code gets that from a word with three values and a futex. *)
(* It is what makes the sections under glsl_type_cache_mutex, InitRef and  *)
(* ShutdownDecref of PsbcCompile, single steps.                            *)
(***************************************************************************)
CONSTANTS Threads, Mutexes
VARIABLE owners           \* the threads that have each mutex

Init == owners = [m \in Mutexes |-> {}]

simple_mtx_lock(t, m) ==
    /\ owners[m] = {}
    /\ owners' = [owners EXCEPT ![m] = {t}]

simple_mtx_unlock(t, m) ==
    /\ owners[m] = {t}
    /\ owners' = [owners EXCEPT ![m] = {}]

Next == \E t \in Threads, m \in Mutexes : simple_mtx_lock(t, m) \/ simple_mtx_unlock(t, m)

Spec == Init /\ [][Next]_owners
=============================================================================
