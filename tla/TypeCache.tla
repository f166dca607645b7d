------------------------------ MODULE TypeCache ------------------------------
(***************************************************************************)
(* What psbc_init and psbc_shutdown promise their callers: the process-    *)
(* wide GLSL type cache exists exactly while somebody holds a reference.   *)
(* Taking and dropping a reference are single steps here; PsbcCompile      *)
(* shows how the code gets that from a mutex, a counter and the singleton  *)
(* of glsl_types.c.                                                        *)
(***************************************************************************)
CONSTANT References       \* every reference a caller could hold
VARIABLES held,           \* the references held now
          alive           \* the type cache is allocated

Init == held = {} /\ alive = FALSE

psbc_init(r) ==
    /\ r \notin held
    /\ held' = held \cup {r}
    /\ alive' = TRUE

psbc_shutdown(r) ==
    /\ r \in held
    /\ held' = held \ {r}
    /\ alive' = (held \ {r} # {})

Next == \E r \in References : psbc_init(r) \/ psbc_shutdown(r)

Spec == Init /\ [][Next]_<<held, alive>>
=============================================================================
