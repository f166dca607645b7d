------------------------- MODULE PsbcLifecycleProofs --------------------------
(***************************************************************************)
(* The library reference count, the inductive invariant of PsbcCompile,    *)
(* the properties that follow from it, the refinement of TypeCache, and    *)
(* what a call does to the NIR its caller keeps.                           *)
(***************************************************************************)
EXTENDS PsbcMemoryProofs, FiniteSetTheorems

-----------------------------------------------------------------------------
(* A step that leaves the library's reference state alone keeps RefInv, as *)
(* long as its thread stays on the same side of every boundary RefInv      *)
(* draws.                                                                  *)
LEMMA RefFrame ==
  ASSUME TypeOK, RefInv, NEW t \in Threads, NEW to,
         pc' = [pc EXCEPT ![t] = to], UNCHANGED library,
         \A u \in Threads \ {t} : req'[u] = req[u],
         pc[t] \notin Critical, to \notin Critical,
         to = "idle" => req'[t] = NoRequest,
         to \in InCompile => req'[t] # NoRequest,
         <<t, "compile">> \in refs <=>
           req'[t] # NoRequest /\ to \in BuildSteps \cup CountedSteps \cup {"trapped"},
         req'[t] = NoRequest /\ to \in InitSteps \cup DownSteps =>
           (<<t, "device">> \in refs <=> to \in CountedSteps)
  PROVE  RefInv'
<1> USE DEF library
<1>1. PhaseInv'
  BY DEF RefInv, PhaseInv, TypeOK
<1>2. MutexInv'
  BY Zenon DEF RefInv, MutexInv, TypeOK
<1>3. ReferenceInv'
  <2> SUFFICES ASSUME NEW u \in Threads
               PROVE  ReferenceInv!(u)'
    BY Zenon DEF ReferenceInv
  <2>1. CASE u = t
    BY <2>1, Zenon DEF TypeOK
  <2>2. CASE u # t
    <3>1. pc'[u] = pc[u] /\ req'[u] = req[u] /\ refs' = refs
      BY <2>2, Zenon DEF TypeOK
    <3> QED BY <3>1, Zenon DEF RefInv, ReferenceInv
  <2> QED BY <2>1, <2>2, Zenon
<1>4. CountInv'
  BY Zenon DEF RefInv, CountInv
<1>5. CacheInv'
  <2>1. pc[t] \notin {"init_ref", "down_decref"} /\ to \notin {"init_ref", "down_decref"}
    BY Zenon DEF Critical
  <2>2. \A u \in Threads : u # t => Ref(u)' = Ref(u)
    BY Zenon DEF Ref
  <2> QED BY <2>1, <2>2, Zenon DEF RefInv, CacheInv, TypeOK
<1> QED BY <1>1, <1>2, <1>3, <1>4, <1>5, Zenon DEF RefInv

(* A step inside psbc_init or psbc_shutdown moves one thread and leaves    *)
(* the arguments alone; the thread that runs it holds the mutex, so the    *)
(* other threads are outside the critical section.                         *)
LEMMA RefSection ==
  ASSUME TypeOK, RefInv, NEW t \in Threads, NEW to \in Critical,
         pc' = [pc EXCEPT ![t] = to], req' = req, mutex' = mutex,
         pc[t] \in Critical,
         \A p \in Purposes : \A u \in Threads \ {t} :
             <<u, p>> \in refs' <=> <<u, p>> \in refs,
         ReferenceInv!(t)', CountInv',
         to = "init_ref" => users' = 0 /\ refs' = {Ref(t)},
         to = "down_decref" => users' = 1 /\ refs' = {},
         to \notin {"init_ref", "down_decref"} => users' = IF refs' = {} THEN 0 ELSE 1
  PROVE  RefInv'
<1>1. PhaseInv'
  BY Zenon DEF RefInv, PhaseInv, TypeOK, Critical, InCompile, BuildSteps, Slots
<1>2. MutexInv'
  BY Zenon DEF RefInv, MutexInv, TypeOK
<1>3. ReferenceInv'
  <2> SUFFICES ASSUME NEW u \in Threads, u # t
               PROVE  ReferenceInv!(u)'
    BY Zenon DEF ReferenceInv
  <2>1. pc'[u] = pc[u] /\ req'[u] = req[u]
    BY Zenon DEF TypeOK
  <2>2. /\ <<u, "compile">> \in refs' <=> <<u, "compile">> \in refs
        /\ <<u, "device">> \in refs' <=> <<u, "device">> \in refs
    BY Zenon DEF Purposes
  <2> QED BY <2>1, <2>2, Zenon DEF RefInv, ReferenceInv
<1>4. CacheInv'
  <2>1. \A u \in Threads : u # t => pc'[u] \notin Critical
    BY Zenon DEF RefInv, MutexInv, TypeOK
  <2>2. pc'[t] = to /\ Ref(t)' = Ref(t)
    BY Zenon DEF TypeOK, Ref
  <2> QED BY <2>1, <2>2, Zenon DEF CacheInv, Critical
<1> QED BY <1>1, <1>2, <1>3, <1>4, Zenon DEF RefInv

(* Taking and releasing g_init_mutex keeps RefInv.                         *)
LEMMA RefLock ==
  ASSUME TypeOK, RefInv, NEW t \in Threads, NEW to,
         pc' = [pc EXCEPT ![t] = to], UNCHANGED <<req, refcount, users, refs>>,
         \/ /\ pc[t] \notin Critical /\ to \in {"init_count", "down_count"}
            /\ mutex = NoThread /\ mutex' = t
         \/ /\ pc[t] \in {"init_unlock", "down_unlock"} /\ to \notin Critical
            /\ mutex' = NoThread,
         to = "idle" => req[t] = NoRequest,
         to \in InCompile => req[t] # NoRequest,
         ReferenceInv!(t)'
  PROVE  RefInv'
<1>1. PhaseInv'
  BY Zenon DEF RefInv, PhaseInv, TypeOK
<1>2. MutexInv'
  BY ThreadsAssumption DEF RefInv, MutexInv, TypeOK, Critical
<1>3. ReferenceInv'
  <2> SUFFICES ASSUME NEW u \in Threads, u # t
               PROVE  ReferenceInv!(u)'
    BY Zenon DEF ReferenceInv
  <2>1. pc'[u] = pc[u] /\ req'[u] = req[u] /\ refs' = refs
    BY Zenon DEF TypeOK
  <2> QED BY <2>1, Zenon DEF RefInv, ReferenceInv
<1>4. CountInv'
  BY Zenon DEF RefInv, CountInv
<1>5. CacheInv'
  <2>1. \A u \in Threads : pc[u] \notin {"init_ref", "down_decref"}
    BY ThreadsAssumption, Zenon DEF RefInv, MutexInv, Critical
  <2>2. \A u \in Threads : pc'[u] \notin {"init_ref", "down_decref"}
    BY <2>1, Zenon DEF TypeOK, Critical
  <2> QED BY <2>1, <2>2, Zenon DEF RefInv, CacheInv
<1> QED BY <1>1, <1>2, <1>3, <1>4, <1>5, Zenon DEF RefInv

(* psbc_init and psbc_shutdown keep RefInv.                                *)
LEMMA RefReference ==
  ASSUME TypeOK, RefInv, NEW t \in Threads, Reference(t)
  PROVE  RefInv'
<1> USE DEF LibraryStepOf, Step
<1>t. ReferenceInv!(t) /\ PhaseInv!(t)
  BY Zenon DEF RefInv, ReferenceInv, PhaseInv
<1>1. CASE InitLock(t)
  BY <1>1, <1>t, RefLock, Zenon
     DEF InitLock, Critical, InCompile, BuildSteps, Slots, InitSteps, DownSteps, CountedSteps, TypeOK
<1>2. CASE InitCount(t)
  <2>1. Ref(t) \notin refs
    BY <1>2, <1>t, Zenon DEF InitCount, Ref, InitSteps, CountedSteps, BuildSteps, Slots
  <2>2. CountInv'
    BY <1>2, <2>1, FS_AddElement, Zenon DEF InitCount, RefInv, CountInv
  <2>3. users = IF refs = {} THEN 0 ELSE 1
    BY <1>2, Zenon DEF InitCount, RefInv, MutexInv, CacheInv, Critical
  <2>4. /\ refcount = 0 <=> refs = {}
        /\ refs = {} => refs' = {Ref(t)}
    BY <1>2, FS_EmptySet, Zenon DEF InitCount, RefInv, CountInv
  <2>5. ReferenceInv!(t)'
    <3>1. pc'[t] \in {"init_ref", "init_unlock"} /\ req' = req /\ refs' = refs \cup {Ref(t)}
      BY <1>2, Zenon DEF InitCount, TypeOK
    <3>2. req[t] = NoRequest => <<t, "compile">> \notin refs
      BY <1>t, Zenon
    <3> QED BY <3>1, <3>2, Zenon DEF Ref, CountedSteps
  <2>6. \A p \in Purposes : \A u \in Threads \ {t} : <<u, p>> \in refs' <=> <<u, p>> \in refs
    BY <1>2, Zenon DEF InitCount, Ref
  <2> QED
    BY <1>2, <2>2, <2>3, <2>4, <2>5, <2>6, RefSection, Zenon DEF InitCount, Critical
<1>3. CASE InitRef(t)
  <2>1. refs # {} /\ users = 0
    BY <1>3, <1>t, Zenon DEF InitRef, InitSteps, CountedSteps, RefInv, CacheInv
  <2>2. ReferenceInv!(t)' /\ CountInv'
    BY <1>3, <1>t, Zenon DEF InitRef, CountedSteps, InitSteps, TypeOK, RefInv, CountInv
  <2>3. users' = 1 /\ refs' = refs /\ mutex' = mutex /\ req' = req
    BY <1>3, <2>1 DEF InitRef
  <2>4. pc[t] \in Critical /\ pc' = [pc EXCEPT ![t] = "init_unlock"]
    BY <1>3, Zenon DEF InitRef, Critical
  <2> QED
    BY <2>1, <2>2, <2>3, <2>4, RefSection, Zenon DEF Critical
<1>4. CASE InitUnlock(t)
  BY <1>4, <1>t, RefLock, Zenon
     DEF InitUnlock, Critical, InCompile, BuildSteps, Slots, InitSteps, DownSteps, CountedSteps, TypeOK
<1>5. CASE ShutdownLock(t)
  BY <1>5, <1>t, RefLock, Zenon
     DEF ShutdownLock, Critical, InCompile, BuildSteps, Slots, InitSteps, DownSteps, CountedSteps, TypeOK
<1>6. CASE ShutdownCount(t)
  <2>1. Ref(t) \in refs
    BY <1>6, <1>t, Zenon DEF ShutdownCount, Ref, DownSteps, CountedSteps
  <2>2. CountInv' /\ refcount > 0
    <3>1. IsFiniteSet(refs) /\ refcount = Cardinality(refs) /\ refcount \in Nat
      BY FS_CardinalityType, Zenon DEF RefInv, CountInv
    <3>2. /\ IsFiniteSet(refs \ {Ref(t)})
          /\ Cardinality(refs \ {Ref(t)}) = Cardinality(refs) - 1
      BY <2>1, <3>1, FS_RemoveElement, Zenon
    <3>3. refcount > 0 BY <2>1, <3>1, FS_EmptySet
    <3>4. refs' = refs \ {Ref(t)} /\ refcount' = refcount - 1
      BY <1>6, <3>3, Zenon DEF ShutdownCount
    <3> QED BY <3>1, <3>2, <3>3, <3>4, Zenon DEF CountInv
  <2>3. users = 1
    BY <1>6, <2>1, Zenon DEF ShutdownCount, RefInv, MutexInv, CacheInv, Critical
  <2>4. refcount = 1 <=> refs' = {}
    <3>1. refcount' = refcount - 1 /\ refcount' = Cardinality(refs') /\ IsFiniteSet(refs')
      BY <1>6, <2>2, Zenon DEF ShutdownCount, CountInv
    <3>2. Cardinality(refs') = 0 <=> refs' = {}
      BY <3>1, FS_EmptySet, Zenon
    <3> QED BY <3>1, <3>2 DEF TypeOK
  <2>5. ReferenceInv!(t)'
    <3>1. pc'[t] \in {"down_decref", "down_unlock"} /\ req' = req /\ refs' = refs \ {Ref(t)}
      BY <1>6, Zenon DEF ShutdownCount, TypeOK
    <3>2. req[t] = NoRequest => <<t, "compile">> \notin refs
      BY <1>t, Zenon
    <3> QED BY <3>1, <3>2, Zenon DEF Ref, CountedSteps, BuildSteps, Slots
  <2>6. \A p \in Purposes : \A u \in Threads \ {t} : <<u, p>> \in refs' <=> <<u, p>> \in refs
    BY <1>6, Zenon DEF ShutdownCount, Ref
  <2> QED
    BY <1>6, <2>2, <2>3, <2>4, <2>5, <2>6, RefSection, Zenon DEF ShutdownCount, Critical
<1>7. CASE ShutdownDecref(t)
  <2>1. refs = {} /\ users = 1
    BY <1>7, Zenon DEF ShutdownDecref, RefInv, CacheInv
  <2>2. ReferenceInv!(t)' /\ CountInv'
    BY <1>7, <1>t, Zenon DEF ShutdownDecref, CountedSteps, DownSteps, BuildSteps, Slots,
       TypeOK, RefInv, CountInv
  <2>3. users' = 0 /\ refs' = refs /\ mutex' = mutex /\ req' = req
    BY <1>7, <2>1 DEF ShutdownDecref
  <2>4. pc[t] \in Critical /\ pc' = [pc EXCEPT ![t] = "down_unlock"]
    BY <1>7, Zenon DEF ShutdownDecref, Critical
  <2> QED
    BY <2>1, <2>2, <2>3, <2>4, RefSection, Zenon DEF Critical
<1>8. CASE ShutdownUnlock(t)
  BY <1>8, <1>t, RefLock, Zenon
     DEF ShutdownUnlock, Critical, InCompile, BuildSteps, Slots, InitSteps, DownSteps, CountedSteps, TypeOK
<1> QED
  BY <1>1, <1>2, <1>3, <1>4, <1>5, <1>6, <1>7, <1>8, Zenon DEF Reference

(* Every step keeps RefInv.                                                *)
LEMMA RefStep ==
  ASSUME TypeOK, RefInv, [Next]_vars
  PROVE  RefInv'
<1>1. CASE UNCHANGED vars
  BY <1>1, Zenon DEF vars, RefInv, PhaseInv, MutexInv, ReferenceInv, CountInv, CacheInv, Ref
<1>2. ASSUME NEW t \in Threads, Import(t) \/ Build(t)
      PROVE  RefInv'
  <2>1. PICK to \in BuildSteps \cup {"down_lock", "trapped"} : pc' = [pc EXCEPT ![t] = to]
    BY <1>2, CompileMoves, Zenon DEF CompileMove
  <2>2. pc[t] \in BuildSteps /\ UNCHANGED <<req, library>>
    BY <1>2, CompileMoves, Zenon DEF CompileMove
  <2>3. req[t] # NoRequest /\ <<t, "compile">> \in refs
    BY <2>2, Zenon DEF RefInv, PhaseInv, InCompile, ReferenceInv
  <2> QED
    BY <2>1, <2>2, <2>3, RefFrame, Zenon
       DEF Critical, InCompile, CountedSteps, BuildSteps, Slots
<1>3. ASSUME NEW t \in Threads, Reference(t)
      PROVE  RefInv'
  BY <1>3, RefReference, Zenon
<1>4. ASSUME NEW t \in Threads,
             CheckEntry(t) \/ CheckImpl(t) \/ Finish(t) \/ WithdrawOutput(t)
      PROVE  RefInv'
  <2>1. PICK to \in {"impl", "init_lock", "finish", "returned"} : pc' = [pc EXCEPT ![t] = to]
    BY <1>4, Zenon DEF CheckEntry, CheckImpl, Finish, WithdrawOutput, Proceed, Step
  <2>2. pc[t] \in {"entry", "impl", "finish"} /\ UNCHANGED <<req, library>>
    BY <1>4, Zenon DEF CheckEntry, CheckImpl, Finish, WithdrawOutput, Proceed, Step
  <2>3. req[t] # NoRequest /\ <<t, "compile">> \notin refs
    BY <2>2, Zenon
       DEF RefInv, PhaseInv, InCompile, ReferenceInv, BuildSteps, Slots, CountedSteps
  <2> QED
    BY <2>1, <2>2, <2>3, RefFrame, Zenon
       DEF Critical, InCompile, CountedSteps, BuildSteps, Slots
<1>5. ASSUME NEW t \in Threads, CallerStep(t)
      PROVE  RefInv'
  <2>i. CASE Call(t) \/ DeviceInit(t) \/ DeviceShutdown(t)
    <3>1. req[t] = NoRequest /\ pc[t] = "idle" /\ <<t, "compile">> \notin refs
      BY <2>i, Zenon
         DEF Call, DeviceInit, DeviceShutdown, Proceed, Step, RefInv, PhaseInv, ReferenceInv
    <3>2. CASE Call(t)
      <4>1. /\ pc' = [pc EXCEPT ![t] = "entry"] /\ UNCHANGED library
            /\ \A u \in Threads \ {t} : req'[u] = req[u]
            /\ req'[t] # NoRequest
        BY <3>2, OfferedRequests DEF Call, Step, TypeOK
      <4> QED
        BY <3>1, <4>1, RefFrame, Zenon
           DEF Critical, InCompile, CountedSteps, BuildSteps, Slots, InitSteps, DownSteps
    <3>3. CASE DeviceInit(t)
      BY <3>1, <3>3, RefFrame, Zenon
         DEF DeviceInit, Step, Critical, InCompile, CountedSteps, BuildSteps, Slots
    <3>4. CASE DeviceShutdown(t)
      BY <3>1, <3>4, RefFrame, Zenon
         DEF DeviceShutdown, Proceed, Step, Critical, InCompile, CountedSteps, BuildSteps, Slots
    <3> QED BY <2>i, <3>2, <3>3, <3>4, Zenon
  <2>f. CASE psbc_free_output(t)
    <3>1. <<t, "compile">> \notin refs /\ pc[t] = "returned"
      BY <2>f, Zenon
         DEF psbc_free_output, Step, RefInv, ReferenceInv, BuildSteps, Slots, CountedSteps
    <3>2. /\ pc' = [pc EXCEPT ![t] = "idle"] /\ UNCHANGED library
          /\ \A u \in Threads \ {t} : req'[u] = req[u]
          /\ req'[t] = NoRequest
      BY <2>f, Zenon DEF psbc_free_output, Step, TypeOK
    <3> QED
      BY <3>1, <3>2, RefFrame, Zenon
         DEF Critical, InCompile, CountedSteps, BuildSteps, Slots, InitSteps, DownSteps
  <2> QED BY <1>5, <2>i, <2>f, Zenon DEF CallerStep
<1> QED
  BY <1>1, <1>2, <1>3, <1>4, <1>5, Zenon DEF Next, LibraryStep

-----------------------------------------------------------------------------
(* The initial state satisfies the inductive invariant.                    *)
LEMMA InitIInv == Init => IInv
<1> SUFFICES ASSUME Init PROVE IInv
  BY Zenon
<1>1. TypeOK
  <2>1. 0 \in 0..MaxCalls
    BY MaxCallsAssumption
  <2>2. badFree \in BOOLEAN
    BY Zenon DEF Init
  <2>3. /\ pc \in [Threads -> Steps] /\ req \in [Threads -> Request \cup {NoRequest}]
        /\ res \in [Threads -> Results] /\ out \in [Threads -> {"unset", "zero", "filled"}]
        /\ ptr \in [Threads -> SUBSET Blocks] /\ heap \in [Threads -> SUBSET Blocks]
        /\ options \in [Threads -> {"caller", "frame"}] /\ calls \in [Threads -> 0..MaxCalls]
    BY <2>1, Zenon DEF Init, Steps, Results
  <2>4. /\ mutex \in Threads \cup {NoThread} /\ refcount \in Nat /\ users \in Nat
        /\ refs \in SUBSET (Threads \X Purposes)
    BY Zenon DEF Init
  <2> QED BY <2>2, <2>3, <2>4, Zenon DEF TypeOK
<1>2. RefInv
  BY ThreadsAssumption, FS_EmptySet, Zenon
     DEF Init, RefInv, PhaseInv, MutexInv, ReferenceInv, CountInv, CacheInv, Critical, InCompile,
         BuildSteps, Slots, CountedSteps, InitSteps, DownSteps
<1>3. MemInv
  <2>1. OutputInv /\ GateInv /\ PtrInv /\ NoBadFree
    BY Zenon
       DEF Init, OutputInv, GateInv, PtrInv, NoBadFree, InitSteps, DownSteps, BuildSteps, Slots
  <2>2. ASSUME NEW t \in Threads, NEW b \in Blocks PROVE ~Owns(t, b)
    BY Zenon
       DEF Init, Owns, HasNir, HasPrevious, HasControl, HasBinary, HasData, BuildSteps, Slots
  <2>3. HeapInv
    BY <2>2, Zenon DEF Init, HeapInv
  <2> QED BY <2>1, <2>3, Zenon DEF MemInv
<1> QED BY <1>1, <1>2, <1>3, Zenon DEF IInv

(* The inductive invariant of the compile lifecycle holds in every state,  *)
(* for any threads, requests and number of calls.                          *)
THEOREM Inductive == Spec => []IInv
<1>1. IInv /\ [Next]_vars => IInv'
  <2> SUFFICES ASSUME IInv, [Next]_vars PROVE IInv'
    BY Zenon
  <2>1. TypeOK /\ RefInv /\ MemInv /\ CacheInv
    BY Zenon DEF IInv, RefInv
  <2>2. TypeOK'
    BY <2>1, TypeStep, Zenon
  <2>3. RefInv'
    BY <2>1, RefStep, Zenon
  <2>4. MemInv'
    BY <2>1, <2>2, MemStep, Zenon
  <2> QED BY <2>2, <2>3, <2>4, Zenon DEF IInv
<1> QED BY <1>1, InitIInv, PTL DEF Spec

(* Type correctness of the lifecycle; the count of type-cache users never  *)
(* goes below zero, which glsl_type_singleton_decref asserts.              *)
THEOREM TypeCorrect == Spec => []TypeOK
<1>1. IInv => TypeOK
  BY Zenon DEF IInv
<1> QED BY <1>1, Inductive, PTL

(* No psbc_shutdown frees the type cache under a shader another compile is *)
(* working on.                                                             *)
THEOREM TypeCacheOutlivesNir == Spec => []NirNeedsTypeCache
<1>1. IInv => NirNeedsTypeCache
  <2> SUFFICES ASSUME IInv, NEW t \in Threads, heap[t] \cap NirBlocks # {}
               PROVE  users > 0
    BY Zenon DEF NirNeedsTypeCache
  <2>1. pc[t] \in BuildSteps \cup {"trapped"}
    <3> SUFFICES ASSUME pc[t] # "trapped" PROVE pc[t] \in BuildSteps
      BY Zenon
    <3>1. PICK b \in NirBlocks : b \in heap[t]
      BY Zenon
    <3>2. b \in Blocks /\ Owns(t, b)
      BY <3>1, Zenon DEF IInv, MemInv, HeapInv, NirBlocks, Blocks
    <3> QED
      BY <3>1, <3>2, Zenon
         DEF Owns, NirBlocks, HasNir, HasPrevious, HasControl, BuildSteps, Slots
  <2>2. <<t, "compile">> \in refs /\ pc[t] \notin Critical
    BY <2>1, Zenon
       DEF IInv, RefInv, ReferenceInv, PhaseInv, InCompile, Critical, BuildSteps, Slots
  <2>3. \A u \in Threads : pc[u] # "init_ref"
    <3> SUFFICES ASSUME NEW u \in Threads, pc[u] = "init_ref" PROVE FALSE
      BY Zenon
    <3>1. u # t
      BY <2>2, Zenon DEF Critical
    <3>2. refs = {Ref(u)}
      BY Zenon DEF IInv, RefInv, CacheInv
    <3> QED BY <2>2, <3>1, <3>2, Zenon DEF Ref
  <2>4. CacheInv BY Zenon DEF IInv, RefInv
  <2>5. refs # {} BY <2>2, Zenon
  <2>6. \A u \in Threads : pc[u] # "down_decref" BY <2>4, <2>5, Zenon DEF CacheInv
  <2>7. users = 1 BY <2>3, <2>4, <2>5, <2>6, Zenon DEF CacheInv
  <2> QED BY <2>7
<1> QED BY <1>1, Inductive, PTL

(* g_init_refcount counts exactly the references outstanding.              *)
THEOREM RefcountIsExact == Spec => []RefcountExact
<1>1. IInv => RefcountExact
  BY Zenon DEF IInv, RefInv, CountInv, RefcountExact
<1> QED BY <1>1, Inductive, PTL

(* No exit of a compile leaks, and none hands out memory with an error.    *)
THEOREM EveryExitFrees == Spec => [](ReturnOwnership /\ IdleHoldsNothing)
<1>1. IInv => ReturnOwnership
  <2> SUFFICES ASSUME IInv, NEW t \in Threads, pc[t] = "returned"
               PROVE  /\ heap[t] = IF res[t] = "OK" THEN OutputBlocks ELSE {}
                      /\ out[t] = "filled" <=> res[t] = "OK"
    BY Zenon DEF ReturnOwnership
  <2>1. out[t] = "filled" <=> res[t] = "OK"
    BY Zenon DEF IInv, RefInv, PhaseInv, InCompile, MemInv, OutputInv
  <2>2. ASSUME NEW b \in Blocks PROVE b \in heap[t] <=> (b \in OutputBlocks /\ out[t] = "filled")
    BY Zenon
       DEF IInv, MemInv, HeapInv, Owns, OutputBlocks, HasNir, HasPrevious, HasControl, HasBinary,
       HasData, BuildSteps, Slots
  <2>3. heap[t] \subseteq Blocks /\ OutputBlocks \subseteq Blocks
    BY Zenon DEF IInv, TypeOK, OutputBlocks, Blocks
  <2> QED BY <2>1, <2>2, <2>3, Zenon
<1>2. IInv => IdleHoldsNothing
  <2> SUFFICES ASSUME IInv, NEW t \in Threads, pc[t] = "idle"
               PROVE  heap[t] = {} /\ <<t, "compile">> \notin refs
    BY Zenon DEF IdleHoldsNothing
  <2>1. out[t] # "filled"
    BY Zenon DEF IInv, MemInv, OutputInv, DownSteps
  <2>2. ASSUME NEW b \in Blocks PROVE b \notin heap[t]
    BY <2>1, Zenon DEF IInv, MemInv, HeapInv, Owns, HasNir, HasPrevious, HasControl, HasBinary,
       HasData, BuildSteps, Slots
  <2>3. heap[t] = {}
    BY <2>2, Zenon DEF IInv, TypeOK
  <2>4. <<t, "compile">> \notin refs
    BY Zenon DEF IInv, RefInv, ReferenceInv, BuildSteps, Slots, CountedSteps
  <2> QED BY <2>3, <2>4, Zenon
<1> QED BY <1>1, <1>2, Inductive, PTL

(* No block is freed twice.                                                *)
THEOREM NothingFreedTwice == Spec => []NoBadFree
<1>1. IInv => NoBadFree
  BY Zenon DEF IInv, MemInv
<1> QED BY <1>1, Inductive, PTL

(* What passing validate_spirv_capabilities means.                         *)
LEMMA ValidatedModule ==
  ASSUME NEW m, validate_spirv_capabilities(m) = "OK"
  PROVE  ~Unvalidated(m)
<1>1. m # "malformed"
  BY Zenon DEF validate_spirv_capabilities
<1>2. m # "withheld"
  BY Zenon DEF validate_spirv_capabilities
<1> QED BY <1>1, <1>2, Zenon DEF Unvalidated

(* The control half of a tessellated geometry pair is validated by its     *)
(* entry point, the only one that can build such a pair.                   *)
LEMMA ControlValidated ==
  ASSUME NEW r \in Request, EntryChecks(r) = "OK", paired_tess_geometry(r)
  PROVE  validate_spirv_capabilities(r.link) = "OK"
<1>1. MesaStage(r) = "GEOMETRY" /\ Spirv(r.link)
  BY Zenon DEF paired_tess_geometry, paired_geometry
<1>2. r.entry \in Entries /\ r.link \in ModulesOf(r.entry).link
  BY Zenon DEF Request, Arguments
<1>3. r.entry \in {"tess", "tess_geometry"}
  BY <1>1, <1>2, Zenon DEF ModulesOf, Entries, Spirv, SpirvModules
<1>4. r.entry # "tess"
  <2> SUFFICES ASSUME r.entry = "tess" PROVE FALSE
    BY Zenon
  <2>1. r.stage = "TESS_CTRL"
    BY Zenon DEF EntryChecks, Reject, ++
  <2>2. psbc_to_mesa_stage("TESS_CTRL") = "TESS_CTRL"
    BY Zenon DEF psbc_to_mesa_stage
  <2> QED BY <1>1, <2>1, <2>2, Zenon DEF MesaStage
<1> QED BY <1>3, <1>4, Zenon DEF EntryChecks, Reject, ++

(* Every shader that reaches the compiler, and the control half a          *)
(* tessellated geometry pair links, passed validate_spirv_capabilities.    *)
THEOREM OnlyValidatedModulesCompile == Spec => []CompiledModulesValidated
<1>1. IInv => CompiledModulesValidated
  <2> SUFFICES ASSUME IInv, NEW t \in Threads, NEW s \in (heap[t] \cap Slots) \ {"next_link"}
               PROVE  ~Unvalidated(SlotModule(req[t], s))
    BY Zenon DEF CompiledModulesValidated
  <2>1. s \in Slots /\ s # "next_link" /\ s \in heap[t] /\ s \in Blocks
    BY Zenon DEF Blocks
  <2>2. pc[t] \in BuildSteps \cup {"trapped"}
    BY <2>1, Zenon
       DEF IInv, MemInv, HeapInv, Owns, HasNir, HasPrevious, HasControl, BuildSteps, Slots
  <2>3. EntryChecks(req[t]) = "OK" /\ ImplChecks(req[t]) = "OK" /\ req[t] \in Request
    BY <2>2, RequestsAssumption, Zenon
       DEF IInv, TypeOK, RefInv, PhaseInv, InCompile, MemInv, GateInv
  <2>4. CASE s = "nir"
    BY <2>3, <2>4, GateFacts, ValidatedModule, Zenon DEF SlotModule
  <2>5. CASE s = "previous"
    BY <2>3, <2>5, GateFacts, ValidatedModule, Zenon DEF SlotModule
  <2>6. CASE s = "control"
    <3>1. paired_tess_geometry(req[t])
      BY <2>1, <2>6, Zenon DEF IInv, MemInv, HeapInv, GateInv, Owns
    <3>2. validate_spirv_capabilities(req[t].link) = "OK"
      BY <2>3, <3>1, ControlValidated, Zenon
    <3>3. SlotModule(req[t], "control") = req[t].link
      BY Zenon DEF SlotModule
    <3> QED BY <2>6, <3>2, <3>3, ValidatedModule, Zenon
  <2> QED BY <2>1, <2>4, <2>5, <2>6, Zenon DEF Slots
<1> QED BY <1>1, Inductive, PTL

-----------------------------------------------------------------------------
(* The mutex, the counter and the singleton of psbc_compile.c implement    *)
(* the type-cache lifetime TypeCache describes.                            *)
(*                                                                         *)
(* The state of the abstract cache.                                        *)
Cache == <<HeldRefs, users > 0>>

(* A step that moves one thread from outside psbc_init and psbc_shutdown's *)
(* two decisive points to outside them, and keeps the references, does not *)
(* change the abstract cache.                                              *)
LEMMA CacheFrame ==
  ASSUME TypeOK, NEW t \in Threads, NEW to,
         pc' = [pc EXCEPT ![t] = to], UNCHANGED <<users, refs>>,
         pc[t] \notin {"init_ref", "down_decref"}, to \notin {"init_ref", "down_decref"},
         \A u \in Threads \ {t} : req'[u] = req[u]
  PROVE  UNCHANGED Cache
<1>1. \A u \in Threads : /\ pc'[u] = "init_ref" <=> pc[u] = "init_ref"
                         /\ pc'[u] = "down_decref" <=> pc[u] = "down_decref"
  BY Zenon DEF TypeOK
<1>2. \A u \in Threads : pc[u] \in {"init_ref", "down_decref"} => Ref(u)' = Ref(u)
  BY Zenon DEF Ref
<1>3. HeldRefs' = HeldRefs
  <2>1. {Ref(u) : u \in {v \in Threads : pc[v] = "init_ref"}}' =
        {Ref(u) : u \in {v \in Threads : pc[v] = "init_ref"}}
    BY <1>1, <1>2
  <2>2. {Ref(u) : u \in {v \in Threads : pc[v] = "down_decref"}}' =
        {Ref(u) : u \in {v \in Threads : pc[v] = "down_decref"}}
    BY <1>1, <1>2
  <2> QED BY <2>1, <2>2, Zenon DEF HeldRefs
<1> QED BY <1>3, Zenon DEF Cache

(* The references held, by where the thread in the critical section is.    *)
LEMMA HeldCases ==
  ASSUME TypeOK, RefInv
  PROVE  /\ (\A u \in Threads : pc[u] \notin {"init_ref", "down_decref"}) => HeldRefs = refs
         /\ \A t \in Threads : pc[t] = "init_ref" => HeldRefs = {}
         /\ \A t \in Threads : pc[t] = "down_decref" => HeldRefs = {Ref(t)}
<1>1. \A t, u \in Threads : pc[t] \in Critical /\ pc[u] \in Critical => t = u
  BY Zenon DEF RefInv, MutexInv
<1>2. ASSUME \A u \in Threads : pc[u] \notin {"init_ref", "down_decref"}
      PROVE  HeldRefs = refs
  BY <1>2, Zenon DEF HeldRefs
<1>3. ASSUME NEW t \in Threads, pc[t] = "init_ref"
      PROVE  HeldRefs = {}
  <2>1. {u \in Threads : pc[u] = "init_ref"} = {t} /\ {u \in Threads : pc[u] = "down_decref"} = {}
    BY <1>1, <1>3, Zenon DEF Critical
  <2>2. refs = {Ref(t)}
    BY <1>3, Zenon DEF RefInv, CacheInv
  <2> QED BY <2>1, <2>2, Zenon DEF HeldRefs
<1>4. ASSUME NEW t \in Threads, pc[t] = "down_decref"
      PROVE  HeldRefs = {Ref(t)}
  <2>1. {u \in Threads : pc[u] = "down_decref"} = {t} /\ {u \in Threads : pc[u] = "init_ref"} = {}
    BY <1>1, <1>4, Zenon DEF Critical
  <2>2. refs = {}
    BY <1>4, Zenon DEF RefInv, CacheInv
  <2> QED BY <2>1, <2>2, Zenon DEF HeldRefs
<1> QED BY <1>2, <1>3, <1>4, Zenon

(* The same one step later.                                                *)
LEMMA HeldCasesNext ==
  ASSUME TypeOK', RefInv'
  PROVE  /\ (\A u \in Threads : pc'[u] \notin {"init_ref", "down_decref"}) => HeldRefs' = refs'
         /\ \A t \in Threads : pc'[t] = "init_ref" => HeldRefs' = {}
         /\ \A t \in Threads : pc'[t] = "down_decref" => HeldRefs' = {Ref(t)'}
<1>1. (/\ (\A u \in Threads : pc[u] \notin {"init_ref", "down_decref"}) => HeldRefs = refs
       /\ \A t \in Threads : pc[t] = "init_ref" => HeldRefs = {}
       /\ \A t \in Threads : pc[t] = "down_decref" => HeldRefs = {Ref(t)})'
  BY HeldCases, PTL
<1> QED BY <1>1, Zenon

(* psbc_init and psbc_shutdown take and drop abstract references.          *)
LEMMA CacheReference ==
  ASSUME TypeOK, RefInv, TypeOK', RefInv', NEW t \in Threads, Reference(t)
  PROVE  TC!Next \/ UNCHANGED Cache
<1> USE DEF LibraryStepOf, Step
<1>r. Ref(t) \in Threads \X Purposes /\ Ref(t)' = Ref(t)
  BY Zenon DEF Reference, InitLock, InitCount, InitRef, InitUnlock, ShutdownLock, ShutdownCount,
     ShutdownDecref, ShutdownUnlock, Ref, Purposes
<1>t. ReferenceInv!(t)
  BY Zenon DEF RefInv, ReferenceInv
<1>1. CASE InitLock(t) \/ InitUnlock(t) \/ ShutdownLock(t) \/ ShutdownUnlock(t)
  <2>1. PICK to : pc' = [pc EXCEPT ![t] = to] /\ to \notin {"init_ref", "down_decref"}
    BY <1>1 DEF InitLock, InitUnlock, ShutdownLock, ShutdownUnlock
  <2>2. UNCHANGED <<users, refs, req>> /\ pc[t] \notin {"init_ref", "down_decref"}
    BY <1>1, Zenon DEF InitLock, InitUnlock, ShutdownLock, ShutdownUnlock
  <2> QED BY <2>1, <2>2, CacheFrame, Zenon
<1>2. CASE InitCount(t)
  <2>1. \A u \in Threads : pc[u] \notin {"init_ref", "down_decref"}
    BY <1>2, Zenon DEF InitCount, RefInv, MutexInv, Critical
  <2>2. HeldRefs = refs /\ (users = IF refs = {} THEN 0 ELSE 1)
    BY <2>1, HeldCases, Zenon DEF RefInv, CacheInv
  <2>3. refcount = 0 <=> refs = {}
    BY FS_EmptySet, Zenon DEF RefInv, CountInv
  <2>4. Ref(t) \notin refs
    BY <1>2, <1>t, Zenon DEF InitCount, Ref, InitSteps, CountedSteps, BuildSteps, Slots
  <2>5. users' = users /\ refs' = refs \cup {Ref(t)}
    BY <1>2, Zenon DEF InitCount
  <2>6. CASE refs = {}
    <3>1. pc'[t] = "init_ref"
      BY <1>2, <2>3, <2>6, Zenon DEF InitCount, TypeOK
    <3> QED BY <2>2, <2>5, <2>6, <3>1, HeldCasesNext, Zenon DEF Cache
  <2>7. CASE refs # {}
    <3>1. \A u \in Threads : pc'[u] \notin {"init_ref", "down_decref"}
      BY <1>2, <2>1, <2>3, <2>7, Zenon DEF InitCount, TypeOK
    <3>2. HeldRefs' = HeldRefs \cup {Ref(t)} /\ users > 0 /\ users' > 0
      BY <2>2, <2>5, <2>7, <3>1, HeldCasesNext
    <3>3. TC!psbc_init(Ref(t))
      BY <2>2, <2>4, <3>2, Zenon DEF TC!psbc_init
    <3> QED BY <1>r, <3>3, Zenon DEF TC!Next
  <2> QED BY <2>6, <2>7, Zenon
<1>3. CASE InitRef(t)
  <2>1. HeldRefs = {} /\ users = 0 /\ refs = {Ref(t)}
    BY <1>3, HeldCases, Zenon DEF InitRef, RefInv, CacheInv
  <2>2. \A u \in Threads : pc'[u] \notin {"init_ref", "down_decref"}
    BY <1>3 DEF InitRef, RefInv, MutexInv, Critical, TypeOK
  <2>3. HeldRefs' = {Ref(t)} /\ users' = 1
    BY <1>3, <2>1, <2>2, HeldCasesNext DEF InitRef
  <2>4. TC!psbc_init(Ref(t))
    BY <2>1, <2>3 DEF TC!psbc_init
  <2> QED BY <1>r, <2>4, Zenon DEF TC!Next
<1>4. CASE ShutdownCount(t)
  <2>1. \A u \in Threads : pc[u] \notin {"init_ref", "down_decref"}
    BY <1>4, Zenon DEF ShutdownCount, RefInv, MutexInv, Critical
  <2>2. Ref(t) \in refs
    BY <1>4, <1>t, Zenon DEF ShutdownCount, Ref, DownSteps, CountedSteps
  <2>3. HeldRefs = refs /\ users = 1
    BY <2>1, <2>2, HeldCases, Zenon DEF RefInv, CacheInv
  <2>4. refs' = refs \ {Ref(t)} /\ users' = users
    BY <1>4, Zenon DEF ShutdownCount
  <2>5. CASE refcount = 1
    <3>1. pc'[t] = "down_decref"
      BY <1>4, <2>5, Zenon DEF ShutdownCount, TypeOK
    <3>2. refs' = {}
      BY <3>1, Zenon DEF RefInv, CacheInv
    <3>3. HeldRefs' = {Ref(t)}
      BY <1>r, <3>1, HeldCasesNext, Zenon
    <3>4. refs = {Ref(t)}
      BY <2>2, <2>4, <3>2, Zenon
    <3> QED BY <2>3, <2>4, <3>3, <3>4, Zenon DEF Cache
  <2>6. CASE refcount # 1
    <3>1. \A u \in Threads : pc'[u] \notin {"init_ref", "down_decref"}
      BY <1>4, <2>1, <2>6, Zenon DEF ShutdownCount, TypeOK
    <3>2. HeldRefs' = HeldRefs \ {Ref(t)}
      BY <2>3, <2>4, <3>1, HeldCasesNext, Zenon
    <3>3. users' = IF refs' = {} THEN 0 ELSE 1
      BY <3>1, Zenon DEF RefInv, CacheInv
    <3>4. refs' # {}
      BY <2>3, <2>4, <3>3
    <3>5. TC!psbc_shutdown(Ref(t))
      BY <2>2, <2>3, <2>4, <3>2, <3>4 DEF TC!psbc_shutdown
    <3> QED BY <1>r, <3>5, Zenon DEF TC!Next
  <2> QED BY <2>5, <2>6, Zenon
<1>5. CASE ShutdownDecref(t)
  <2>1. HeldRefs = {Ref(t)} /\ users = 1 /\ refs = {}
    BY <1>5, HeldCases, Zenon DEF ShutdownDecref, RefInv, CacheInv
  <2>2. \A u \in Threads : pc'[u] \notin {"init_ref", "down_decref"}
    BY <1>5, Zenon DEF ShutdownDecref, RefInv, MutexInv, Critical, TypeOK
  <2>3. HeldRefs' = {} /\ users' = 0
    BY <1>5, <2>1, <2>2, HeldCasesNext DEF ShutdownDecref
  <2>4. TC!psbc_shutdown(Ref(t))
    BY <2>1, <2>3 DEF TC!psbc_shutdown
  <2> QED BY <1>r, <2>4, Zenon DEF TC!Next
<1> QED BY <1>1, <1>2, <1>3, <1>4, <1>5, Zenon DEF Reference

(* Every step of the library takes one abstract step or none.              *)
LEMMA CacheStep ==
  ASSUME TypeOK, RefInv, TypeOK', RefInv', [Next]_vars
  PROVE  TC!Next \/ UNCHANGED Cache
<1>1. CASE UNCHANGED vars
  BY <1>1, Zenon DEF vars, Cache, HeldRefs, Ref
<1>2. ASSUME NEW t \in Threads, Reference(t)
      PROVE  TC!Next \/ UNCHANGED Cache
  BY <1>2, CacheReference, Zenon
<1>3. ASSUME NEW t \in Threads, Import(t) \/ Build(t)
      PROVE  UNCHANGED Cache
  <2>1. PICK to \in BuildSteps \cup {"down_lock", "trapped"} : pc' = [pc EXCEPT ![t] = to]
    BY <1>3, CompileMoves, Zenon DEF CompileMove
  <2>2. pc[t] \in BuildSteps /\ UNCHANGED <<req, users, refs>>
    BY <1>3, CompileMoves, Zenon DEF CompileMove, library
  <2> QED BY <2>1, <2>2, CacheFrame, Zenon DEF BuildSteps, Slots
<1>4. ASSUME NEW t \in Threads,
             CheckEntry(t) \/ CheckImpl(t) \/ Finish(t) \/ WithdrawOutput(t) \/ CallerStep(t)
      PROVE  UNCHANGED Cache
  <2>1. PICK to \in {"impl", "init_lock", "finish", "returned", "entry", "down_lock", "idle"} :
          pc' = [pc EXCEPT ![t] = to]
    BY <1>4, Zenon
       DEF CheckEntry, CheckImpl, Finish, WithdrawOutput, CallerStep, Call, DeviceInit,
       DeviceShutdown, psbc_free_output, Proceed, Step
  <2>2. /\ pc[t] \in {"entry", "impl", "finish", "idle", "returned"}
        /\ UNCHANGED <<users, refs>>
        /\ \A u \in Threads \ {t} : req'[u] = req[u]
    BY <1>4, Zenon
       DEF CheckEntry, CheckImpl, Finish, WithdrawOutput, CallerStep, Call, DeviceInit,
       DeviceShutdown, psbc_free_output, Proceed, Step, library, TypeOK
  <2> QED BY <2>1, <2>2, CacheFrame, Zenon
<1> QED BY <1>1, <1>2, <1>3, <1>4, Zenon DEF Next, LibraryStep

(* psbc_init and psbc_shutdown, for any number of threads and calls, keep  *)
(* the type cache allocated exactly while a reference is held.             *)
THEOREM ImplementsTypeCache == Spec => TypeCacheSpec
<1>1. Init => TC!Init
  BY DEF Init, TC!Init, HeldRefs
<1>2. IInv /\ IInv' /\ [Next]_vars => [TC!Next]_<<HeldRefs, users > 0>>
  BY CacheStep, Zenon DEF IInv, Cache
<1> QED BY <1>1, <1>2, Inductive, PTL DEF Spec, TypeCacheSpec, TC!Spec

-----------------------------------------------------------------------------
(* Where the options pointer of the caller's NIR points, by how far the    *)
(* call has got: p is its step, r its arguments, o the pointer.            *)
Passed(r)    == EntryChecks(r) = "OK" /\ NullChecks(r) = "OK" /\ ImplChecks(r) = "OK"
Retargets(r) == r.main = "NIR" /\ ~NirStageMismatch(r)

Pointer(p, r, o) ==
    /\ p \in {"idle", "entry", "impl", "nir"} \cup InitSteps => o = "caller"
    /\ r # NoRequest /\ p \in InitSteps \cup BuildSteps \cup DownSteps => Passed(r)
    /\ p \in BuildSteps \ {"nir"} => ~NirStageMismatch(r) /\ (o = "frame" <=> r.main = "NIR")
    /\ p \in DownSteps => IF r = NoRequest THEN o = "caller" ELSE o = "frame" <=> Retargets(r)
    /\ p \in {"finish", "returned"} => (o = "frame" <=> Retargets(r) /\ Passed(r))

OptionsInv == \A t \in Threads : Pointer(pc[t], req[t], options[t])

(* A step of one thread leaves the pointers of the others alone.           *)
LEMMA PointerFrame ==
  ASSUME TypeOK, OptionsInv, NEW t \in Threads, NEW p, NEW r, NEW o,
         pc' = [pc EXCEPT ![t] = p], req' = [req EXCEPT ![t] = r],
         options' = [options EXCEPT ![t] = o], Pointer(p, r, o)
  PROVE  OptionsInv'
<1>1. pc'[t] = p /\ req'[t] = r /\ options'[t] = o BY Zenon DEF TypeOK
<1>2. ASSUME NEW u \in Threads, u # t
      PROVE  pc'[u] = pc[u] /\ req'[u] = req[u] /\ options'[u] = options[u]
  BY <1>2, Zenon DEF TypeOK
<1>3. ASSUME NEW u \in Threads PROVE Pointer(pc'[u], req'[u], options'[u])
  BY <1>1, <1>2 DEF OptionsInv
<1> QED BY <1>3, Zenon DEF OptionsInv

(* The same for a step that keeps the arguments and the pointer.           *)
LEMMA PointerKept ==
  ASSUME TypeOK, OptionsInv, NEW t \in Threads, NEW p,
         pc' = [pc EXCEPT ![t] = p], UNCHANGED <<req, options>>,
         Pointer(p, req[t], options[t])
  PROVE  OptionsInv'
<1>1. req' = [req EXCEPT ![t] = req[t]] /\ options' = [options EXCEPT ![t] = options[t]]
  BY Zenon DEF TypeOK
<1> QED BY <1>1, PointerFrame, Zenon

(* A call that passed its checks has a main module, and one with NIR for   *)
(* the previous stage has NIR for its own.                                 *)
LEMMA PreviousNir ==
  ASSUME NEW r \in Request, NEW s \in Slots, Passed(r), SlotModule(r, s) = "NIR"
  PROVE  r.main = "NIR"
<1>1. Given(r.main) BY Zenon DEF Passed, NullChecks, Reject
<1>2. /\ r.entry \in Entries
      /\ r.main \in ModulesOf(r.entry).main
      /\ r.prev \in ModulesOf(r.entry).prev
      /\ r.link \in ModulesOf(r.entry).link
  BY Zenon DEF Request, Arguments
<1>3. CASE r.entry \in {"nir", "nir_geometry"}
  BY <1>1, <1>2, <1>3, Zenon DEF ModulesOf, Given
<1>4. CASE r.entry \notin {"nir", "nir_geometry"}
  BY <1>2, <1>4, Zenon DEF ModulesOf, Entries, SlotModule, SpirvModules
<1> QED BY <1>3, <1>4, Zenon

(* Preparing a shader: the caller's NIR is retargeted, other modules not.  *)
LEMMA PointerPrepare ==
  ASSUME TypeOK, OptionsInv, PhaseInv, NEW t \in Threads, NEW s \in Slots,
         prepare_stage_nir(t, s) \/ PrepareFails(t, s)
  PROVE  OptionsInv'
<1> DEFINE r == req[t]
           o == IF SlotModule(r, s) = "NIR" THEN "frame" ELSE options[t]
<1>1. pc[t] = s /\ (s = "nir" => ~NirStageMismatch(r)) /\ UNCHANGED req
  BY Zenon DEF prepare_stage_nir, PrepareFails, Step
<1>2. PICK p \in (BuildSteps \ {"nir"}) \cup {"down_lock"} : pc' = [pc EXCEPT ![t] = p]
  <2>1. AfterSlot(r, s) \in BuildSteps \ {"nir"} BY Zenon DEF AfterSlot, BuildSteps, Slots
  <2> QED BY <2>1, Zenon DEF prepare_stage_nir, PrepareFails, Step
<1>3. options' = [options EXCEPT ![t] = o] /\ req' = [req EXCEPT ![t] = r]
  BY <1>1, Zenon DEF prepare_stage_nir, PrepareFails, ImportOptions, TypeOK
<1>4. r # NoRequest /\ r \in Request
  BY <1>1, RequestsAssumption, Zenon DEF PhaseInv, InCompile, BuildSteps, TypeOK
<1>5. Pointer(s, r, options[t]) BY <1>1, Zenon DEF OptionsInv
<1>6. Passed(r) BY <1>4, <1>5, Zenon DEF Pointer, BuildSteps
<1>7. ~NirStageMismatch(r) BY <1>1, <1>5, Zenon DEF Pointer, BuildSteps
<1>8. SlotModule(r, s) = "NIR" => r.main = "NIR" BY <1>4, <1>6, PreviousNir, Zenon
<1>9. s = "nir" => SlotModule(r, s) = r.main BY Zenon DEF SlotModule
<1>10. s # "nir" => (options[t] = "frame" <=> r.main = "NIR")
  BY <1>5, Zenon DEF Pointer, BuildSteps
<1>11. s = "nir" => options[t] = "caller" BY <1>5, Zenon DEF Pointer
<1>12. o = "frame" <=> r.main = "NIR" BY <1>8, <1>9, <1>10, <1>11, Zenon
<1> HIDE DEF r, o
<1>13. Pointer(p, r, o)
  BY <1>2, <1>4, <1>6, <1>7, <1>12, Zenon
     DEF Pointer, Retargets, BuildSteps, Slots, InitSteps, DownSteps
<1> QED BY <1>2, <1>3, <1>13, PointerFrame, Zenon

(* The other steps of the import, and the build behind it.                 *)
LEMMA PointerBuild ==
  ASSUME TypeOK, OptionsInv, PhaseInv, NEW t \in Threads, Import(t) \/ Build(t)
  PROVE  OptionsInv'
<1>1. CASE \E s \in Slots : prepare_stage_nir(t, s) \/ PrepareFails(t, s)
  BY <1>1, PointerPrepare, Zenon
<1>p. Pointer(pc[t], req[t], options[t]) BY Zenon DEF OptionsInv
<1>q. pc[t] \in BuildSteps => req[t] # NoRequest BY Zenon DEF PhaseInv, InCompile
<1>2. CASE RejectNirStage(t)
  <2>1. /\ pc[t] = "nir" /\ pc' = [pc EXCEPT ![t] = "down_lock"] /\ UNCHANGED <<req, options>>
        /\ NirStageMismatch(req[t])
    BY <1>2, Zenon DEF RejectNirStage, Fail, Step
  <2>2. Pointer("down_lock", req[t], options[t])
    BY <1>p, <1>q, <2>1, Zenon DEF Pointer, Retargets, BuildSteps, Slots, InitSteps, DownSteps
  <2> QED BY <2>1, <2>2, PointerKept, Zenon
<1>3. CASE \E s \in Slots : PrepareTraps(t, s)
  <2>1. pc' = [pc EXCEPT ![t] = "trapped"] /\ UNCHANGED <<req, options>>
    BY <1>3, Zenon DEF PrepareTraps, Proceed, Step
  <2>2. Pointer("trapped", req[t], options[t])
    BY Zenon DEF Pointer, BuildSteps, Slots, InitSteps, DownSteps
  <2> QED BY <2>1, <2>2, PointerKept, Zenon
<1>4. CASE CopyLinkFacts(t) \/ Build(t)
  <2>1. /\ pc[t] \in BuildSteps \ {"nir"}
        /\ \E to \in (BuildSteps \ {"nir"}) \cup {"down_lock"} : pc' = [pc EXCEPT ![t] = to]
        /\ UNCHANGED <<req, options>>
    BY <1>4, Zenon
       DEF CopyLinkFacts, Build, AcceptState, RejectState, Lower, SplitFails, InputSemantics,
     InputSemanticsFail, radv_shader_nir_to_asm, AcoFails, BuildNewcode, NewcodeFails,
     BuildImage, ImageFails, NoHeader, CopyMachineCode, MachineCodeFails, Publish,
     Fail, Proceed, Step, BuildSteps
  <2>2. PICK to \in (BuildSteps \ {"nir"}) \cup {"down_lock"} : pc' = [pc EXCEPT ![t] = to]
    BY <2>1, Zenon
  <2>3. Pointer(to, req[t], options[t])
    BY <1>p, <1>q, <2>1, Zenon DEF Pointer, Retargets, BuildSteps, Slots, InitSteps, DownSteps
  <2> QED BY <2>1, <2>2, <2>3, PointerKept, Zenon
<1> QED BY <1>1, <1>2, <1>3, <1>4, Zenon DEF Import

(* psbc_init and psbc_shutdown leave the pointer alone.                    *)
LEMMA PointerReference ==
  ASSUME TypeOK, OptionsInv, NEW t \in Threads, Reference(t)
  PROVE  OptionsInv'
<1>p. Pointer(pc[t], req[t], options[t]) BY Zenon DEF OptionsInv
<1>1. UNCHANGED <<req, options>>
  BY Zenon DEF Reference, LibraryStepOf, InitLock, InitCount, InitRef, InitUnlock, ShutdownLock,
     ShutdownCount, ShutdownDecref, ShutdownUnlock
<1>2. CASE \E to \in InitSteps : pc[t] \in InitSteps /\ pc' = [pc EXCEPT ![t] = to]
  <2>1. PICK to \in InitSteps : pc' = [pc EXCEPT ![t] = to] BY <1>2, Zenon
  <2>2. Pointer(to, req[t], options[t])
    BY <1>p, <1>2, Zenon DEF Pointer, BuildSteps, Slots, InitSteps, DownSteps
  <2> QED BY <1>1, <2>1, <2>2, PointerKept, Zenon
<1>3. CASE InitUnlock(t)
  <2>1. /\ pc[t] = "init_unlock"
        /\ pc' = [pc EXCEPT ![t] = IF req[t] = NoRequest THEN "idle" ELSE "nir"]
    BY <1>3, Zenon DEF InitUnlock, LibraryStepOf, Step
  <2>2. Pointer(IF req[t] = NoRequest THEN "idle" ELSE "nir", req[t], options[t])
    BY <1>p, <2>1, Zenon DEF Pointer, BuildSteps, Slots, InitSteps, DownSteps
  <2> QED BY <1>1, <2>1, <2>2, PointerKept, Zenon
<1>4. CASE \E to \in DownSteps : pc[t] \in DownSteps /\ pc' = [pc EXCEPT ![t] = to]
  <2>1. PICK to \in DownSteps : pc' = [pc EXCEPT ![t] = to] BY <1>4, Zenon
  <2>2. Pointer(to, req[t], options[t])
    BY <1>p, <1>4, Zenon DEF Pointer, BuildSteps, Slots, InitSteps, DownSteps
  <2> QED BY <1>1, <2>1, <2>2, PointerKept, Zenon
<1>5. CASE ShutdownUnlock(t)
  <2>1. /\ pc[t] = "down_unlock"
        /\ pc' = [pc EXCEPT ![t] = IF req[t] = NoRequest THEN "idle" ELSE "finish"]
    BY <1>5, Zenon DEF ShutdownUnlock, LibraryStepOf, Step
  <2>2. Pointer(IF req[t] = NoRequest THEN "idle" ELSE "finish", req[t], options[t])
    BY <1>p, <2>1, Zenon DEF Pointer, BuildSteps, Slots, InitSteps, DownSteps
  <2> QED BY <1>1, <2>1, <2>2, PointerKept, Zenon
<1> QED
  BY <1>2, <1>3, <1>4, <1>5, Zenon
     DEF Reference, LibraryStepOf, Step, InitLock, InitCount, InitRef,
     ShutdownLock, ShutdownCount, ShutdownDecref, InitSteps, DownSteps

(* The checks, the return and the caller.                                  *)
LEMMA PointerCall ==
  ASSUME TypeOK, OptionsInv, PhaseInv, GateInv, NEW t \in Threads,
         CheckEntry(t) \/ CheckImpl(t) \/ Finish(t) \/ WithdrawOutput(t) \/ CallerStep(t)
  PROVE  OptionsInv'
<1> USE DEF Pointer, BuildSteps, Slots, InitSteps, DownSteps
<1>p. Pointer(pc[t], req[t], options[t]) BY Zenon DEF OptionsInv
<1>1. CASE CheckEntry(t)
  <2>1. /\ pc[t] = "entry" /\ UNCHANGED <<req, options>>
        /\ pc' = [pc EXCEPT ![t] = IF EntryChecks(req[t]) = "OK" THEN "impl" ELSE "returned"]
    BY <1>1, Zenon DEF CheckEntry
  <2>2. Pointer(IF EntryChecks(req[t]) = "OK" THEN "impl" ELSE "returned", req[t], options[t])
    BY <1>p, <2>1, Zenon DEF Passed
  <2> QED BY <2>1, <2>2, PointerKept, Zenon
<1>2. CASE CheckImpl(t)
  <2> DEFINE ok == NullChecks(req[t]) ++ ImplChecks(req[t]) = "OK"
  <2>1. /\ pc[t] = "impl" /\ UNCHANGED <<req, options>>
        /\ pc' = [pc EXCEPT ![t] = IF ok THEN "init_lock" ELSE "finish"]
    BY <1>2, Zenon DEF CheckImpl
  <2>2. ok <=> Passed(req[t]) BY <2>1, Zenon DEF GateInv, Passed, ++
  <2> HIDE DEF ok
  <2>3. Pointer(IF ok THEN "init_lock" ELSE "finish", req[t], options[t])
    BY <1>p, <2>1, <2>2, Zenon
  <2> QED BY <2>1, <2>3, PointerKept, Zenon
<1>3. CASE Finish(t) \/ WithdrawOutput(t)
  <2>1. /\ pc[t] = "finish" /\ UNCHANGED <<req, options>> /\ pc' = [pc EXCEPT ![t] = "returned"]
    BY <1>3, Zenon DEF Finish, WithdrawOutput, Proceed, Step
  <2>2. Pointer("returned", req[t], options[t]) BY <1>p, <2>1, Zenon
  <2> QED BY <2>1, <2>2, PointerKept, Zenon
<1>4. CASE Call(t)
  <2>1. pc[t] = "idle" /\ pc' = [pc EXCEPT ![t] = "entry"] /\ UNCHANGED options
    BY <1>4, Zenon DEF Call, Step
  <2>2. PICK r \in Offered : req' = [req EXCEPT ![t] = r] BY <1>4, Zenon DEF Call
  <2>3. options' = [options EXCEPT ![t] = options[t]] BY <2>1, Zenon DEF TypeOK
  <2>4. Pointer("entry", r, options[t]) BY <1>p, <2>1, Zenon
  <2> QED BY <2>1, <2>2, <2>3, <2>4, PointerFrame, Zenon
<1>5. CASE DeviceInit(t) \/ DeviceShutdown(t)
  <2>1. pc[t] = "idle" /\ UNCHANGED <<req, options>>
    BY <1>5, Zenon DEF DeviceInit, DeviceShutdown, Proceed, Step
  <2>2. PICK to \in {"init_lock", "down_lock"} : pc' = [pc EXCEPT ![t] = to]
    BY <1>5, Zenon DEF DeviceInit, DeviceShutdown, Proceed, Step
  <2>3. req[t] = NoRequest BY <2>1, Zenon DEF PhaseInv
  <2>4. Pointer(to, req[t], options[t]) BY <1>p, <2>1, <2>3, Zenon
  <2> QED BY <2>1, <2>2, <2>4, PointerKept, Zenon
<1>6. CASE psbc_free_output(t)
  <2>1. /\ pc' = [pc EXCEPT ![t] = "idle"] /\ req' = [req EXCEPT ![t] = NoRequest]
        /\ options' = [options EXCEPT ![t] = "caller"]
    BY <1>6, Zenon DEF psbc_free_output, Step
  <2>2. Pointer("idle", NoRequest, "caller") BY Zenon
  <2> QED BY <2>1, <2>2, PointerFrame, Zenon
<1> HIDE DEF Pointer
<1> QED BY <1>1, <1>2, <1>3, <1>4, <1>5, <1>6, Zenon DEF CallerStep

(* For any threads, requests and number of calls, a call that was refused  *)
(* has not touched the caller's NIR.                                       *)
THEOREM RefusalLeavesNir == Spec => []RefusedNirUntouched
<1>1. Init => OptionsInv
  BY DEF Init, OptionsInv, Pointer, BuildSteps, Slots, InitSteps, DownSteps
<1>2. IInv /\ OptionsInv /\ [Next]_vars => OptionsInv'
  <2> SUFFICES ASSUME IInv, OptionsInv, [Next]_vars PROVE OptionsInv'
    BY Zenon
  <2>1. TypeOK /\ PhaseInv /\ GateInv BY Zenon DEF IInv, RefInv, MemInv
  <2>2. CASE UNCHANGED vars BY <2>2, Zenon DEF vars, OptionsInv
  <2>3. CASE Next
    BY <2>1, <2>3, PointerBuild, PointerReference, PointerCall, Zenon DEF Next, LibraryStep
  <2> QED BY <2>2, <2>3, Zenon
<1>3. TypeOK /\ OptionsInv => RefusedNirUntouched
  <2> SUFFICES ASSUME TypeOK, OptionsInv, NEW t \in Threads, pc[t] = "returned"
               PROVE  options[t] = "caller" \/ (Retargets(req[t]) /\ Passed(req[t]))
    BY Zenon DEF RefusedNirUntouched, Passed, Retargets
  <2>1. options[t] \in {"caller", "frame"} BY Zenon DEF TypeOK
  <2>2. options[t] = "frame" => Retargets(req[t]) /\ Passed(req[t])
    BY Zenon DEF OptionsInv, Pointer
  <2> QED BY <2>1, <2>2, Zenon
<1>4. IInv => TypeOK BY Zenon DEF IInv
<1> QED BY <1>1, <1>2, <1>3, <1>4, Inductive, PTL DEF Spec
=============================================================================
