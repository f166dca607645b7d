-------------------------- MODULE PsbcMemoryProofs ---------------------------
(***************************************************************************)
(* Proofs about PsbcCompile for any set of threads, any set of requests    *)
(* and any bound on calls: every step keeps the types, and every step      *)
(* keeps what a compile owns.                                              *)
(***************************************************************************)
EXTENDS PsbcCompile, TLAPS

(* Whatever the application may ask for at the moment is a request.        *)
LEMMA OfferedRequests == Offered \subseteq Request /\ NoRequest \notin Offered
BY RequestsAssumption, Zenon DEF Offered

-----------------------------------------------------------------------------
(* The checks before a compile return one of the declared results.         *)
LEMMA EntryChecksType == ASSUME NEW r PROVE EntryChecks(r) \in Results
  BY Zenon DEF EntryChecks, Results, validate_spirv_capabilities, Reject, ++

(* So do the checks of psbc_compile_impl.                                  *)
LEMMA ImplChecksType == ASSUME NEW r PROVE NullChecks(r) ++ ImplChecks(r) \in Results
<1>1. \A bad, x : x \in Results => Reject(bad, x) \in Results BY Zenon DEF Reject, Results
<1>2. \A x, y : x \in Results /\ y \in Results => (x ++ y) \in Results BY Zenon DEF ++
<1>3. \A m : validate_spirv_capabilities(m) \in Results
  BY Zenon DEF validate_spirv_capabilities, Results
<1>4. "INTERNAL_ERROR" \in Results /\ "UNSUPPORTED_STAGE" \in Results BY Zenon DEF Results
<1>5. NullChecks(r) \in Results BY <1>1, <1>4, Zenon DEF NullChecks
<1>6. ImplChecks(r) \in Results BY <1>1, <1>2, <1>3, <1>4 DEF ImplChecks, PreviousVerdict
<1> QED BY <1>2, <1>5, <1>6, Zenon

(* Every step a slot leads to is a step of the compile.                    *)
LEMMA AfterSlotType == ASSUME NEW r, NEW s \in Slots PROVE AfterSlot(r, s) \in BuildSteps
  BY Zenon DEF AfterSlot, BuildSteps, Slots

-----------------------------------------------------------------------------
(* An import or build step of a thread moves only that thread, within the  *)
(* compile or to one of its exits, and touches neither the arguments nor   *)
(* the library's reference state.                                          *)
CompileMove(t) ==
    /\ pc[t] \in BuildSteps
    /\ \E to \in BuildSteps \cup {"down_lock", "trapped"} : pc' = [pc EXCEPT ![t] = to]
    /\ UNCHANGED <<req, calls, library>>

(* Every import and build step is such a move.                             *)
LEMMA CompileMoves ==
  ASSUME NEW t \in Threads, Import(t) \/ Build(t)
  PROVE  CompileMove(t)
<1> USE DEF CompileMove, Step, BuildSteps
<1>1. CASE \E s \in Slots : prepare_stage_nir(t, s)
  BY <1>1, AfterSlotType, Zenon DEF prepare_stage_nir, Slots
<1>2. CASE \E s \in Slots : PrepareFails(t, s)
  BY <1>2, Zenon DEF PrepareFails, Slots
<1>3. CASE \E s \in Slots : PrepareTraps(t, s)
  BY <1>3, Zenon DEF PrepareTraps, Proceed, Slots
<1>4. CASE RejectNirStage(t) \/ CopyLinkFacts(t)
  BY <1>4, Zenon DEF RejectNirStage, CopyLinkFacts, Fail, Slots
<1>5. CASE Build(t)
  BY <1>5, Zenon DEF Build, AcceptState, RejectState, Lower, SplitFails, InputSemantics,
     InputSemanticsFail, radv_shader_nir_to_asm, AcoFails, BuildNewcode, NewcodeFails,
     BuildImage, ImageFails, NoHeader, CopyMachineCode, MachineCodeFails, Publish,
     Fail, Proceed
<1> QED BY <1>1, <1>2, <1>3, <1>4, <1>5, Zenon DEF Import

(* free() yields a heap of the declared blocks.                            *)
LEMMA FreeType ==
  ASSUME TypeOK, NEW t \in Threads, NEW S, Free(t, S)
  PROVE  heap' \in [Threads -> SUBSET Blocks] /\ badFree' \in BOOLEAN
<1>1. heap' \in [Threads -> SUBSET Blocks]
  BY Zenon DEF TypeOK, Free
<1>2. badFree' \in BOOLEAN
  BY Zenon DEF TypeOK, Free
<1> QED BY <1>1, <1>2, Zenon

(* The memory part of the type invariant under an import or build step.    *)
LEMMA CompileMoveTypes ==
  ASSUME TypeOK, NEW t \in Threads, Import(t) \/ Build(t)
  PROVE  /\ res' \in [Threads -> Results]
         /\ out' \in [Threads -> {"unset", "zero", "filled"}]
         /\ ptr' \in [Threads -> SUBSET Blocks]
         /\ heap' \in [Threads -> SUBSET Blocks]
         /\ badFree' \in BOOLEAN
         /\ options' \in [Threads -> {"caller", "frame"}]
<1> USE FreeType DEF TypeOK, Results, Blocks, Slots, Alloc, ImportOptions, memory, library
<1>1. CASE \E s \in Slots : prepare_stage_nir(t, s)
  BY <1>1 DEF prepare_stage_nir
<1>2. CASE \E s \in Slots : PrepareFails(t, s)
  BY <1>2 DEF PrepareFails
<1>3. CASE \E s \in Slots : PrepareTraps(t, s)
  BY <1>3, Zenon DEF PrepareTraps, Proceed
<1>4. CASE RejectNirStage(t) \/ CopyLinkFacts(t)
  BY <1>4 DEF RejectNirStage, CopyLinkFacts, Fail
<1>5. CASE Build(t)
  <2>1. CASE AcceptState(t) \/ Lower(t) \/ InputSemantics(t)
    BY <2>1, Zenon DEF AcceptState, Lower, InputSemantics, Proceed
  <2>2. CASE \/ RejectState(t) \/ SplitFails(t) \/ InputSemanticsFail(t) \/ AcoFails(t)
             \/ NewcodeFails(t) \/ ImageFails(t) \/ NoHeader(t) \/ MachineCodeFails(t)
    BY <2>2, Zenon DEF RejectState, SplitFails, InputSemanticsFail, AcoFails, NewcodeFails,
       ImageFails, NoHeader, MachineCodeFails, Fail
  <2>3. CASE radv_shader_nir_to_asm(t) \/ BuildNewcode(t) \/ CopyMachineCode(t)
    BY <2>3 DEF radv_shader_nir_to_asm, BuildNewcode, CopyMachineCode
  <2>4. CASE BuildImage(t) \/ Publish(t)
    <3>1. CASE BuildImage(t)
      <4>1. badFree' \in BOOLEAN
        BY <3>1, Zenon DEF BuildImage
      <4> QED BY <3>1, <4>1, Zenon DEF BuildImage
    <3>2. CASE Publish(t)
      BY <3>2, Zenon DEF Publish
    <3> QED BY <2>4, <3>1, <3>2, Zenon
  <2> QED BY <1>5, <2>1, <2>2, <2>3, <2>4, Zenon DEF Build
<1> QED BY <1>1, <1>2, <1>3, <1>4, <1>5, Zenon DEF Import

(* Every step keeps the types.                                             *)
LEMMA TypeStep ==
  ASSUME TypeOK, CacheInv, [Next]_vars
  PROVE  TypeOK'
<1> USE DEF Steps, InitSteps, DownSteps, BuildSteps, Slots
<1>1. CASE UNCHANGED vars
  BY <1>1, Zenon DEF vars, TypeOK
<1>2. ASSUME NEW t \in Threads, Import(t) \/ Build(t)
      PROVE  TypeOK'
  BY <1>2, CompileMoves, CompileMoveTypes DEF CompileMove, TypeOK, library
<1>3. ASSUME NEW t \in Threads, Reference(t)
      PROVE  TypeOK'
  <2> USE DEF LibraryStepOf, Step, memory, TypeOK
  <2>1. CASE InitLock(t) \/ ShutdownLock(t)
    BY <2>1, Zenon DEF InitLock, ShutdownLock
  <2>2. CASE InitCount(t) \/ ShutdownCount(t)
    BY <2>2 DEF InitCount, ShutdownCount, Ref, Purposes
  <2>3. CASE InitRef(t) \/ ShutdownDecref(t)
    BY <2>3 DEF InitRef, ShutdownDecref, CacheInv
  <2>4. CASE InitUnlock(t) \/ ShutdownUnlock(t)
    BY <2>4, Zenon DEF InitUnlock, ShutdownUnlock
  <2> QED BY <1>3, <2>1, <2>2, <2>3, <2>4, Zenon DEF Reference
<1>4. ASSUME NEW t \in Threads, CheckEntry(t) \/ CheckImpl(t)
      PROVE  TypeOK'
  BY <1>4, EntryChecksType, ImplChecksType
     DEF CheckEntry, CheckImpl, TypeOK, memory, library
<1>5. ASSUME NEW t \in Threads, Finish(t) \/ WithdrawOutput(t)
      PROVE  TypeOK'
  BY <1>5, FreeType, ZenonT(30)
     DEF Finish, WithdrawOutput, Proceed, Step, Results, TypeOK, memory, library
<1>6. ASSUME NEW t \in Threads, CallerStep(t)
      PROVE  TypeOK'
  <2>1. CASE Call(t) \/ DeviceInit(t) \/ DeviceShutdown(t)
    BY <2>1, MaxCallsAssumption, OfferedRequests
       DEF Call, MayCall, DeviceInit, DeviceShutdown, Proceed, Step, TypeOK, memory, library
  <2>2. CASE psbc_free_output(t)
    BY <2>2, FreeType, Zenon DEF psbc_free_output, Step, Results, TypeOK, library
  <2> QED BY <1>6, <2>1, <2>2, Zenon DEF CallerStep
<1> QED
  BY <1>1, <1>2, <1>3, <1>4, <1>5, <1>6, Zenon DEF Next, LibraryStep

-----------------------------------------------------------------------------
(* What the checks before a compile guarantee once it is under way.        *)
LEMMA GateFacts ==
  ASSUME NEW r, ImplChecks(r) = "OK"
  PROVE  /\ ~PairUnsupported(r)
         /\ validate_spirv_capabilities(r.main) = "OK"
         /\ validate_spirv_capabilities(r.prev) = "OK"
  BY Zenon DEF ImplChecks, PreviousVerdict, Reject, ++

(* A fragment shader is never compiled together with a previous stage.     *)
LEMMA FragmentIsAlone ==
  ASSUME NEW r, ImplChecks(r) = "OK", MesaStage(r) = "FRAGMENT"
  PROVE  ~paired_previous(r) /\ ~paired_tess_geometry(r)
  BY GateFacts, Zenon DEF PairUnsupported, paired_geometry, paired_hull, paired_domain,
     paired_tess_geometry

(* Hull pairs and geometry pairs exclude one another, and both are pairs.  *)
LEMMA PairKinds ==
  ASSUME NEW r
  PROVE  /\ paired_hull(r) => paired_previous(r) /\ ~paired_tess_geometry(r)
         /\ paired_tess_geometry(r) => paired_previous(r)
  BY Zenon DEF paired_hull, paired_tess_geometry, paired_geometry

(* The order in which a compile prepares its shaders.                      *)
LEMMA SlotOrder ==
  ASSUME NEW r
  PROVE  /\ AfterSlot(r, "nir") = IF paired_previous(r) THEN "previous" ELSE "state"
         /\ paired_hull(r) => AfterSlot(r, "previous") \in {"next_link", "state"}
         /\ paired_tess_geometry(r) => AfterSlot(r, "previous") = "control"
         /\ ~paired_hull(r) /\ ~paired_tess_geometry(r) => AfterSlot(r, "previous") = "state"
         /\ AfterSlot(r, "next_link") = "facts"
         /\ AfterSlot(r, "control") = "state"
  BY PairKinds, Zenon DEF AfterSlot

(* The stages imported before each one.                                    *)
LEMMA SlotsBefore ==
  /\ EarlierSlots("nir") = {}
  /\ EarlierSlots("previous") = {"nir"}
  /\ EarlierSlots("next_link") = {"previous", "nir"}
  /\ EarlierSlots("control") = {"previous", "nir"}
  BY Zenon DEF EarlierSlots

(* The memory invariant of one thread; a step of another thread keeps it.  *)
ThreadMem(t) == OutputInv!(t) /\ GateInv!(t) /\ HeapInv!(t) /\ PtrInv!(t)

(* A step of one thread leaves what the others own alone.                  *)
LEMMA MemFrame ==
  ASSUME TypeOK, TypeOK', MemInv, NEW t \in Threads, ThreadMem(t)', ~badFree',
         \A u \in Threads \ {t} :
            /\ pc'[u] = pc[u] /\ req'[u] = req[u] /\ res'[u] = res[u]
            /\ out'[u] = out[u] /\ heap'[u] = heap[u] /\ ptr'[u] = ptr[u]
  PROVE  MemInv'
<1>1. ASSUME NEW u \in Threads, u # t PROVE ThreadMem(u)'
  <2>1. ThreadMem(u)
    BY Zenon DEF MemInv, OutputInv, GateInv, HeapInv, PtrInv, ThreadMem
  <2>2. \A b \in Blocks : Owns(u, b)' <=> Owns(u, b)
    <3>1. pc'[u] = pc[u] /\ req'[u] = req[u] /\ out'[u] = out[u]
      BY <1>1, Zenon
    <3>2. /\ paired_previous(req[u])' <=> paired_previous(req[u])
          /\ paired_tess_geometry(req[u])' <=> paired_tess_geometry(req[u])
      BY <3>1, Zenon DEF paired_previous, paired_tess_geometry, paired_geometry
    <3>3. ASSUME NEW b \in Blocks PROVE Owns(u, b)' <=> Owns(u, b)
      BY <3>1, <3>2, Zenon DEF Owns
    <3> QED BY <3>3, Zenon
  <2>3. /\ pc'[u] = pc[u] /\ req'[u] = req[u] /\ res'[u] = res[u]
        /\ out'[u] = out[u] /\ heap'[u] = heap[u] /\ ptr'[u] = ptr[u]
    BY <1>1, Zenon
  <2>4. OutputInv!(u)' BY <2>1, <2>3, Zenon DEF ThreadMem
  <2>5. GateInv!(u)' BY <2>1, <2>3, Zenon DEF ThreadMem
  <2>6. HeapInv!(u)' BY <2>1, <2>2, <2>3, Zenon DEF ThreadMem
  <2>7. PtrInv!(u)' BY <2>1, <2>3, Zenon DEF ThreadMem
  <2> QED BY <2>4, <2>5, <2>6, <2>7, Zenon DEF ThreadMem
<1>2. \A u \in Threads : ThreadMem(u)'
  BY <1>1, Zenon
<1>3. OutputInv' BY <1>2, Zenon DEF ThreadMem, OutputInv
<1>4. GateInv' BY <1>2, Zenon DEF ThreadMem, GateInv
<1>5. HeapInv' BY <1>2, Zenon DEF ThreadMem, HeapInv
<1>6. PtrInv' BY <1>2, Zenon DEF ThreadMem, PtrInv
<1> QED
  BY <1>3, <1>4, <1>5, <1>6, Zenon DEF MemInv, NoBadFree

(* psbc_init and psbc_shutdown keep the memory invariant.                  *)
LEMMA MemReference ==
  ASSUME TypeOK, TypeOK', RefInv, MemInv, NEW t \in Threads, Reference(t)
  PROVE  MemInv'
<1>1. /\ pc[t] \in InitSteps \cup DownSteps
      /\ \E to \in Steps : pc' = [pc EXCEPT ![t] = to]
      /\ pc'[t] \in InitSteps \cup DownSteps \cup {"idle", "nir", "finish"}
      /\ pc'[t] = "idle" => req[t] = NoRequest
      /\ pc'[t] = "nir" => pc[t] \in InitSteps /\ req[t] # NoRequest
      /\ pc'[t] = "finish" => pc[t] \in DownSteps /\ req[t] # NoRequest
      /\ pc'[t] \in InitSteps => pc[t] \in InitSteps
      /\ pc'[t] \in DownSteps => pc[t] \in DownSteps
  <2> USE DEF LibraryStepOf, Step, InitSteps, DownSteps, TypeOK, Steps
  <2>1. CASE InitLock(t) \/ InitCount(t) \/ InitRef(t)
    BY <2>1 DEF InitLock, InitCount, InitRef
  <2>2. CASE InitUnlock(t)
    BY <2>2, Zenon DEF InitUnlock, BuildSteps, Slots
  <2>3. CASE ShutdownLock(t) \/ ShutdownCount(t) \/ ShutdownDecref(t)
    BY <2>3 DEF ShutdownLock, ShutdownCount, ShutdownDecref
  <2>4. CASE ShutdownUnlock(t)
    BY <2>4, Zenon DEF ShutdownUnlock
  <2> HIDE DEF LibraryStepOf, Step, InitSteps, DownSteps, TypeOK, Steps
  <2> QED BY <2>1, <2>2, <2>3, <2>4, Zenon DEF Reference
<1>2. UNCHANGED <<req, res, out, ptr, heap, badFree>>
  BY Zenon DEF Reference, InitLock, InitCount, InitRef, InitUnlock, ShutdownLock, ShutdownCount,
     ShutdownDecref, ShutdownUnlock, LibraryStepOf, memory
<1>3. ThreadMem(t)
  BY Zenon DEF MemInv, OutputInv, GateInv, HeapInv, PtrInv, ThreadMem
<1>4. /\ req'[t] = req[t] /\ res'[t] = res[t] /\ out'[t] = out[t]
      /\ ptr'[t] = ptr[t] /\ heap'[t] = heap[t]
  BY <1>2, Zenon
<1>5. OutputInv!(t)'
  BY <1>1, <1>3, <1>4, Zenon DEF ThreadMem, InitSteps, DownSteps
<1>6. GateInv!(t)'
  BY <1>1, <1>3, <1>4, Zenon DEF ThreadMem, InitSteps, DownSteps, BuildSteps, Slots
<1>7. HeapInv!(t)'
  <2>1. pc[t] # "trapped"
    BY <1>1, Zenon DEF InitSteps, DownSteps
  <2>2. ASSUME NEW b \in Blocks PROVE Owns(t, b)' <=> Owns(t, b)
    BY <1>1, <1>4, Zenon DEF Owns, HasNir, HasPrevious, HasControl, HasBinary, HasData,
       InitSteps, DownSteps, BuildSteps, Slots
  <2> QED BY <1>3, <1>4, <2>1, <2>2, Zenon DEF ThreadMem
<1>8. PtrInv!(t)'
  <2>1. CASE pc'[t] = "nir"
    <3>1. pc[t] \in InitSteps /\ ptr[t] = {} /\ out[t] # "filled"
      BY <1>1, <1>3, <2>1, Zenon DEF ThreadMem, InitSteps, DownSteps
    <3>2. heap[t] = {}
      BY <1>3, <3>1, Zenon
         DEF ThreadMem, Owns, HasNir, HasPrevious, HasControl, HasBinary, HasData,
         InitSteps, BuildSteps, Slots, TypeOK
    <3> QED BY <1>1, <1>4, <2>1, <3>1, <3>2, Zenon DEF HasData
  <2>2. CASE pc'[t] # "nir"
    BY <1>1, <1>3, <1>4, <2>2, Zenon DEF ThreadMem, InitSteps, DownSteps, BuildSteps, Slots
  <2> QED BY <2>1, <2>2, Zenon
<1>9. ThreadMem(t)'
  BY <1>5, <1>6, <1>7, <1>8, Zenon DEF ThreadMem
<1>10. \A u \in Threads \ {t} : pc'[u] = pc[u]
  BY <1>1, Zenon DEF TypeOK
<1>11. ~badFree'
  BY <1>2, Zenon DEF MemInv, NoBadFree
<1> QED BY <1>2, <1>9, <1>10, <1>11, MemFrame, Zenon

(* The checks keep the memory invariant: nothing is owned yet, and only a  *)
(* request that passed them all goes on.                                   *)
LEMMA MemCheck ==
  ASSUME TypeOK, TypeOK', RefInv, MemInv, NEW t \in Threads, CheckEntry(t) \/ CheckImpl(t)
  PROVE  MemInv'
<1>1. /\ pc[t] \in {"entry", "impl"}
      /\ \E to \in Steps : pc' = [pc EXCEPT ![t] = to]
      /\ pc'[t] \in {"impl", "returned", "init_lock", "finish"}
      /\ pc'[t] = "impl" => EntryChecks(req[t]) = "OK"
      /\ pc'[t] = "init_lock" => pc[t] = "impl" /\ ImplChecks(req[t]) = "OK"
      /\ pc'[t] \in {"returned", "finish"} => res'[t] # "OK"
      /\ out'[t] \in {"zero", out[t]}
  BY DEF CheckEntry, CheckImpl, TypeOK, Steps, InitSteps, ++
<1>2. /\ UNCHANGED <<req, ptr, heap, badFree>>
      /\ \A u \in Threads \ {t} : pc'[u] = pc[u] /\ res'[u] = res[u] /\ out'[u] = out[u]
  BY ZenonT(30) DEF CheckEntry, CheckImpl, TypeOK, memory
<1>3. ThreadMem(t)
  BY Zenon DEF MemInv, OutputInv, GateInv, HeapInv, PtrInv, ThreadMem
<1>4. req'[t] = req[t] /\ ptr'[t] = ptr[t] /\ heap'[t] = heap[t]
  BY <1>2, Zenon
<1>5. out[t] # "filled" /\ out'[t] # "filled"
  BY <1>1, <1>3, Zenon DEF ThreadMem, DownSteps
<1>6. OutputInv!(t)'
  BY <1>1, <1>4, <1>5, Zenon DEF DownSteps
<1>7. GateInv!(t)'
  BY <1>1, <1>3, <1>4, Zenon DEF ThreadMem, InitSteps, BuildSteps, Slots
<1>8. HeapInv!(t)'
  <2>1. ASSUME NEW b \in Blocks PROVE ~Owns(t, b)' /\ ~Owns(t, b)
    BY <1>1, <1>4, <1>5, Zenon DEF Owns, HasNir, HasPrevious, HasControl, HasBinary, HasData,
       BuildSteps, Slots
  <2> QED BY <1>1, <1>3, <1>4, <2>1, Zenon DEF ThreadMem
<1>9. PtrInv!(t)'
  BY <1>1, <1>3, <1>4, <1>5, Zenon DEF ThreadMem, InitSteps, BuildSteps, Slots
<1>10. ThreadMem(t)'
  BY <1>6, <1>7, <1>8, <1>9, Zenon DEF ThreadMem
<1>11. ~badFree'
  BY <1>2, Zenon DEF MemInv, NoBadFree
<1> QED BY <1>2, <1>10, <1>11, MemFrame, Zenon

(* So do the end of a compile and the application's own steps.             *)
LEMMA MemReturn ==
  ASSUME TypeOK, TypeOK', RefInv, MemInv, NEW t \in Threads,
         Finish(t) \/ WithdrawOutput(t) \/ CallerStep(t)
  PROVE  MemInv'
<1>t. ThreadMem(t) /\ PhaseInv!(t) /\ ~badFree
  BY Zenon
     DEF MemInv, OutputInv, GateInv, HeapInv, PtrInv, ThreadMem, RefInv, PhaseInv, NoBadFree
<1>1. CASE Finish(t) \/ DeviceInit(t) \/ DeviceShutdown(t) \/ Call(t)
  <2>1. /\ pc[t] \in {"idle", "finish"}
        /\ \E to \in Steps : pc' = [pc EXCEPT ![t] = to]
        /\ pc'[t] \in {"returned", "init_lock", "down_lock", "entry"}
        /\ pc'[t] = "returned" <=> pc[t] = "finish"
        /\ pc'[t] # "entry" => req'[t] = req[t]
        /\ \A u \in Threads \ {t} : pc'[u] = pc[u] /\ req'[u] = req[u]
        /\ UNCHANGED <<res, out, ptr, heap, badFree>>
    BY <1>1 DEF Finish, DeviceInit, DeviceShutdown, Call, Proceed, Step, TypeOK, Steps,
       InitSteps, DownSteps, memory
  <2>2. OutputInv!(t)'
    BY <1>t, <2>1, Zenon DEF ThreadMem, DownSteps
  <2>3. GateInv!(t)'
    BY <1>t, <2>1, Zenon DEF InitSteps, BuildSteps, Slots
  <2>4. HeapInv!(t)'
    <3>1. ASSUME NEW b \in Blocks PROVE Owns(t, b)' <=> Owns(t, b)
      BY <2>1, Zenon
         DEF Owns, HasNir, HasPrevious, HasControl, HasBinary, HasData, BuildSteps, Slots
    <3> QED BY <1>t, <2>1, <3>1, Zenon DEF ThreadMem
  <2>5. PtrInv!(t)'
    BY <1>t, <2>1, Zenon DEF ThreadMem, InitSteps, BuildSteps, Slots, InCompile
  <2>6. ThreadMem(t)'
    BY <2>2, <2>3, <2>4, <2>5, Zenon DEF ThreadMem
  <2> QED BY <1>t, <2>1, <2>6, MemFrame, Zenon
<1>2. CASE WithdrawOutput(t) \/ psbc_free_output(t)
  <2>1. /\ pc[t] \in {"finish", "returned"} /\ pc'[t] \in {"returned", "idle"}
        /\ out'[t] # "filled"
        /\ pc'[t] = "returned" => res'[t] # "OK" /\ req'[t] = req[t]
        /\ pc'[t] = "idle" => req'[t] = NoRequest /\ ptr'[t] = {}
        /\ \A u \in Threads \ {t} :
            /\ pc'[u] = pc[u] /\ req'[u] = req[u] /\ res'[u] = res[u]
            /\ out'[u] = out[u] /\ ptr'[u] = ptr[u]
    BY <1>2 DEF WithdrawOutput, psbc_free_output, Step, TypeOK
  <2>h. \A u \in Threads \ {t} : heap'[u] = heap[u]
    <3>1. CASE heap' = heap
      BY <3>1, Zenon
    <3>2. CASE Free(t, OutputBlocks)
      BY <3>2, Zenon DEF Free, TypeOK
    <3> QED BY <1>2, <3>1, <3>2, Zenon DEF WithdrawOutput, psbc_free_output
  <2>2. req[t] # NoRequest
    BY <1>t, <2>1, Zenon DEF InCompile
  <2>3. \A b \in Blocks : b \in heap[t] <=> (b \in OutputBlocks /\ res[t] = "OK")
    <3>1. ASSUME NEW b \in Blocks PROVE Owns(t, b) <=> (b \in OutputBlocks /\ out[t] = "filled")
      BY <2>1, Zenon
         DEF Owns, OutputBlocks, HasNir, HasPrevious, HasControl, HasBinary, HasData,
         BuildSteps, Slots
    <3> QED BY <1>t, <2>1, <2>2, <3>1, Zenon DEF ThreadMem
  <2>4. heap'[t] = {} /\ ~badFree'
    <3>1. OutputBlocks \subseteq Blocks /\ {"nir", "control"} \cap OutputBlocks = {}
      BY Zenon DEF OutputBlocks, Blocks
    <3>2. CASE res[t] = "OK"
      <4>1. Free(t, OutputBlocks)
        BY <1>2, <3>2, Zenon DEF WithdrawOutput, psbc_free_output
      <4>2. heap[t] = OutputBlocks /\ OutputBlocks \subseteq ptr[t]
        <5>1. out[t] = "filled"
          BY <1>t, <2>1, <2>2, <3>2, Zenon DEF ThreadMem
        <5>2. OutputBlocks \subseteq ptr[t]
          BY <1>t, <5>1, Zenon DEF ThreadMem
        <5>3. heap[t] \subseteq Blocks
          BY Zenon DEF TypeOK
        <5> QED BY <2>3, <3>1, <3>2, <5>2, <5>3, Zenon
      <4> QED BY <1>t, <3>1, <4>1, <4>2, Zenon DEF Free, Owned, TypeOK
    <3>3. CASE res[t] # "OK"
      <4>1. heap' = heap /\ badFree' = badFree
        BY <1>2, <3>3, Zenon DEF WithdrawOutput, psbc_free_output
      <4>2. heap[t] = {}
        BY <2>3, <3>3, Zenon DEF TypeOK
      <4> QED BY <1>t, <4>1, <4>2, Zenon
    <3> QED BY <3>2, <3>3, Zenon
  <2>5. HeapInv!(t)'
    <3>1. ASSUME NEW b \in Blocks PROVE ~Owns(t, b)'
      BY <2>1, Zenon
         DEF Owns, HasNir, HasPrevious, HasControl, HasBinary, HasData, BuildSteps, Slots
    <3> QED BY <2>4, <3>1, Zenon
  <2>6. OutputInv!(t)' /\ GateInv!(t)' /\ PtrInv!(t)'
    BY <2>1, <2>2, Zenon DEF InitSteps, DownSteps, BuildSteps, Slots
  <2>7. ThreadMem(t)'
    BY <2>5, <2>6, Zenon DEF ThreadMem
  <2> QED BY <2>1, <2>h, <2>4, <2>7, MemFrame, Zenon
<1> QED BY <1>1, <1>2, Zenon DEF CallerStep

-----------------------------------------------------------------------------
(* An exit of the compile keeps the memory invariant when it frees exactly *)
(* what the compile owns at that point.                                    *)
LEMMA MemExit ==
  ASSUME TypeOK, TypeOK', RefInv, MemInv, NEW t \in Threads, NEW S,
         pc[t] \in BuildSteps, pc' = [pc EXCEPT ![t] = "down_lock"],
         req' = req, out' = out, ptr' = ptr, res'[t] # "OK",
         \A u \in Threads \ {t} : res'[u] = res[u],
         Free(t, S),
         \A b \in Blocks : Owns(t, b) => b \in S \/ (b = "control" /\ "nir" \in S),
         "control" \notin S,
         pc[t] \in HasData => "newcode" \notin S
  PROVE  MemInv'
<1>t. ThreadMem(t) /\ ~badFree /\ req[t] # NoRequest
  BY Zenon
     DEF MemInv, OutputInv, GateInv, HeapInv, PtrInv, ThreadMem, RefInv, PhaseInv, NoBadFree,
     InCompile
<1>1. out[t] # "filled" /\ pc'[t] = "down_lock" /\ pc[t] # "trapped"
  BY <1>t, Zenon DEF ThreadMem, TypeOK, DownSteps, BuildSteps, Slots
<1>2. heap[t] \subseteq Blocks /\ heap[t] \subseteq ptr[t] /\ S \cap ptr[t] \subseteq heap[t]
  BY <1>t, Zenon DEF ThreadMem, TypeOK
<1>3. \A b \in heap[t] : b \in S \/ (b = "control" /\ "nir" \in S)
  BY <1>t, <1>1, <1>2, Zenon DEF ThreadMem
<1>4. "nir" \in S /\ "control" \in heap[t] => "nir" \in S \cap ptr[t]
  <2>1. "control" \in heap[t] => Owns(t, "control")
    BY <1>t, <1>1, Zenon DEF ThreadMem, Blocks, Slots
  <2>2. Owns(t, "control") => Owns(t, "nir")
    BY Zenon DEF Owns, HasControl, HasPrevious
  <2>3. Owns(t, "nir") => "nir" \in heap[t]
    BY <1>t, <1>1, Zenon DEF ThreadMem, Blocks, Slots
  <2> QED BY <1>2, <2>1, <2>2, <2>3, Zenon
<1>5. heap'[t] = {} /\ ~badFree'
  <2>1. heap[t] \ Owned(S \cap ptr[t]) = {}
    BY <1>2, <1>3, <1>4, Zenon DEF Owned
  <2> QED BY <1>t, <1>2, <2>1, Zenon DEF Free, TypeOK
<1>6. HeapInv!(t)'
  <2>1. ASSUME NEW b \in Blocks PROVE ~Owns(t, b)'
    BY <1>1, Zenon
       DEF Owns, HasNir, HasPrevious, HasControl, HasBinary, HasData, BuildSteps, Slots
  <2> QED BY <1>5, <2>1, Zenon
<1>7. OutputInv!(t)' /\ GateInv!(t)' /\ PtrInv!(t)'
  BY <1>t, <1>1, Zenon DEF InitSteps, DownSteps, BuildSteps, Slots
<1>8. ThreadMem(t)'
  BY <1>6, <1>7, Zenon DEF ThreadMem
<1>9. \A u \in Threads \ {t} : pc'[u] = pc[u] /\ heap'[u] = heap[u]
  BY DEF Free, TypeOK
<1> QED BY <1>5, <1>8, <1>9, MemFrame, Zenon

(* The error exits of psbc_compile_impl, each with the frees it makes.     *)
LEMMA MemFail ==
  ASSUME TypeOK, TypeOK', RefInv, MemInv, NEW t \in Threads,
         \/ RejectNirStage(t) \/ RejectState(t) \/ SplitFails(t) \/ InputSemanticsFail(t)
         \/ AcoFails(t) \/ NewcodeFails(t) \/ ImageFails(t) \/ NoHeader(t) \/ MachineCodeFails(t)
  PROVE  MemInv'
<1>t. GateInv!(t) /\ OutputInv!(t) /\ PhaseInv!(t)
  BY Zenon DEF MemInv, GateInv, OutputInv, RefInv, PhaseInv
<1>x. ASSUME NEW from \in BuildSteps, NEW S, NEW result \in Results \ {"OK"}, Fail(t, from, S, result),
             \A b \in Blocks : Owns(t, b) => b \in S \/ (b = "control" /\ "nir" \in S),
             "control" \notin S, from \in HasData => "newcode" \notin S
      PROVE  MemInv'
  <2>1. /\ pc[t] = from /\ pc' = [pc EXCEPT ![t] = "down_lock"]
        /\ req' = req /\ out' = out /\ ptr' = ptr /\ Free(t, S)
        /\ res'[t] # "OK" /\ \A u \in Threads \ {t} : res'[u] = res[u]
    BY <1>x, Zenon DEF Fail, Step, TypeOK
  <2> QED BY <1>x, <2>1, MemExit, Zenon
<1>o. ASSUME pc[t] \in BuildSteps
      PROVE  out[t] # "filled"
  BY <1>t, <1>o, Zenon DEF DownSteps, BuildSteps, Slots
<1>s. ASSUME NEW from \in {"state", "lower", "aco", "newcode", "header", "machine_code"},
             NEW S, NEW result \in Results \ {"OK"}, Fail(t, from, S, result),
             Shaders \subseteq S, S \subseteq Shaders \cup {"binary", "newcode", "data"},
             from \in HasBinary => "binary" \in S,
             from = "header" <=> "newcode" \in S,
             from \in HasData => "data" \in S
      PROVE  MemInv'
  <2>1. pc[t] = from /\ from \in BuildSteps
    BY <1>s, Zenon DEF Fail, Step, BuildSteps
  <2>2. ASSUME NEW b \in Blocks, Owns(t, b)
        PROVE  b \in S \/ b = "control"
    BY <1>s, <1>o, <2>1, <2>2, Zenon DEF Owns, Shaders
  <2>3. "control" \notin S /\ "nir" \in S /\ (from \in HasData => "newcode" \notin S)
    BY <1>s, Zenon DEF Shaders, HasData
  <2> QED BY <1>s, <1>x, <2>1, <2>2, <2>3, Zenon
<1>1. CASE RejectNirStage(t)
  <2>1. Fail(t, "nir", {}, "UNSUPPORTED_STAGE") /\ pc[t] = "nir" /\ "nir" \in BuildSteps
    BY <1>1, Zenon DEF RejectNirStage, Fail, Step, BuildSteps, Slots
  <2>2. ASSUME NEW b \in Blocks PROVE ~Owns(t, b)
    BY <1>o, <2>1, Zenon DEF Owns, HasNir, HasPrevious, HasControl, HasBinary, HasData
  <2>3. "UNSUPPORTED_STAGE" \in Results \ {"OK"}
    BY Zenon DEF Results
  <2> QED BY <1>x, <2>1, <2>2, <2>3, Zenon
<1>2. CASE RejectState(t)
  <2>1. Fail(t, "state", Shaders, "INTERNAL_ERROR")
    BY <1>2, Zenon DEF RejectState
  <2> QED BY <1>s, <2>1, Zenon DEF HasBinary, HasData, Results, Shaders
<1>3. CASE SplitFails(t)
  <2>1. Fail(t, "lower", Shaders, "INTERNAL_ERROR")
    BY <1>3, Zenon DEF SplitFails
  <2> QED BY <1>s, <2>1, Zenon DEF HasBinary, HasData, Results, Shaders
<1>4. CASE InputSemanticsFail(t)
  <2>1. Fail(t, "semantics", {"nir"}, "INTERNAL_ERROR") /\ pc[t] = "semantics" /\ "semantics" \in BuildSteps
    BY <1>4, Zenon DEF InputSemanticsFail, Fail, Step, BuildSteps
  <2>2. ~paired_previous(req[t]) /\ ~paired_tess_geometry(req[t])
    BY <1>t, <1>4, <2>1, FragmentIsAlone, Zenon DEF InputSemanticsFail, InCompile
  <2>3. ASSUME NEW b \in Blocks, Owns(t, b) PROVE b = "nir"
    BY <1>o, <2>1, <2>2, <2>3, Zenon DEF Owns, HasBinary, HasData
  <2>4. "INTERNAL_ERROR" \in Results \ {"OK"} /\ "control" \notin {"nir"} /\ "newcode" \notin {"nir"}
    BY Zenon DEF Results
  <2> QED BY <1>x, <2>1, <2>3, <2>4, Zenon
<1>5. CASE AcoFails(t)
  <2>1. Fail(t, "aco", Shaders, "COMPILE_ACO")
    BY <1>5, Zenon DEF AcoFails
  <2> QED BY <1>s, <2>1, Zenon DEF HasBinary, HasData, Results, Shaders
<1>6. CASE NewcodeFails(t)
  <2>1. Fail(t, "newcode", Shaders \cup {"binary"}, "OUT_OF_MEMORY")
    BY <1>6, Zenon DEF NewcodeFails, Shaders
  <2> QED BY <1>s, <2>1 DEF HasBinary, HasData, Results, Shaders
<1>7. CASE ImageFails(t) \/ NoHeader(t)
  <2>1. \E result \in {"OUT_OF_MEMORY", "UNSUPPORTED_STAGE"} :
           Fail(t, "header", Shaders \cup {"newcode", "binary"}, result)
    BY <1>7, Zenon DEF ImageFails, NoHeader, Shaders
  <2> QED BY <1>s, <2>1, Zenon DEF HasBinary, HasData, Results, Shaders
<1>8. CASE MachineCodeFails(t)
  <2>1. Fail(t, "machine_code", Shaders \cup {"data", "binary"}, "OUT_OF_MEMORY")
    BY <1>8, Zenon DEF MachineCodeFails, Shaders
  <2> QED BY <1>s, <2>1 DEF HasBinary, HasData, Results, Shaders
<1> QED BY <1>1, <1>2, <1>3, <1>4, <1>5, <1>6, <1>7, <1>8, Zenon

-----------------------------------------------------------------------------
(* A step within the compile keeps the memory invariant when the heap and  *)
(* the pointers follow the program point.                                  *)
LEMMA MemGrow ==
  ASSUME TypeOK, TypeOK', RefInv, MemInv, NEW t \in Threads, NEW to \in BuildSteps,
         pc[t] \in BuildSteps, pc' = [pc EXCEPT ![t] = to],
         req' = req, res' = res, out' = out, ~badFree',
         \A u \in Threads \ {t} : heap'[u] = heap[u] /\ ptr'[u] = ptr[u],
         \A b \in Blocks : b \in heap'[t] <=> Owns(t, b)',
         ptr'[t] = heap'[t] \cup (IF to \in HasData THEN {"newcode"} ELSE {}),
         to = "previous" => paired_previous(req[t]),
         to \in {"next_link", "facts"} => paired_hull(req[t]),
         to = "control" => paired_tess_geometry(req[t])
  PROVE  MemInv'
<1>t. OutputInv!(t) /\ GateInv!(t) /\ req[t] # NoRequest
  BY Zenon DEF MemInv, OutputInv, GateInv, RefInv, PhaseInv, InCompile
<1>1. /\ pc'[t] = to /\ req'[t] = req[t] /\ out'[t] = out[t] /\ out[t] # "filled"
      /\ \A u \in Threads \ {t} : pc'[u] = pc[u]
  BY <1>t, Zenon DEF TypeOK, DownSteps, BuildSteps, Slots
<1>2. OutputInv!(t)'
  BY <1>1, Zenon DEF DownSteps, BuildSteps, Slots
<1>3. GateInv!(t)'
  BY <1>t, <1>1, Zenon DEF BuildSteps, Slots
<1>4. HeapInv!(t)'
  BY Zenon
<1>5. PtrInv!(t)'
  BY <1>t, <1>1, Zenon DEF BuildSteps, Slots, InitSteps
<1>6. ThreadMem(t)'
  BY <1>2, <1>3, <1>4, <1>5, Zenon DEF ThreadMem
<1> QED BY <1>1, <1>6, MemFrame, Zenon

(* A block allocated on the way to the next step.                          *)
LEMMA MemAlloc ==
  ASSUME TypeOK, TypeOK', RefInv, MemInv, NEW t \in Threads, NEW to \in BuildSteps,
         NEW a \in Blocks, Alloc(t, a),
         pc[t] \in BuildSteps \ HasData, pc' = [pc EXCEPT ![t] = to], to \notin HasData,
         req' = req, res' = res, out' = out,
         \A b \in Blocks : Owns(t, b)' <=> (Owns(t, b) \/ b = a),
         to = "previous" => paired_previous(req[t]),
         to \in {"next_link", "facts"} => paired_hull(req[t]),
         to = "control" => paired_tess_geometry(req[t])
  PROVE  MemInv'
<1>1. /\ heap'[t] = heap[t] \cup {a} /\ ptr'[t] = ptr[t] \cup {a} /\ badFree' = badFree
      /\ \A u \in Threads \ {t} : heap'[u] = heap[u] /\ ptr'[u] = ptr[u]
  BY DEF Alloc, TypeOK
<1>2. HeapInv!(t) /\ ptr[t] = heap[t] /\ ~badFree /\ pc[t] # "trapped"
  BY Zenon DEF MemInv, HeapInv, PtrInv, NoBadFree, BuildSteps, Slots
<1>3. \A b \in Blocks : b \in heap'[t] <=> Owns(t, b)'
  BY <1>1, <1>2, Zenon
<1>4. ptr'[t] = heap'[t] \cup (IF to \in HasData THEN {"newcode"} ELSE {})
  BY <1>1, <1>2, Zenon
<1> QED BY <1>1, <1>2, <1>3, <1>4, MemGrow, Zenon

(* Preparing the shaders keeps the memory invariant: a slot's shader is    *)
(* owned from the next step on.                                            *)
LEMMA MemPrepare ==
  ASSUME TypeOK, TypeOK', RefInv, MemInv, NEW t \in Threads, NEW s \in Slots,
         prepare_stage_nir(t, s)
  PROVE  MemInv'
<1> DEFINE r == req[t]
           to == AfterSlot(r, s)
<1>1. /\ pc[t] = s /\ pc' = [pc EXCEPT ![t] = to] /\ pc'[t] = to /\ Alloc(t, s)
      /\ req' = req /\ res' = res /\ out' = out
  BY Zenon DEF prepare_stage_nir, Step, TypeOK
<1>2. to \in BuildSteps /\ s \in Blocks /\ s \in BuildSteps \ HasData
  BY AfterSlotType, Zenon DEF Blocks, BuildSteps, HasData, Slots
<1>3. /\ s = "previous" => paired_previous(r)
      /\ s = "next_link" => paired_hull(r)
      /\ s = "control" => paired_tess_geometry(r)
      /\ out[t] # "filled"
  BY <1>1, <1>2, Zenon DEF MemInv, GateInv, OutputInv, DownSteps, BuildSteps, Slots
<1>4. \/ s = "nir" /\ to = "previous" /\ paired_previous(r)
      \/ s = "nir" /\ to = "state" /\ ~paired_previous(r)
      \/ s = "previous" /\ to = "next_link" /\ paired_hull(r)
      \/ s = "previous" /\ to = "control" /\ paired_tess_geometry(r)
      \/ s = "previous" /\ to = "state" /\ ~paired_tess_geometry(r)
      \/ s = "next_link" /\ to = "facts"
      \/ s = "control" /\ to = "state"
  BY SlotOrder, PairKinds, Zenon DEF Slots
<1>5. ASSUME NEW b \in Blocks
      PROVE  Owns(t, b)' <=> (Owns(t, b) \/ b = s)
  <2> HIDE DEF to
  <2>1. req'[t] = r /\ out'[t] = out[t]
    BY <1>1, Zenon
  <2>2. /\ paired_previous(req[t])' <=> paired_previous(r)
        /\ paired_tess_geometry(req[t])' <=> paired_tess_geometry(r)
    BY <2>1, Zenon DEF paired_previous, paired_tess_geometry, paired_geometry
  <2> QED
    BY <1>1, <1>3, <1>4, <2>1, <2>2, PairKinds, Zenon
       DEF Owns, HasNir, HasPrevious, HasControl, HasBinary, HasData, BuildSteps, Slots
<1>6. /\ to = "previous" => paired_previous(r)
      /\ to \in {"next_link", "facts"} => paired_hull(r)
      /\ to = "control" => paired_tess_geometry(r)
      /\ to \notin HasData
  BY <1>3, <1>4, Zenon DEF HasData
<1> HIDE DEF to
<1> QED BY <1>1, <1>2, <1>5, <1>6, MemAlloc, Zenon

(* An import that fails frees what was imported before it.                 *)
LEMMA MemPrepareFails ==
  ASSUME TypeOK, TypeOK', RefInv, MemInv, NEW t \in Threads, NEW s \in Slots,
         PrepareFails(t, s)
  PROVE  MemInv'
<1>1. /\ pc[t] = s /\ pc' = [pc EXCEPT ![t] = "down_lock"] /\ Free(t, EarlierSlots(s))
      /\ req' = req /\ out' = out /\ ptr' = ptr
      /\ res'[t] # "OK" /\ \A u \in Threads \ {t} : res'[u] = res[u]
  BY Zenon DEF PrepareFails, Step, TypeOK
<1>2. s \in BuildSteps /\ s \notin HasData
  BY Zenon DEF BuildSteps, HasData, Slots
<1>3. out[t] # "filled"
  BY <1>1, <1>2, Zenon DEF MemInv, OutputInv, DownSteps, BuildSteps, Slots
<1>4. ASSUME NEW b \in Blocks, Owns(t, b)
      PROVE  b \in EarlierSlots(s)
  BY <1>1, <1>3, <1>4, SlotsBefore, Zenon
     DEF Owns, HasNir, HasPrevious, HasControl, HasBinary, HasData, Slots
<1>5. "control" \notin EarlierSlots(s)
  BY SlotsBefore, Zenon DEF Slots
<1> QED BY <1>1, <1>2, <1>4, <1>5, MemExit, Zenon

(* A trap leaves the memory of its thread to the operating system.         *)
LEMMA MemTrap ==
  ASSUME TypeOK, TypeOK', RefInv, MemInv, NEW t \in Threads, NEW s \in Slots,
         PrepareTraps(t, s)
  PROVE  MemInv'
<1>1. /\ pc[t] = s /\ pc'[t] = "trapped" /\ \A u \in Threads \ {t} : pc'[u] = pc[u]
      /\ UNCHANGED <<req, res, out, ptr, heap, badFree>>
  BY Zenon DEF PrepareTraps, Proceed, Step, TypeOK, memory
<1>2. out[t] # "filled" /\ ~badFree /\ req[t] # NoRequest
  BY <1>1, Zenon
     DEF MemInv, OutputInv, NoBadFree, RefInv, PhaseInv, InCompile, DownSteps, BuildSteps, Slots
<1>3. EntryChecks(req[t]) = "OK" /\ ImplChecks(req[t]) = "OK" /\ "control" \notin heap[t]
  <2>1. "control" \in Blocks /\ ~Owns(t, "control")
    BY <1>1, <1>2, Zenon DEF Owns, HasControl, HasPrevious, HasNir, Slots, Blocks
  <2>2. "control" \notin heap[t]
    BY <1>1, <2>1, Zenon DEF MemInv, HeapInv, Slots
  <2> QED BY <1>1, <1>2, <2>2, Zenon DEF MemInv, GateInv, BuildSteps
<1>4. ThreadMem(t)'
  <2>1. OutputInv!(t)' /\ HeapInv!(t)' /\ PtrInv!(t)'
    BY <1>1, <1>2, Zenon DEF InitSteps, DownSteps, BuildSteps, Slots
  <2>2. GateInv!(t)'
    BY <1>1, <1>2, <1>3, Zenon DEF InitSteps, BuildSteps, Slots
  <2> QED BY <2>1, <2>2, Zenon DEF ThreadMem
<1> QED BY <1>1, <1>2, <1>4, MemFrame, Zenon

(* Copying the link facts frees the shader they were copied from.          *)
LEMMA MemLinkFacts ==
  ASSUME TypeOK, TypeOK', RefInv, MemInv, NEW t \in Threads, CopyLinkFacts(t)
  PROVE  MemInv'
<1>1. /\ pc[t] = "facts" /\ pc' = [pc EXCEPT ![t] = "state"] /\ pc'[t] = "state"
      /\ req' = req /\ res' = res /\ out' = out
      /\ Free(t, {"next_link"}) /\ ptr'[t] = ptr[t] \ {"next_link"}
      /\ \A u \in Threads \ {t} : heap'[u] = heap[u] /\ ptr'[u] = ptr[u]
  BY ZenonT(30) DEF CopyLinkFacts, Step, Free, TypeOK
<1>2. /\ HeapInv!(t) /\ ptr[t] = heap[t] /\ ~badFree /\ out[t] # "filled"
      /\ paired_hull(req[t])
  <2>1. ThreadMem(t) /\ ~badFree
    BY Zenon DEF MemInv, OutputInv, GateInv, HeapInv, PtrInv, ThreadMem, NoBadFree
  <2>2. out[t] # "filled" /\ paired_hull(req[t])
    BY <1>1, <2>1, Zenon DEF ThreadMem, DownSteps
  <2>3. ptr[t] = heap[t]
    BY <1>1, <2>1, Zenon DEF ThreadMem, BuildSteps, HasData
  <2> QED BY <2>1, <2>2, <2>3, Zenon DEF ThreadMem
<1>3. "next_link" \in heap[t]
  BY <1>1, <1>2, Zenon DEF Owns, Blocks, Slots
<1>4. heap'[t] = heap[t] \ {"next_link"} /\ ~badFree'
  BY <1>1, <1>2, <1>3, Zenon DEF Free, Owned, TypeOK
<1>5. ASSUME NEW b \in Blocks
      PROVE  b \in heap'[t] <=> Owns(t, b)'
  <2>1. req'[t] = req[t] /\ out'[t] = out[t]
    BY <1>1, Zenon
  <2>2. /\ paired_previous(req[t])' <=> paired_previous(req[t])
        /\ ~paired_tess_geometry(req[t])'
    BY <1>2, <2>1, PairKinds, Zenon DEF paired_previous, paired_tess_geometry, paired_geometry
  <2>3. Owns(t, b)' <=> (Owns(t, b) /\ b # "next_link")
    BY <1>1, <2>1, <2>2, Zenon
       DEF Owns, HasNir, HasPrevious, HasControl, HasBinary, HasData, BuildSteps, Slots
  <2> QED BY <1>1, <1>2, <1>4, <2>3, Zenon
<1>6. ptr'[t] = heap'[t] \cup (IF "state" \in HasData THEN {"newcode"} ELSE {})
  BY <1>1, <1>2, <1>4, Zenon DEF HasData
<1>7. "facts" \in BuildSteps /\ "state" \in BuildSteps
  BY Zenon DEF BuildSteps
<1> QED BY <1>1, <1>4, <1>5, <1>6, <1>7, MemGrow, Zenon

(* From the accepted pipeline state to the published output.               *)
LEMMA MemBuild ==
  ASSUME TypeOK, TypeOK', RefInv, MemInv, NEW t \in Threads,
         \/ AcceptState(t) \/ Lower(t) \/ InputSemantics(t) \/ radv_shader_nir_to_asm(t)
         \/ BuildNewcode(t) \/ BuildImage(t) \/ CopyMachineCode(t)
  PROVE  MemInv'
<1>1. /\ pc[t] \in {"state", "lower", "semantics", "aco", "newcode", "header", "machine_code"}
      /\ req' = req /\ res' = res /\ out' = out
      /\ \A u \in Threads \ {t} : heap'[u] = heap[u] /\ ptr'[u] = ptr[u]
  <2> USE DEF TypeOK, Step
  <2>1. CASE AcceptState(t) \/ Lower(t) BY <2>1, Zenon DEF AcceptState, Lower, Proceed, memory
  <2>2. CASE InputSemantics(t) BY <2>2, Zenon DEF InputSemantics, Proceed, memory
  <2>3. CASE radv_shader_nir_to_asm(t) BY <2>3, Zenon DEF radv_shader_nir_to_asm, Alloc
  <2>4. CASE BuildNewcode(t) BY <2>4, Zenon DEF BuildNewcode, Alloc
  <2>5. CASE BuildImage(t) BY <2>5, Zenon DEF BuildImage, Alloc
  <2>6. CASE CopyMachineCode(t) BY <2>6, Zenon DEF CopyMachineCode, Alloc
  <2> QED BY <2>1, <2>2, <2>3, <2>4, <2>5, <2>6, Zenon
<1>2. PICK to \in {"lower", "semantics", "aco", "newcode", "header", "machine_code", "publish"} :
         /\ pc' = [pc EXCEPT ![t] = to]
         /\ <<pc[t], to>> \in {<<"state", "lower">>, <<"lower", "semantics">>,
              <<"semantics", "aco">>, <<"aco", "newcode">>, <<"newcode", "header">>,
              <<"header", "machine_code">>, <<"machine_code", "publish">>}
  <2>1. CASE AcceptState(t)
    BY <2>1, Zenon DEF AcceptState, Proceed, Step
  <2>2. CASE Lower(t)
    BY <2>2, Zenon DEF Lower, Proceed, Step
  <2>3. CASE InputSemantics(t)
    BY <2>3, Zenon DEF InputSemantics, Proceed, Step
  <2>4. CASE radv_shader_nir_to_asm(t)
    BY <2>4, Zenon DEF radv_shader_nir_to_asm, Step
  <2>5. CASE BuildNewcode(t)
    BY <2>5, Zenon DEF BuildNewcode, Step
  <2>6. CASE BuildImage(t)
    BY <2>6, Zenon DEF BuildImage, Step
  <2>7. CASE CopyMachineCode(t)
    BY <2>7, Zenon DEF CopyMachineCode, Step
  <2> QED BY <2>1, <2>2, <2>3, <2>4, <2>5, <2>6, <2>7, Zenon
<1>3. /\ HeapInv!(t) /\ PtrInv!(t) /\ ~badFree /\ out[t] # "filled" /\ pc'[t] = to
      /\ to \in BuildSteps /\ pc[t] \in BuildSteps /\ heap[t] \subseteq Blocks
  <2>1. to \in BuildSteps /\ pc[t] \in BuildSteps BY <1>1, <1>2, Zenon DEF BuildSteps
  <2>2. HeapInv!(t) /\ PtrInv!(t) /\ ~badFree BY Zenon DEF MemInv, HeapInv, PtrInv, NoBadFree
  <2>3. out[t] # "filled" BY <1>1, Zenon DEF MemInv, OutputInv, DownSteps
  <2>4. pc'[t] = to /\ heap[t] \subseteq Blocks BY <1>2, Zenon DEF TypeOK
  <2> QED BY <2>1, <2>2, <2>3, <2>4, Zenon
<1>4. ~badFree' /\ heap'[t] =
         CASE to \in {"lower", "semantics", "aco"} -> heap[t]
           [] to = "newcode"      -> heap[t] \cup {"binary"}
           [] to = "header"       -> heap[t] \cup {"newcode"}
           [] to = "machine_code" -> (heap[t] \ {"newcode"}) \cup {"data"}
           [] to = "publish"      -> heap[t] \cup {"machine_code"}
  <2>1. pc[t] = "header" => "newcode" \in heap[t]
    BY <1>3, Zenon DEF Owns, Blocks
  <2> USE DEF TypeOK, Step
  <2>2. CASE AcceptState(t) \/ Lower(t) \/ InputSemantics(t)
    <3>1. to \in {"lower", "semantics", "aco"} /\ heap' = heap /\ badFree' = badFree
      BY <1>2, <2>2, Zenon DEF AcceptState, Lower, InputSemantics, Proceed, memory
    <3> QED BY <1>3, <3>1, Zenon
  <2>3. CASE radv_shader_nir_to_asm(t)
    BY <1>2, <1>3, <2>3, Zenon DEF radv_shader_nir_to_asm, Alloc
  <2>4. CASE BuildNewcode(t) BY <1>2, <1>3, <2>4, Zenon DEF BuildNewcode, Alloc
  <2>5. CASE BuildImage(t) BY <1>2, <1>3, <2>1, <2>5, Zenon DEF BuildImage
  <2>6. CASE CopyMachineCode(t) BY <1>2, <1>3, <2>6, Zenon DEF CopyMachineCode, Alloc
  <2> QED BY <2>2, <2>3, <2>4, <2>5, <2>6, Zenon
<1>5. ptr'[t] =
         CASE to \in {"lower", "semantics", "aco"} -> ptr[t]
           [] to = "newcode"      -> ptr[t] \cup {"binary"}
           [] to = "header"       -> ptr[t] \cup {"newcode"}
           [] to = "machine_code" -> ptr[t] \cup {"data"}
           [] to = "publish"      -> ptr[t] \cup {"machine_code"}
  <2> USE DEF TypeOK, Step
  <2>1. CASE AcceptState(t) \/ Lower(t) \/ InputSemantics(t)
    <3>1. to \in {"lower", "semantics", "aco"} /\ ptr' = ptr
      BY <1>2, <2>1, Zenon DEF AcceptState, Lower, InputSemantics, Proceed, memory
    <3> QED BY <3>1, Zenon
  <2>2. CASE radv_shader_nir_to_asm(t)
    BY <1>2, <1>3, <2>2, Zenon DEF radv_shader_nir_to_asm, Alloc
  <2>3. CASE BuildNewcode(t) BY <1>2, <1>3, <2>3, Zenon DEF BuildNewcode, Alloc
  <2>4. CASE BuildImage(t) BY <1>2, <1>3, <2>4, Zenon DEF BuildImage
  <2>5. CASE CopyMachineCode(t) BY <1>2, <1>3, <2>5, Zenon DEF CopyMachineCode, Alloc
  <2> QED BY <2>1, <2>2, <2>3, <2>4, <2>5, Zenon
<1>6. ASSUME NEW b \in Blocks
      PROVE  b \in heap'[t] <=> Owns(t, b)'
  <2>1. req'[t] = req[t] /\ out'[t] = out[t]
    BY <1>1, Zenon
  <2>2. /\ paired_previous(req[t])' <=> paired_previous(req[t])
        /\ paired_tess_geometry(req[t])' <=> paired_tess_geometry(req[t])
    BY <2>1, Zenon DEF paired_previous, paired_tess_geometry, paired_geometry
  <2>3. b \in heap[t] <=> Owns(t, b)
    BY <1>1, <1>3, Zenon
  <2> QED
    BY <1>2, <1>3, <1>4, <2>1, <2>2, <2>3
       DEF Owns, HasNir, HasPrevious, HasControl, HasBinary, HasData, BuildSteps, Slots
<1>7. ptr'[t] = heap'[t] \cup (IF to \in HasData THEN {"newcode"} ELSE {})
  <2>1. ptr[t] = heap[t] \cup (IF pc[t] \in HasData THEN {"newcode"} ELSE {})
    BY <1>3, Zenon
  <2>2. pc[t] = "header" => "newcode" \in heap[t]
    BY <1>3, Zenon DEF Owns, Blocks
  <2> QED BY <1>2, <1>4, <1>5, <2>1, <2>2, Zenon DEF HasData
<1> QED BY <1>1, <1>2, <1>3, <1>4, <1>6, <1>7, MemGrow, Zenon

(* Publishing hands the memory to the caller.                              *)
LEMMA MemPublish ==
  ASSUME TypeOK, TypeOK', RefInv, MemInv, NEW t \in Threads, Publish(t)
  PROVE  MemInv'
<1>1. /\ pc[t] = "publish" /\ pc'[t] = "down_lock" /\ out'[t] = "filled" /\ res'[t] = "OK"
      /\ req' = req /\ ptr' = ptr /\ Free(t, {"binary"} \cup Shaders)
      /\ \A u \in Threads \ {t} :
           pc'[u] = pc[u] /\ out'[u] = out[u] /\ res'[u] = res[u] /\ heap'[u] = heap[u]
  <2>1. Free(t, {"binary"} \cup Shaders) /\ req' = req /\ ptr' = ptr BY Zenon DEF Publish
  <2>2. /\ pc[t] = "publish" /\ pc'[t] = "down_lock" /\ out'[t] = "filled" /\ res'[t] = "OK"
        /\ \A u \in Threads \ {t} : pc'[u] = pc[u] /\ out'[u] = out[u] /\ res'[u] = res[u]
    BY DEF Publish, Step, TypeOK
  <2>3. \A u \in Threads \ {t} : heap'[u] = heap[u] BY <2>1, Zenon DEF Free, TypeOK
  <2> QED BY <2>1, <2>2, <2>3, Zenon
<1>2. ThreadMem(t) /\ ~badFree /\ req[t] # NoRequest
  BY <1>1, Zenon
     DEF MemInv, OutputInv, GateInv, HeapInv, PtrInv, ThreadMem, NoBadFree, RefInv, PhaseInv,
     InCompile, BuildSteps
<1>3. ptr[t] = heap[t] \cup {"newcode"} /\ out[t] # "filled" /\ heap[t] \subseteq Blocks
  BY <1>1, <1>2, Zenon DEF ThreadMem, BuildSteps, HasData, DownSteps, TypeOK
<1>4. \A b \in Blocks : b \in heap[t] <=> Owns(t, b)
  BY <1>1, <1>2, Zenon DEF ThreadMem
<1>5. /\ OutputBlocks \subseteq heap[t] /\ {"nir", "binary"} \subseteq heap[t]
      /\ heap[t] \subseteq OutputBlocks \cup {"binary", "nir", "previous", "control"}
  BY <1>1, <1>3, <1>4, Zenon
     DEF Owns, OutputBlocks, Blocks, Slots, HasNir, HasBinary, HasData, BuildSteps
<1>6. heap'[t] = OutputBlocks /\ ~badFree'
  <2>1. ({"binary"} \cup Shaders) \cap ptr[t] = heap[t] \cap {"binary", "nir", "previous"}
    BY <1>3, Zenon DEF Shaders
  <2>2. heap'[t] = heap[t] \ Owned(heap[t] \cap {"binary", "nir", "previous"})
    <3> DEFINE given == ({"binary"} \cup Shaders) \cap ptr[t]
    <3>1. heap' = [heap EXCEPT ![t] = @ \ Owned(given)] BY <1>1, Zenon DEF Free
    <3> HIDE DEF given
    <3>2. heap'[t] = heap[t] \ Owned(given) BY <3>1, Zenon DEF TypeOK
    <3> QED BY <2>1, <3>2, Zenon DEF given
  <2>3. heap'[t] = OutputBlocks
    BY <1>5, <2>2, Zenon DEF Owned, OutputBlocks
  <2>4. ~badFree'
    BY <1>1, <1>2, <2>1, Zenon DEF Free
  <2> QED BY <2>3, <2>4, Zenon
<1>7. HeapInv!(t)'
  <2>1. ASSUME NEW b \in Blocks PROVE Owns(t, b)' <=> b \in OutputBlocks
    BY <1>1, Zenon DEF Owns, OutputBlocks, HasNir, HasPrevious, HasControl, HasBinary, HasData,
       BuildSteps, Slots
  <2> QED BY <1>6, <2>1, Zenon
<1>8. OutputInv!(t)' /\ GateInv!(t)' /\ PtrInv!(t)'
  BY <1>1, <1>2, <1>3, <1>5, Zenon DEF InitSteps, DownSteps, BuildSteps, Slots
<1>9. ThreadMem(t)'
  BY <1>7, <1>8, Zenon DEF ThreadMem
<1> QED BY <1>1, <1>6, <1>9, MemFrame, Zenon

(* Every step keeps the memory invariant.                                  *)
LEMMA MemStep ==
  ASSUME TypeOK, TypeOK', RefInv, MemInv, [Next]_vars
  PROVE  MemInv'
<1>1. CASE UNCHANGED vars
  <2>1. ASSUME NEW t \in Threads PROVE ThreadMem(t)'
    <3>1. ThreadMem(t) BY Zenon DEF MemInv, OutputInv, GateInv, HeapInv, PtrInv, ThreadMem
    <3>2. /\ pc'[t] = pc[t] /\ req'[t] = req[t] /\ res'[t] = res[t]
          /\ out'[t] = out[t] /\ heap'[t] = heap[t] /\ ptr'[t] = ptr[t]
      BY <1>1, Zenon DEF vars
    <3>3. /\ paired_previous(req[t])' <=> paired_previous(req[t])
          /\ paired_tess_geometry(req[t])' <=> paired_tess_geometry(req[t])
      BY <3>2, Zenon DEF paired_previous, paired_tess_geometry, paired_geometry
    <3>4. ASSUME NEW b \in Blocks PROVE Owns(t, b)' <=> Owns(t, b)
      BY <3>2, <3>3, Zenon DEF Owns
    <3> QED BY <3>1, <3>2, <3>4, Zenon DEF ThreadMem
  <2>2. ~badFree' BY <1>1, Zenon DEF vars, MemInv, NoBadFree
  <2> QED
    BY <2>1, <2>2, Zenon DEF ThreadMem, MemInv, OutputInv, GateInv, HeapInv, PtrInv, NoBadFree
<1>2. ASSUME NEW t \in Threads, Import(t)
      PROVE  MemInv'
  BY <1>2, MemPrepare, MemPrepareFails, MemTrap, MemFail, MemLinkFacts, Zenon DEF Import
<1>3. ASSUME NEW t \in Threads, Build(t)
      PROVE  MemInv'
  BY <1>3, MemBuild, MemFail, MemPublish, Zenon DEF Build
<1>4. ASSUME NEW t \in Threads, \/ Reference(t) \/ CheckEntry(t) \/ CheckImpl(t)
                                \/ Finish(t) \/ WithdrawOutput(t) \/ CallerStep(t)
      PROVE  MemInv'
  BY <1>4, MemReference, MemCheck, MemReturn, Zenon
<1> QED BY <1>1, <1>2, <1>3, <1>4, Zenon DEF Next, LibraryStep
=============================================================================
