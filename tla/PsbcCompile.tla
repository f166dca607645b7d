----------------------------- MODULE PsbcCompile -----------------------------
(***************************************************************************)
(* The lifetime of a libpsbc compile, for any number of application        *)
(* threads: the library reference every compile takes and drops, the       *)
(* shaders and buffers it owns on each of its exits, and what it leaves in *)
(* the caller's PsbcShaderOutput.                                          *)
(*                                                                         *)
(* A step is the code between two points where the call can return or      *)
(* another thread can observe it.  What a compile computes is left out;    *)
(* which step can fail, with which result, and what it frees first is not. *)
(***************************************************************************)
EXTENDS PsbcRequest, FiniteSets

CONSTANTS Threads,        \* application threads
          Requests,       \* the calls they may make
          Shared,         \* bound: those they make while other threads call too
          NoRequest,      \* the request of a thread that is in no compile
          NoThread,       \* g_init_mutex is free
          MaxCalls        \* bound: calls one thread makes

ASSUME RequestsAssumption ==
    Shared \subseteq Requests /\ Requests \subseteq Request /\ NoRequest \notin Request
ASSUME ThreadsAssumption  == NoThread \notin Threads
ASSUME MaxCallsAssumption == MaxCalls \in Nat

VARIABLES
    pc,           \* where each thread is
    req,          \* the arguments of its compile
    res,          \* the result its compile will return
    out,          \* the caller's output struct: "unset", "zero" or "filled"
    ptr,          \* local pointers of the compile that are not NULL
    heap,         \* blocks it allocated and nobody freed
    badFree,      \* some free() was given a block that was not live
    options,      \* where the options pointer of a caller's NIR points
    calls,        \* calls made so far
    mutex,        \* holder of g_init_mutex
    refcount,     \* g_init_refcount
    users,        \* glsl_type_cache.users
    refs          \* the psbc_init calls refcount counts, one <<thread, purpose>> each

memory  == <<ptr, heap, badFree>>
library == <<mutex, refcount, users, refs>>
vars    == <<pc, req, res, out, ptr, heap, badFree, options, calls,
             mutex, refcount, users, refs>>

Slots     == {"nir", "previous", "next_link", "control"}
NirBlocks == Slots
Blocks    == Slots \cup {"binary", "newcode", "data", "machine_code"}
InitSteps == {"init_lock", "init_count", "init_ref", "init_unlock"}
DownSteps == {"down_lock", "down_count", "down_decref", "down_unlock"}
BuildSteps == Slots \cup {"facts", "state", "lower", "semantics", "aco", "newcode",
                          "header", "machine_code", "publish"}
Steps     == {"idle", "entry", "impl", "finish", "returned", "trapped"}
             \cup InitSteps \cup DownSteps \cup BuildSteps
Purposes  == {"compile", "device"}

(* Every variable keeps its kind of value; the counts of library           *)
(* references and of singleton users never go below zero.                  *)
TypeOK ==
    /\ pc       \in [Threads -> Steps]
    /\ req      \in [Threads -> Request \cup {NoRequest}]
    /\ res      \in [Threads -> Results]
    /\ out      \in [Threads -> {"unset", "zero", "filled"}]
    /\ ptr      \in [Threads -> SUBSET Blocks]
    /\ heap     \in [Threads -> SUBSET Blocks]
    /\ badFree  \in BOOLEAN
    /\ options  \in [Threads -> {"caller", "frame"}]
    /\ calls    \in [Threads -> 0..MaxCalls]
    /\ mutex    \in Threads \cup {NoThread}
    /\ refcount \in Nat
    /\ users    \in Nat
    /\ refs     \in SUBSET (Threads \X Purposes)

Init ==
    /\ pc       = [t \in Threads |-> "idle"]
    /\ req      = [t \in Threads |-> NoRequest]
    /\ res      = [t \in Threads |-> "OK"]
    /\ out      = [t \in Threads |-> "unset"]
    /\ ptr      = [t \in Threads |-> {}]
    /\ heap     = [t \in Threads |-> {}]
    /\ badFree  = FALSE
    /\ options  = [t \in Threads |-> "caller"]
    /\ calls    = [t \in Threads |-> 0]
    /\ mutex    = NoThread
    /\ refcount = 0
    /\ users    = 0
    /\ refs     = {}

-----------------------------------------------------------------------------
Step(t, from, to) == pc[t] = from /\ pc' = [pc EXCEPT ![t] = to]

Alloc(t, b) ==
    /\ ptr'  = [ptr EXCEPT ![t] = @ \cup {b}]
    /\ heap' = [heap EXCEPT ![t] = @ \cup {b}]
    /\ badFree' = badFree

(* free() and ralloc_free() on the pointers in S, NULL ones skipped.  A    *)
(* shader takes the blocks stolen onto it along: the link-only control     *)
(* half of a tessellated geometry pair hangs off the main shader.          *)
Owned(S) == S \cup (IF "nir" \in S THEN {"control"} ELSE {})

Free(t, S) ==
    LET given == S \cap ptr[t]
    IN  /\ heap' = [heap EXCEPT ![t] = @ \ Owned(given)]
        /\ badFree' = \/ badFree
                      \/ ~(given \subseteq heap[t])
                      \/ {"nir", "control"} \subseteq given

(* An error exit of psbc_compile_impl once it holds its reference: free,   *)
(* then psbc_shutdown, then return the result.                             *)
Fail(t, from, S, result) ==
    /\ Step(t, from, "down_lock")
    /\ Free(t, S)
    /\ res' = [res EXCEPT ![t] = result]
    /\ UNCHANGED <<req, out, ptr, options, calls, library>>

Proceed(t, from, to) ==
    /\ Step(t, from, to)
    /\ UNCHANGED <<req, res, out, memory, options, calls, library>>

-----------------------------------------------------------------------------
(* psbc_init and psbc_shutdown, for a compile or for the device that wraps *)
(* its compiles in one long-lived reference.                               *)
Ref(t) == <<t, IF req[t] = NoRequest THEN "device" ELSE "compile">>

LibraryStepOf(t, from, to) ==
    /\ Step(t, from, to)
    /\ UNCHANGED <<req, res, out, memory, options, calls>>

(* Mutant: the counter is not protected.                                   *)
InitNoLock(t) ==
    /\ LibraryStepOf(t, "init_lock", "init_count")
    /\ UNCHANGED library

InitLock(t) ==
    /\ LibraryStepOf(t, "init_lock", "init_count")
    /\ mutex = NoThread
    /\ mutex' = t
    /\ UNCHANGED <<refcount, users, refs>>

InitCount(t) ==
    /\ LibraryStepOf(t, "init_count", IF refcount = 0 THEN "init_ref" ELSE "init_unlock")
    /\ refcount' = refcount + 1
    /\ refs' = refs \cup {Ref(t)}
    /\ UNCHANGED <<mutex, users>>

(* glsl_type_singleton_init_or_ref                                         *)
InitRef(t) ==
    /\ LibraryStepOf(t, "init_ref", "init_unlock")
    /\ users' = users + 1
    /\ UNCHANGED <<mutex, refcount, refs>>

InitUnlock(t) ==
    /\ LibraryStepOf(t, "init_unlock", IF req[t] = NoRequest THEN "idle" ELSE "nir")
    /\ mutex' = NoThread
    /\ UNCHANGED <<refcount, users, refs>>

ShutdownLock(t) ==
    /\ LibraryStepOf(t, "down_lock", "down_count")
    /\ mutex = NoThread
    /\ mutex' = t
    /\ UNCHANGED <<refcount, users, refs>>

(* Mutants: every psbc_shutdown drops the singleton; the last reference    *)
(* but one drops it.                                                       *)
ShutdownAlways(t) ==
    /\ LibraryStepOf(t, "down_count", "down_decref")
    /\ refcount' = IF refcount > 0 THEN refcount - 1 ELSE refcount
    /\ refs' = refs \ {Ref(t)}
    /\ UNCHANGED <<mutex, users>>
ShutdownEarly(t) ==
    /\ LibraryStepOf(t, "down_count", IF refcount = 2 THEN "down_decref" ELSE "down_unlock")
    /\ refcount' = IF refcount > 0 THEN refcount - 1 ELSE refcount
    /\ refs' = refs \ {Ref(t)}
    /\ UNCHANGED <<mutex, users>>

ShutdownCount(t) ==
    /\ LibraryStepOf(t, "down_count", IF refcount = 1 THEN "down_decref" ELSE "down_unlock")
    /\ refcount' = IF refcount > 0 THEN refcount - 1 ELSE refcount
    /\ refs' = refs \ {Ref(t)}
    /\ UNCHANGED <<mutex, users>>

(* glsl_type_singleton_decref, which asserts that there is a user.         *)
ShutdownDecref(t) ==
    /\ LibraryStepOf(t, "down_decref", "down_unlock")
    /\ users' = users - 1
    /\ UNCHANGED <<mutex, refcount, refs>>

(* Mutant: the mutex stays locked.                                         *)
ShutdownNoUnlock(t) ==
    /\ LibraryStepOf(t, "down_unlock", IF req[t] = NoRequest THEN "idle" ELSE "finish")
    /\ UNCHANGED library

ShutdownUnlock(t) ==
    /\ LibraryStepOf(t, "down_unlock", IF req[t] = NoRequest THEN "idle" ELSE "finish")
    /\ mutex' = NoThread
    /\ UNCHANGED <<refcount, users, refs>>

-----------------------------------------------------------------------------
(* A public entry point, and the checks before the library reference.      *)
CheckEntry(t) ==
    LET r       == req[t]
        verdict == EntryChecks(r)
    IN  /\ pc[t] = "entry"
        /\ pc' = [pc EXCEPT ![t] = IF verdict = "OK" THEN "impl" ELSE "returned"]
        /\ res' = [res EXCEPT ![t] = verdict]
        /\ out' = [out EXCEPT ![t] = IF r.entry = "tess_geometry" /\ r.out THEN "zero" ELSE @]
        /\ UNCHANGED <<req, memory, options, calls, library>>

CheckImpl(t) ==
    LET r       == req[t]
        verdict == NullChecks(r) ++ ImplChecks(r)
    IN  /\ pc[t] = "impl"
        /\ pc' = [pc EXCEPT ![t] = IF verdict = "OK" THEN "init_lock" ELSE "finish"]
        /\ res' = [res EXCEPT ![t] = verdict]
        /\ out' = [out EXCEPT ![t] = IF NullChecks(r) = "OK" THEN "zero" ELSE @]
        /\ UNCHANGED <<req, memory, options, calls, library>>

-----------------------------------------------------------------------------
(* The shaders a compile prepares, in order: its own, the previous stage   *)
(* of a pair, and the stage it only links against.                         *)
SlotModule(r, s) == CASE s = "nir"      -> r.main
                      [] s = "previous" -> r.prev
                      [] OTHER          -> r.link

SlotStage(r, s) == CASE s = "nir"       -> MesaStage(r)
                     [] s = "previous"  -> PreviousStage(r)
                     [] s = "next_link" -> "TESS_EVAL"
                     [] s = "control"   -> "TESS_CTRL"

AfterSlot(r, s) ==
    CASE s = "nir" /\ paired_previous(r) -> "previous"
      [] s = "previous" /\ paired_hull(r) /\ Spirv(r.link) -> "next_link"
      [] s = "previous" /\ paired_tess_geometry(r) -> "control"
      [] s = "next_link" -> "facts"
      [] OTHER -> "state"

EarlierSlots(s) == CASE s = "nir"      -> {}
                     [] s = "previous" -> {"nir"}
                     [] OTHER          -> {"previous", "nir"}

NirStageMismatch(r) == r.main = "NIR" /\ r.mainStage # MesaStage(r)

(* Mutant: the stage of a caller's NIR is looked at once it is imported.   *)
RejectNirStageLate(t) ==
    /\ Step(t, "nir", "down_lock")
    /\ NirStageMismatch(req[t])
    /\ Free(t, {})
    /\ res' = [res EXCEPT ![t] = "UNSUPPORTED_STAGE"]
    /\ options' = [options EXCEPT ![t] = "frame"]
    /\ UNCHANGED <<req, out, ptr, calls, library>>

RejectNirStage(t) ==
    /\ Fail(t, "nir", {}, "UNSUPPORTED_STAGE")
    /\ NirStageMismatch(req[t])

(* radv_shader_spirv_to_nir points the caller's NIR at nir_options inside  *)
(* this call's frame before it clones it.                                  *)
ImportOptions(t, s) ==
    options' = [options EXCEPT ![t] = IF SlotModule(req[t], s) = "NIR" THEN "frame" ELSE @]

prepare_stage_nir(t, s) ==
    /\ Step(t, s, AfterSlot(req[t], s))
    /\ SlotModule(req[t], s) # "untranslatable"
    /\ s = "nir" => ~NirStageMismatch(req[t])
    /\ Alloc(t, s)
    /\ ImportOptions(t, s)
    /\ UNCHANGED <<req, res, out, calls, library>>

(* link_fragment_distance_layout refuses the layout: the shader is freed   *)
(* inside prepare_stage_nir, the caller frees those it had before.         *)
PrepareFails(t, s) ==
    /\ Step(t, s, "down_lock")
    /\ SlotModule(req[t], s) # "untranslatable"
    /\ s = "nir" => ~NirStageMismatch(req[t])
    /\ SlotStage(req[t], s) = "FRAGMENT"
    /\ Free(t, EarlierSlots(s))
    /\ res' = [res EXCEPT ![t] = "COMPILE_NIR"]
    /\ ImportOptions(t, s)
    /\ UNCHANGED <<req, out, ptr, calls, library>>

(* spirv_to_nir returns NULL and radv_shader_spirv_to_nir writes through   *)
(* it: the process stops here.                                             *)
PrepareTraps(t, s) ==
    /\ Proceed(t, s, "trapped")
    /\ SlotModule(req[t], s) = "untranslatable"

(* The link-only evaluation half of a hull pair is read and freed at once. *)
CopyLinkFacts(t) ==
    /\ Step(t, "facts", "state")
    /\ Free(t, {"next_link"})
    /\ ptr' = [ptr EXCEPT ![t] = @ \ {"next_link"}]
    /\ UNCHANGED <<req, res, out, options, calls, library>>

-----------------------------------------------------------------------------
(* The rest of psbc_compile_impl, from the pipeline state to the binary.   *)
Shaders == {"previous", "nir"}

(* Mutants: an exit that leaves the previous shader behind, one that drops *)
(* no reference, and a publication that frees the stolen shader by name.   *)
RejectStateLeaks(t) == Fail(t, "state", {"nir"}, "INTERNAL_ERROR")
RejectStateKeepsReference(t) ==
    /\ Step(t, "state", "finish")
    /\ Free(t, Shaders)
    /\ res' = [res EXCEPT ![t] = "INTERNAL_ERROR"]
    /\ UNCHANGED <<req, out, ptr, options, calls, library>>
PublishFreesControl(t) ==
    /\ Step(t, "publish", "down_lock")
    /\ Free(t, {"binary", "control"} \cup Shaders)
    /\ out' = [out EXCEPT ![t] = "filled"]
    /\ res' = [res EXCEPT ![t] = "OK"]
    /\ UNCHANGED <<req, ptr, options, calls, library>>

(* Sample count, primitive type, vertex attribute formats and layout.      *)
AcceptState(t) == Proceed(t, "state", "lower")
RejectState(t) == Fail(t, "state", Shaders, "INTERNAL_ERROR")

(* Info passes, linking, arguments, legacy GS and post-processing; only    *)
(* split_ps5_mixed_inputs can fail.                                        *)
Lower(t) == Proceed(t, "lower", "semantics")
SplitFails(t) ==
    /\ Fail(t, "lower", Shaders, "INTERNAL_ERROR")
    /\ MesaStage(req[t]) = "FRAGMENT" /\ req[t].target = "PS5"

(* build_input_semantics: this exit frees the main shader alone.           *)
InputSemantics(t) == Proceed(t, "semantics", "aco")
InputSemanticsFail(t) ==
    /\ Fail(t, "semantics", {"nir"}, "INTERNAL_ERROR")
    /\ MesaStage(req[t]) = "FRAGMENT"

radv_shader_nir_to_asm(t) ==
    /\ Step(t, "aco", "newcode")
    /\ Alloc(t, "binary")
    /\ UNCHANGED <<req, res, out, options, calls, library>>
AcoFails(t) == Fail(t, "aco", Shaders, "COMPILE_ACO")

(* buildshaderbinary: the relocated code, then the image and its header.   *)
BuildNewcode(t) ==
    /\ Step(t, "newcode", "header")
    /\ Alloc(t, "newcode")
    /\ UNCHANGED <<req, res, out, options, calls, library>>
NewcodeFails(t) == Fail(t, "newcode", {"binary"} \cup Shaders, "OUT_OF_MEMORY")

BuildImage(t) ==
    /\ Step(t, "header", "machine_code")
    /\ HasHeader(req[t])
    /\ ptr'  = [ptr EXCEPT ![t] = @ \cup {"data"}]
    /\ heap' = [heap EXCEPT ![t] = (@ \ {"newcode"}) \cup {"data"}]
    /\ badFree' = (badFree \/ "newcode" \notin heap[t])
    /\ UNCHANGED <<req, res, out, options, calls, library>>
ImageFails(t) == Fail(t, "header", {"newcode", "binary"} \cup Shaders, "OUT_OF_MEMORY")
NoHeader(t) ==
    /\ Fail(t, "header", {"newcode", "binary"} \cup Shaders, "UNSUPPORTED_STAGE")
    /\ ~HasHeader(req[t])

CopyMachineCode(t) ==
    /\ Step(t, "machine_code", "publish")
    /\ Alloc(t, "machine_code")
    /\ UNCHANGED <<req, res, out, options, calls, library>>
MachineCodeFails(t) == Fail(t, "machine_code", {"data", "binary"} \cup Shaders, "OUT_OF_MEMORY")

Publish(t) ==
    /\ Step(t, "publish", "down_lock")
    /\ Free(t, {"binary"} \cup Shaders)
    /\ out' = [out EXCEPT ![t] = "filled"]
    /\ res' = [res EXCEPT ![t] = "OK"]
    /\ UNCHANGED <<req, ptr, options, calls, library>>

-----------------------------------------------------------------------------
OutputBlocks == {"data", "machine_code"}

Finish(t) == Proceed(t, "finish", "returned")

(* psbc_compile_tess_geometry_pipeline withdraws a program whose metadata  *)
(* lacks the merged source stage or the ring table.                        *)
WithdrawOutput(t) ==
    /\ Step(t, "finish", "returned")
    /\ req[t].entry = "tess_geometry" /\ res[t] = "OK"
    /\ Free(t, OutputBlocks)
    /\ out' = [out EXCEPT ![t] = "zero"]
    /\ res' = [res EXCEPT ![t] = "INTERNAL_ERROR"]
    /\ UNCHANGED <<req, ptr, options, calls, library>>

-----------------------------------------------------------------------------
(* The application.  It frees the output of a successful compile, and its  *)
(* device holds at most one reference per thread, dropped once.  A request *)
(* that is not Shared is the first of the process, and no call begins      *)
(* before it is over; with Shared = Requests callers are free.             *)
Offered == IF \A t \in Threads : calls[t] = 0 THEN Requests ELSE Shared
MayCall(t) ==
    /\ calls[t] < MaxCalls
    /\ \A u \in Threads : req[u] \in Shared \cup {NoRequest}

Call(t) ==
    /\ MayCall(t)
    /\ Step(t, "idle", "entry")
    /\ \E r \in Offered : req' = [req EXCEPT ![t] = r]
    /\ calls' = [calls EXCEPT ![t] = @ + 1]
    /\ UNCHANGED <<res, out, memory, options, library>>

DeviceInit(t) ==
    /\ <<t, "device">> \notin refs
    /\ MayCall(t)
    /\ Step(t, "idle", "init_lock")
    /\ calls' = [calls EXCEPT ![t] = @ + 1]
    /\ UNCHANGED <<req, res, out, memory, options, library>>

DeviceShutdown(t) ==
    /\ <<t, "device">> \in refs
    /\ Proceed(t, "idle", "down_lock")

(* The result is consumed and the locals of the call go out of scope.      *)
psbc_free_output(t) ==
    /\ Step(t, "returned", "idle")
    /\ IF res[t] = "OK" THEN Free(t, OutputBlocks) ELSE UNCHANGED <<heap, badFree>>
    /\ ptr'     = [ptr EXCEPT ![t] = {}]
    /\ req'     = [req EXCEPT ![t] = NoRequest]
    /\ res'     = [res EXCEPT ![t] = "OK"]
    /\ out'     = [out EXCEPT ![t] = "unset"]
    /\ options' = [options EXCEPT ![t] = "caller"]
    /\ UNCHANGED <<calls, library>>

-----------------------------------------------------------------------------
Reference(t) ==
    \/ InitLock(t) \/ InitCount(t) \/ InitRef(t) \/ InitUnlock(t)
    \/ ShutdownLock(t) \/ ShutdownCount(t) \/ ShutdownDecref(t) \/ ShutdownUnlock(t)

Import(t) ==
    \/ RejectNirStage(t)
    \/ \E s \in Slots : prepare_stage_nir(t, s) \/ PrepareFails(t, s) \/ PrepareTraps(t, s)
    \/ CopyLinkFacts(t)

Build(t) ==
    \/ AcceptState(t) \/ RejectState(t)
    \/ Lower(t) \/ SplitFails(t)
    \/ InputSemantics(t) \/ InputSemanticsFail(t)
    \/ radv_shader_nir_to_asm(t) \/ AcoFails(t)
    \/ BuildNewcode(t) \/ NewcodeFails(t)
    \/ BuildImage(t) \/ ImageFails(t) \/ NoHeader(t)
    \/ CopyMachineCode(t) \/ MachineCodeFails(t)
    \/ Publish(t)

LibraryStep(t) ==
    \/ CheckEntry(t) \/ CheckImpl(t)
    \/ Reference(t) \/ Import(t) \/ Build(t)
    \/ Finish(t) \/ WithdrawOutput(t)

CallerStep(t) ==
    \/ Call(t)
    \/ DeviceInit(t) \/ DeviceShutdown(t) \/ psbc_free_output(t)

(* A trap ends the process, every thread of it.                            *)
Running == \A t \in Threads : pc[t] # "trapped"

Next == Running /\ \E t \in Threads : LibraryStep(t) \/ CallerStep(t)

Spec == Init /\ [][Next]_vars

(* Threads inside the library are scheduled; callers are free to stop.     *)
FairSpec == Spec /\ \A t \in Threads : WF_vars(Running /\ LibraryStep(t))

-----------------------------------------------------------------------------
(* Whenever a thread owns a NIR shader, the GLSL type cache its types live *)
(* in is allocated, whatever the other threads' psbc_init and              *)
(* psbc_shutdown calls are doing.                                          *)
NirNeedsTypeCache ==
    \A t \in Threads : heap[t] \cap NirBlocks # {} => users > 0

(* g_init_refcount is the number of references outstanding: no exit of     *)
(* psbc_compile_impl drops its reference twice or forgets it.              *)
RefcountExact == refcount = Cardinality(refs)

(* A compile that returns has freed everything it allocated except the two *)
(* blocks of a successful output, and the output struct is filled exactly  *)
(* when the result is PSBC_RESULT_OK: the dozen error exits neither leak   *)
(* nor hand out memory.                                                    *)
ReturnOwnership ==
    \A t \in Threads : pc[t] = "returned" =>
        /\ heap[t] = IF res[t] = "OK" THEN OutputBlocks ELSE {}
        /\ out[t] = "filled" <=> res[t] = "OK"

(* A thread outside the library owns no block and no compile reference.    *)
IdleHoldsNothing ==
    \A t \in Threads : pc[t] = "idle" => heap[t] = {} /\ <<t, "compile">> \notin refs

(* No exit frees a shader or buffer that is already freed: in particular   *)
(* a shader stolen onto another one is not freed again by name.            *)
NoBadFree == ~badFree

Unvalidated(m) == m \in {"malformed", "withheld"}

(* No shader that becomes part of a program, and no control half a         *)
(* tessellated geometry pair links against, comes from SPIR-V that failed  *)
(* validate_spirv_capabilities.                                            *)
CompiledModulesValidated ==
    \A t \in Threads : \A s \in (heap[t] \cap Slots) \ {"next_link"} :
        ~Unvalidated(SlotModule(req[t], s))

(* A reference counts from the step that makes the cache exist to the step *)
(* that may destroy it.                                                    *)
HeldRefs ==
    (refs \ {Ref(t) : t \in {u \in Threads : pc[u] = "init_ref"}})
    \cup {Ref(t) : t \in {u \in Threads : pc[u] = "down_decref"}}

TC == INSTANCE TypeCache WITH References <- Threads \X Purposes,
                              held <- HeldRefs, alive <- users > 0

(* psbc_init and psbc_shutdown implement the lifetime TypeCache describes. *)
TypeCacheSpec == TC!Spec

(* A call that one of its checks refuses has not written to the caller's   *)
(* NIR: the checks, those behind psbc_init included, all come before the   *)
(* import.                                                                 *)
RefusedNirUntouched ==
    \A t \in Threads : pc[t] = "returned" =>
        LET r == req[t]
        IN  \/ options[t] = "caller"
            \/ /\ r.main = "NIR" /\ ~NirStageMismatch(r)
               /\ EntryChecks(r) = "OK" /\ NullChecks(r) = "OK" /\ ImplChecks(r) = "OK"

(* Every call into the library comes back, through g_init_mutex twice,     *)
(* unless a translator's trap has ended the process meanwhile.             *)
CallsReturn ==
    \A t \in Threads : pc[t] # "idle" ~> pc[t] \in {"idle", "returned"} \/ ~Running

-----------------------------------------------------------------------------
(* psbc_compile.c, above the validation of the main module: a module the   *)
(* options do not allow must fail closed; also the evaluation half         *)
(* psbc_compile_tess_pipeline links against.                               *)
LinkedModulesValidated ==
    \A t \in Threads : \A s \in heap[t] \cap Slots : ~Unvalidated(SlotModule(req[t], s))

(* psbc_compile.h: a call "Returns PSBC_RESULT_OK on success, error code   *)
(* otherwise", also when spirv_to_nir rejects the module.                  *)
FailureReturnsCode == Running

(* psbc_compile.h: "The input remains owned by the caller; libpsbc clones  *)
(* it before optimization and target lowering", so a caller gets its const *)
(* NIR back as it gave it.                                                 *)
CallerNirUntouched ==
    \A t \in Threads : pc[t] = "returned" => options[t] = "caller"

-----------------------------------------------------------------------------
(* The parts of the inductive invariant behind the properties above.       *)
Critical     == {"init_count", "init_ref", "init_unlock",
                 "down_count", "down_decref", "down_unlock"}
CountedSteps == {"init_ref", "init_unlock", "down_lock", "down_count"}
InCompile    == BuildSteps \cup {"entry", "impl", "finish", "returned", "trapped"}

PhaseInv ==
    \A t \in Threads : /\ pc[t] = "idle" => req[t] = NoRequest
                       /\ pc[t] \in InCompile => req[t] # NoRequest

MutexInv == \A t \in Threads : pc[t] \in Critical <=> mutex = t

ReferenceInv ==
    \A t \in Threads :
        /\ <<t, "compile">> \in refs <=>
             /\ req[t] # NoRequest
             /\ pc[t] \in BuildSteps \cup CountedSteps \cup {"trapped"}
        /\ req[t] = NoRequest /\ pc[t] \in InitSteps \cup DownSteps =>
             (<<t, "device">> \in refs <=> pc[t] \in CountedSteps)

CountInv == IsFiniteSet(refs) /\ refcount = Cardinality(refs)

CacheInv ==
    /\ \A t \in Threads : pc[t] = "init_ref" => users = 0 /\ refs = {Ref(t)}
    /\ \A t \in Threads : pc[t] = "down_decref" => users = 1 /\ refs = {}
    /\ (\A t \in Threads : pc[t] \notin {"init_ref", "down_decref"}) =>
         users = IF refs = {} THEN 0 ELSE 1

RefInv == PhaseInv /\ MutexInv /\ ReferenceInv /\ CountInv /\ CacheInv

(* What each step owns, and which of a compile's pointers are set.         *)
HasNir      == BuildSteps \ {"nir"}
HasPrevious == HasNir \ {"previous"}
HasControl  == HasPrevious \ {"next_link", "facts", "control"}
HasBinary   == {"newcode", "header", "machine_code", "publish"}
HasData     == {"machine_code", "publish"}

Owns(t, b) ==
    \/ b = "nir"          /\ pc[t] \in HasNir
    \/ b = "previous"     /\ pc[t] \in HasPrevious /\ paired_previous(req[t])
    \/ b = "control"      /\ pc[t] \in HasControl /\ paired_tess_geometry(req[t])
    \/ b = "next_link"    /\ pc[t] = "facts"
    \/ b = "binary"       /\ pc[t] \in HasBinary
    \/ b = "newcode"      /\ pc[t] = "header"
    \/ b = "data"         /\ (pc[t] \in HasData \/ out[t] = "filled")
    \/ b = "machine_code" /\ (pc[t] = "publish" \/ out[t] = "filled")

OutputInv ==
    \A t \in Threads :
        out[t] = "filled" <=> /\ req[t] # NoRequest
                              /\ pc[t] \in DownSteps \cup {"finish", "returned"}
                              /\ res[t] = "OK"

GateInv ==
    \A t \in Threads :
        /\ pc[t] = "impl" => EntryChecks(req[t]) = "OK"
        /\ req[t] # NoRequest /\ pc[t] \in InitSteps \cup BuildSteps =>
             EntryChecks(req[t]) = "OK" /\ ImplChecks(req[t]) = "OK"
        /\ pc[t] = "previous" => paired_previous(req[t])
        /\ pc[t] \in {"next_link", "facts"} => paired_hull(req[t])
        /\ pc[t] = "control" => paired_tess_geometry(req[t])
        /\ pc[t] = "trapped" => /\ EntryChecks(req[t]) = "OK" /\ ImplChecks(req[t]) = "OK"
                                /\ "control" \notin heap[t]

HeapInv ==
    \A t \in Threads : pc[t] # "trapped" =>
        \A b \in Blocks : b \in heap[t] <=> Owns(t, b)

PtrInv ==
    \A t \in Threads :
        /\ pc[t] \in BuildSteps => ptr[t] = heap[t] \cup (IF pc[t] \in HasData THEN {"newcode"} ELSE {})
        /\ pc[t] \in {"idle", "entry", "impl"} \cup InitSteps => ptr[t] = {}
        /\ req[t] = NoRequest => ptr[t] = {}
        /\ out[t] = "filled" => OutputBlocks \subseteq ptr[t]

MemInv == OutputInv /\ GateInv /\ HeapInv /\ PtrInv /\ NoBadFree

(* Every step of every thread, in the library reference's critical         *)
(* sections or on one of the compile's exits, keeps together the types,    *)
(* the reference bookkeeping and the ownership of memory.                  *)
IInv == TypeOK /\ RefInv /\ MemInv
=============================================================================
