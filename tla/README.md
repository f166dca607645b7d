# Verification of libpsbc

TLA+ models of opengnm-psbc, the SPIR-V to PS4/PS5 shader compiler: TLC checks
them on small instances and TLAPS proves the central invariants for every
instance. Source paths are relative to the repository root (`libpsbc/...`);
`src/...` below is the vendored Mesa tree inside it.

## The system

An application calls one of seven entry points of `libpsbc/psbc_compile.c`
(a single stage, a caller's NIR, merged vertex + geometry, tessellation, domain,
tessellated geometry) with one to three shader modules and an options struct.
All of them go through `psbc_compile_impl`: check the arguments, take a
reference on the process-wide GLSL type cache (`psbc_init`), import each stage
to NIR, link and lower, generate code with ACO, wrap it in a shader binary,
fill the caller's `PsbcShaderOutput`, drop the reference. Every stage of this
can fail, and every failure has its own hand-written list of things to free.
A device may hold a reference of its own around many compiles, and compiles
run on several threads.

Three parts of the Mesa tree are this repository's own work and are modelled
too. On PS5, transform feedback has no GDS, so `ac_nir_prerast_utils.c` emits a
ticket protocol in global memory that the workgroups of a draw run against each
other. On Orbis there is no futex system call, so `util/futex.c` builds one from
a mutex and a condition variable, and Mesa's `simple_mtx` (which guards the type
cache and the option table during compiles) sits on it. ACO keeps its program in
an arena whose block growth was capped for console heaps (`aco_util.h`).

| part | code | module | status |
|---|---|---|---|
| request checks | psbc_compile.c 205-218, 2542-2598, 2644-2793, 4000-4165 | PsbcRequest | modelled |
| compile lifecycle, exits, output ownership | psbc_compile.c 2644-4175, 1644-2239 | PsbcCompile | modelled |
| library reference and type cache | psbc_compile.c 220-239, glsl_types.c 469-508 | PsbcCompile, TypeCache | modelled |
| stage import | psbc_compile.c 2410-2540, radv_shader.c 490-553 | PsbcCompile | partly |
| ordered streamout | ac_nir_prerast_utils.c 921-1340 | OrderedStreamout | modelled |
| Orbis futex, simple_mtx, queue fence | util/futex.c 59-136, simple_mtx.h, u_queue.[ch] | OrbisFutex, SimpleMtx | modelled |
| fragment distances, attribute numbering, mixed inputs | psbc_compile.c 411-541, 2361-2408, nir_recompute_io_bases.c | VaryingLinking, ShaderPackage | modelled |
| input and output semantics | psbc_compile.c 568-730, 3687-3713, radv_shader_info.c 384-479 | VaryingLinking, ShaderPackage | modelled |
| descriptor and push-constant use | psbc_compile.c 809-900, 1086-1107, 3558-3618 | StageResources, ShaderPackage | modelled |
| shader binary image | psbc_compile.c 285-297, 1644-2239, crc32_sb.c | ShaderImage, ShaderPackage, PsbcCompile | partly: not the hash and the CRC |
| metadata registers | psbc_compile.c 547-557, 940-1641 | ShaderMetadata, ShaderPackage | partly: not the register values |
| ACO arena | aco_util.h 225-375 | AcoArena | modelled |
| target setup, debug hook | psbc_compile.c 85-101, 2243-2349 | - | not modelled |
| command line | cmd/psbc/main.c | - | not modelled |
| link stubs; NIR, ACO, RADV, util | psbc_stubs.c, src/ | - | not modelled |

`PROJECT.json` lists the parts, the hazards of the code with the properties that
cover them, and for every definition the source lines it stands for.

## Modules

**PsbcRequest** is what a caller may ask. A request is the arguments of a call;
a module is abstracted to what the checks tell apart (NULL, NIR, allowed,
malformed, withheld capability, valid but untranslatable), and the options to
the fields the control flow reads. `EntryChecks` and `ImplChecks` are the checks
in the code's order; each yields the code's result. The arithmetic inside one
option group (strides, alignments, ranges) is one verdict, `fault`.

**PsbcCompile** is the lifecycle, for a set `Threads`. `pc[t]` is the point
where a thread is between two places where its call may return or another thread
may look: `init_lock ... init_unlock` are the lines of `psbc_init`, `nir`,
`previous`, `next_link`, `control` the imports of up to four stages, `facts` to
`publish` the rest of `psbc_compile_impl`, `down_*` the lines of
`psbc_shutdown`. `heap[t]` are the blocks its compile owns and `ptr[t]` the
local pointers that are not NULL; an exit frees what the code at that exit
frees, and `badFree` records a free of something dead. Freeing a shader takes
along what was stolen onto it. `refs` is a history variable: which calls of
`psbc_init` the counter counts. What a compile computes is left out; each step
that can fail has its failing twin with the code's result.

**TypeCache** is the abstract promise of `psbc_init`/`psbc_shutdown`: the type
cache exists exactly while somebody holds a reference. `PsbcCompile` implements
it (`TypeCacheSpec`), a reference counting from the step that creates the
singleton to the step that may destroy it.

**OrderedStreamout** is one draw: invocation 0 of each of `N` workgroups waits
for the ticket, reserves a range of each buffer, returns the unused rest, counts
and passes the ticket. A step is one atomic operation; only the two query totals
of a stream are added in one, because nothing reads them during the draw.
Generated primitives and buffer sizes are chosen initially. `Ticket0` is the
ticket the draw finds: 0, or a value the driver failed to clear.

**OrbisFutex** has a step per atomic access to a futex word and per section
under `orbis_futex_mutex`. A wait is split where the word may change: test under
the mutex (`block`), registered and asleep, woken. Taking the mutex and the test
are one step, and so is a whole `futex_wake`, since sleepers change only under
that mutex. A signal picks any sleeper, whatever word it sleeps on. The
condition variable may wake spuriously. A fence is signalled by a worker of the
queue and reset by whoever adds the next job. **SimpleMtx** is the lock its mutex
words implement: a mutex has at most one owner, is taken when it has none, and is
given up by its owner.

**ShaderPackage** is the same `psbc_compile_impl` seen from its data, for one
shader and without the allocations: link the distances, number the inputs,
gather use, split mixed inputs, name the inputs, then the copies of
`buildshaderbinary` one group at a time, then the metadata. A shader is a record
of what these steps read: its loads (kind, location, slots, interpolation), its
exports, push-constant loads, descriptor uses, declared bindings, table sizes.
The computations are operators of four modules without variables:

- **VaryingLinking**: which component and attribute each fragment load gets
  (`link_fragment_distance_layout`, `nir_recompute_io_bases`,
  `split_ps5_mixed_inputs`), the word that describes each attribute
  (`build_input_semantics`), the parameters a producer exports
  (`radv_set_vs_output_param`, then the removal of an implicit primitive id) and
  their words (`fill_output_semantics`). Attributes move twice after they are
  first assigned, and producers number their exports in two functions; that the
  numberings agree is what the properties are about.
- **StageResources**: dwords of push constants and bindings of descriptor sets
  that a program uses, alone or as a merged pair.
- **ShaderImage**: the size pass of `buildshaderbinary`, the entries its write
  pass writes, and the distance to the usage slots, stored in one byte.
- **ShaderMetadata**: the seven paths of `fill_shader_metadata`, the registers
  each adds to its two bounded lists, unresolved bits and published words.

**AcoArena** is `monotonic_buffer_resource`, for a set of arenas over a set of
heap blocks. `chain[m]` is the list of blocks of an arena, newest first; `live`
is a history variable, the allocations handed out and not yet released.
`release_reallocate` may get back an address it just freed. `malloc` may refuse;
the process then stops, as `aco_arena_exhausted` does.

## Runs

| run | instance | checks |
|---|---|---|
| lifecycle | 2 threads, 2 calls each, 3 request shapes and a device reference, fair; before them, any one call the checks tell apart | type cache outlives shaders, exact count, no double free, the inductive invariant (which has the ownership at every step), refinement of TypeCache; only validated modules are compiled, every accepted combination is cleaned up, a refused call has not written to a caller's NIR; every call comes back |
| package | about 14,000 shaders in families that vary one group of fields | every load is described where it reads, per-primitive ids last, mixed inputs link while attributes last, outputs named exactly, file as long as allocated, code and usage slots where the headers say, push and descriptor use exact |
| arena | 2 arenas, 4 blocks, sizes below and above the block cap | allocations inside live blocks and apart, no block lost or shared, growth within the cap, reallocation keeps room |
| streamout | 3 workgroups, 2 buffers of different stride in one stream, 2 reads before giving up | order while nobody times out, each workgroup emits what fits, final offset |
| streamout_live | 2 workgroups, 2 streams with a buffer each, a ticket nobody zeroed, sizes off the stride, fair | ranges unique and offset right even after timeouts, exact totals, the draw ends |
| orbis_mutex | 4 threads, 1 mutex | refinement of SimpleMtx (taken when free, given up by the owner), no lost wake |
| orbis_fence | 1 worker, 2 waiters, 2 fences, fair | true means signalled, no wait misses its wake and sleeps on |

Bounds. A compile touches other threads only through the library reference, so
two threads with two calls each (a compile overlapping the end of one and the
start of the next, or a device reference) meet every order of the critical
sections; the proofs below remove the bound. The three shapes are a single
stage, the pair with a third linked module (most blocks, and a shader stolen
onto another) and a pair of caller's NIR: `Shared`, the requests that threads make
side by side. The other shapes own subsets of their blocks; each of the requests
that the checks tell apart, which are thousands, is the first call of a process
that lets it finish before the next call. With `Shared = Requests`, an instance
the proofs include, callers are free. In `package` there are three attributes and locations instead
of 32, registers of two components instead of four, 16 bytes of push constants
instead of 256, two sets of two bindings instead of four of 64: enough that each
limit is met, passed by one and not reached. The register limits are the code's
own; no path reaches them. Structure sizes are small and unaligned, so that
different paddings occur; code of 256 dwords makes the one-byte field wrap. In
`arena` the header, the initial
size and the cap keep the code's order, scaled down; one size is larger than the
cap. `Doublings` are the factors the doubling loops may reach, and `MaxLive` ends
behaviours that only allocate. Three workgroups are the least where a late one
can be passed by two others (streamout_live, which also checks liveness, has
two); sizes are chosen so that a buffer is unbound, full
in the middle of a workgroup, or full at its end. `SpinBound` stands for the
65536 reads of the code; 1 to 3 allow both "the turn came in time" and "it did
not". The futex models have no bound other than the numbers of threads and words; one
worker runs the jobs of both fences, as liveness with two workers and two waiters
is too large to check.

The lifecycle, package and arena runs do not check for deadlock: a caller
may stop calling, a packaged shader is done, and a process that trapped or that
`abort` ended is over. The other runs do.

Fairness. A thread inside the library is scheduled (weak fairness of its next
step); callers owe nothing. `g_init_mutex` sections are finite, so weak fairness
is enough with the bounded calls of the instance. A call comes back or a
translator's trap has ended the process (`translation_failure` below). A workgroup that was launched
keeps running. For the futex, a thread that keeps asking for
`orbis_futex_mutex` gets it (strong fairness), owners unlock, and the queue gets
to every job; no fairness for wakeups without cause or for clocks.

## Disagreements with the documentation

Each of these is a run that TLC must find violated.

- **link_validation**: the comment at `psbc_compile.c:2673` wants every module
  validated before Mesa reads it; the evaluation half of
  `psbc_compile_tess_pipeline` is not.
- **translation_failure**: `radv_shader.c:553` dereferences the result of
  `spirv_to_nir`, so a module it rejects ends the process instead of returning
  `PSBC_RESULT_COMPILE_NIR`.
- **caller_nir**: `psbc_compile.h:586` says that the caller's NIR is cloned before
  it is lowered, and `radv_shader.c:495` that it is not to be altered. Its
  `options` pointer is aimed at a table in the callee's frame four lines earlier
  and stays there. What holds is that a call the checks refuse has not got that
  far (`RefusedNirUntouched`).
- **streamout_overlap**: after a wait timed out, two buffers of one stream can
  get overlapping ranges (and, for the same reason, the final offset need not be
  the end of the last capture). Both are right while no wait times out
  (`OrderedCapture`, `OrderedOffsetAfterLast`) and with one buffer to a stream.
- **orbis_two_mutexes**: `futex_wake` ignores its address; with two contended
  mutexes a signal for one may be taken by a sleeper of the other, and a thread
  sleeps on a free mutex. Exclusion is not affected.

Seen in the code and modelled, without a run:

- `psbc_compile.h:576` promises zeroed outputs on error; a NULL `spirv` or
  `opts` returns before the struct is cleared.
- `psbc_compile.h:382` says the use masks are zero unless static descriptor use
  was asked for; without it `psbc_compile.c:1097` reports the whole declaration.
  `DescriptorUseExact` is about programs that asked.
- The distance to the usage slots is one byte of dwords; from 1 KiB on it wraps
  (`psbc_compile.c:2195`). `UsageSlotsFound` holds below that.
- The vertex header says `input_semantics->count` entries, which only fragment
  shaders have, and the table has one per input read; the fragment header says
  the reverse (`psbc_compile.c:1856`, `1904`, `2098`). The two numbers differ
  for every vertex shader with inputs, and for fragment shaders with split or
  passed-over inputs. The size of the file is not affected (`ImageExact`).
- A legacy vertex program publishes no output semantics and yet does not mark
  its linkage unresolved (`psbc_compile.c:1408`); `OutputsExact` is about the
  paths that publish them.
- `allocate` keeps blocks to `maximum_block_size` "so a large program is held in
  many modest blocks"; `release_reallocate` then makes one block of everything,
  whatever its size (`aco_util.h:348`). `GrowthBounded` is about the former.

## Proofs

**The lifecycle** (`PsbcMemoryProofs`: types, what a compile owns;
`PsbcLifecycleProofs`: the reference count, the invariant and its consequences),
for any set of threads, any set of requests and any number of calls. None of the safety properties is inductive. That the type cache is alive
under a shader, for instance, needs that the thread's reference is counted, that
the counter is right, that the counter and the singleton agree except inside the
critical sections, and that only the owner of the mutex is there. `IInv` collects
this:

- `RefInv`: who is in a critical section holds the mutex; exactly the threads
  between their count and their uncount have a reference in `refs`; the counter
  is the size of `refs`; the singleton has one user when `refs` is not empty,
  with the two exceptions of the steps that create and destroy it.
- `MemInv`: at each step the heap is exactly what `Owns` says for it, the
  pointers are the heap (and the buffer that was freed but not reset), the
  output is filled exactly after success, and a request that got past a check
  satisfies it.

The lemma structure follows that split: `TypeStep`, `RefStep` and `MemStep` each
have one case per action, through frame lemmas for the steps that leave a
part alone. From `Inductive` follow `TypeCorrect`, `TypeCacheOutlivesNir`,
`RefcountIsExact`, `EveryExitFrees`, `NothingFreedTwice` and
`OnlyValidatedModulesCompile`; `ImplementsTypeCache` shows each step to be a
step of TypeCache or a stutter. `RefusalLeavesNir` is `RefusedNirUntouched`;
it needs a second invariant, `OptionsInv`, which follows the `options` pointer of a caller's
NIR from the checks through the import to the return. The assumptions are the
three named ones of `PsbcCompile`: requests are well formed and `Shared` are some of them, and the markers for
"no thread" and "no request" are neither.

**The futex** (`OrbisFutexProofs`), for any threads, mutexes and fences:
`ImplementsSimpleMtx` shows that every step of the three-valued word takes a free
mutex, gives up one's own, or does not show in SimpleMtx; a thread counts as owner
until the word is 0 again, so nobody gets in while the last owner is between its
decrement and its store. `SimpleMtxExcludes` is the plain exclusion. Both come
from the invariant that an owned word is not 0 and has one owner, and neither
depends on what wakes reach whom. `FenceWaitsAreTrue`: a wait
that reported success saw its fence signalled, from the fact that a fence with a
claim on it has the value 0 and only a reset, which ends the claim, changes it.
`SoleWakesReach`: with a single mutex, or with fences alone, no wake is lost. It
needs that a thread between test and sleep holds `orbis_futex_mutex`; the
restriction is the one the run orbis_two_mutexes shows to be necessary.

**Streamout** (`OrderedStreamoutProofs`; `StreamoutPackedProofs` for one buffer
to a stream), for any number of workgroups, any
buffers, strides and sizes. Assumed: the first primitive ids increase, strides
are positive, and buffers and streams are numbered 0 to 3, the range the code
loops over.

- In order. `CapturesInOrder` is `OrderedCapture`, `StreamoutTypeCorrect` is
  `TypeOK`. The inductive invariant `SInv` says that, while nobody timed out,
  there is a `k` with the ticket: workgroups before `k` are done, those after it
  wait (`Turn`), the counter of each buffer is what the present step of `k`
  makes of the end of the capture of `k - 1`, and all ranges that are final
  start where the one before ends (`Ranges`). From it `RangesUniqueInOrder`
  (`UniqueRanges` while no wait timed out) and `CounterAfterLast`
  (`OrderedOffsetAfterLast`), with an induction along the workgroups: a range
  starts behind every earlier capture, and the counter is behind the last.
- Timeouts included. `EmitsExactly` (`EmitsWhatFits`) takes no induction over
  the draw: it is the arithmetic of whole primitives in the room left
  (`RoomForLimit`) and of the four minimum operations (`LeastLimit`).
  `NoneWritesPastTheEnd` follows: no capture passes the end of its buffer.
  `TotalsAddUp` is `TotalsExact`: by the invariant `CInv` each query total is at
  every step the sum over the workgroups that have counted.
- One buffer to a stream, timeouts and a stale ticket included.
  `OneBufferUniqueRanges` and `OneBufferOffsetAfterLast` are the properties of
  the run streamout_live. The order of workgroups is then arbitrary, and what
  replaces it is `PackedInv`: the counter of a buffer is its start plus
  everything reserved and not returned (a sum); the captures fill, in some
  order and without a gap, the start of the buffer up to what was kept
  (`Full`); and once a reservation was cut short there is not room for one
  more primitive, so no later workgroup captures. The condition
  (`OneBufferEach`) is the one streamout_overlap shows to be necessary.

**Linking and the shader file** (`VaryingLinkingProofs`: what the operators
compute; `ShaderPackageProofs`: the pipeline), for any shaders, tables, limits
and structure sizes. The steps of a package form a pipeline, so the invariant
`LInv` says of each variable which computation of the request it holds, and the
properties become facts about those computations:

- `InputsDescribed` (`SemanticsDescribeEveryLoad`), `PrimitiveIdLast` and
  `MixedInputsNeverLost` (`MixedInputsLink`). `nir_recompute_io_bases` and the
  splitting both number a set of locations by rank, that is by how many are
  smaller. The lemmas on ranks say that they are distinct, dense and monotonic;
  from them each load's number is computed in closed form (`NumberLayout`: plain
  inputs, a per-vertex id, the split copies, a per-primitive id), and the word
  with that number is shown to describe that load.
- `OutputsNamed` (`OutputsExact`) and `OutputsAlwaysLink` (`OutputsLink`): the
  words `fill_output_semantics` wants are a naming of the exports; as the names
  are distinct and as many as the parameters, equal counts mean a bijection.
- `PushMasksExact` and `DescriptorMaskExact`: what the gathering functions
  collect is what the loads and uses reach, alone and merged.
- `PackageTypes` is `TypeOK`. `FileExact`, `CodeLocated` and `SlotsLocated` rest
  on a second invariant, `FInv`: for every step, the offset the size pass
  predicts for it (`Written`) and where the sections already written begin
  (`Located`). The lemmas compare the size pass with the write pass per stage.

Assumed: stage headers are whole dwords and sizes natural numbers; the table of
semantics has between 1 and 255 entries (the code's has 32, and 255 stands for
"not exported"); registers have at least one component; and of a shader
(`PackageAssumption`) that a distance load reads a declared distance, that a
viewport index is one slot, and that declared bindings lie inside the tables. A
descriptor use outside the masks is allowed; its binding is written
`MaxBindings`, whatever its number.

**The arena** (`AcoArenaProofs`), for any arenas, blocks, sizes, limits and
alignments up to 8: `ArenaMemoryValid`, `ArenaMemoryApart`, `ArenaBlocksOwned`,
`ArenaGrowthBounded` and `ArenaTypeCorrect`. The invariant `AInv` adds to the
properties that an allocation ends below the index of its block; without that
the next allocation of the block could overlap it. `ArenaReallocationKeepsRoom`
follows without a further invariant: a sum of sizes is the number of bytes it
stands for (`Units`), allocations do not overlap and end below the indices, so
the bytes in use map one to one to bytes that `Used` counts. Assumed is the
code's order of the limits (header below the minimum, minimum, initial size,
cap).

Sums. The prover has no induction over a predicate. Where a sum or a sequence of
workgroups needs one, the proofs induct with a set: a smallest number, or a
smallest subset, outside the set where the claim holds would contradict the
step (`OneByOne`, `AddsUnits`).

Only model-checked: the liveness properties `CallsReturn`, `DrawFinishes` and
`FenceWaitReturns`, which are beyond the prover. Every other property of a
passing run is a theorem, under the conditions named above.

## Not modelled

- What compilation computes: NIR passes, register allocation, code generation.
  They are Mesa's, and by far most of the lines of the repository; a model of
  them would say nothing about the library's own steps. Of Mesa, only the
  functions named in `PROJECT.json` are modelled.
- Register values in the metadata and the headers, and the user-data window:
  encodings of numbers RADV computed, without a decision of the library's own.
- The shader hash and the CRC: functions of the bytes of a program.
- Specialization data: `stage->spec_info` points into the frame of
  `prepare_stage_nir`, but only `radv_shader_spirv_to_nir` reads it, inside it.
- The debug hook: an unsynchronised pointer read twice (`psbc_compile.c:93`). The
  race is there to see; there is no protocol around it to check.
- The command line: one sequential call, with the shader file written before the
  metadata file; and target setup, constant tables behind a `pthread_once`.
- Memory exhaustion inside ralloc (Mesa does not handle it), and 32-bit wrap of
  streamout offsets (it takes 4 GiB of captures).
