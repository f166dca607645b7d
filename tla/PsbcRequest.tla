----------------------------- MODULE PsbcRequest -----------------------------
(***************************************************************************)
(* What a caller may ask of libpsbc and what the library decides before it *)
(* touches Mesa: the entry points of psbc_compile.c and the checks at the  *)
(* head of psbc_compile_impl.                                              *)
(*                                                                         *)
(* A request is the arguments of one call.  Its shader modules are         *)
(* abstracted to what the checks tell apart: a NULL pointer, a NIR shader, *)
(* SPIR-V that the options allow, SPIR-V whose instruction stream is       *)
(* malformed, SPIR-V that declares a capability the options withhold, and  *)
(* SPIR-V that passes both checks and that spirv_to_nir then gives up on.  *)
(***************************************************************************)
EXTENDS Naturals

Stages  == {"NONE", "VERTEX", "TESS_CTRL", "TESS_EVAL", "GEOMETRY",
            "FRAGMENT", "COMPUTE", "TASK", "EXPORT", "LOCAL"}
Targets == {"PS4_BASE", "PS4_NEO", "PS5"}
Results == {"OK", "INVALID_SPIRV", "UNSUPPORTED_STAGE", "COMPILE_NIR",
            "COMPILE_ACO", "OUT_OF_MEMORY", "INTERNAL_ERROR",
            "UNSUPPORTED_CAPABILITY"}

Entries == {"shader", "nir", "geometry", "nir_geometry",
            "tess", "domain", "tess_geometry"}
SpirvModules == {"allowed", "malformed", "withheld", "untranslatable"}
Modules == {"NULL", "NIR"} \cup SpirvModules

(* The option groups psbc_compile_impl checks as a whole; a request names  *)
(* the one group that is inconsistent, if any.  The checks inside a group  *)
(* are arithmetic on option fields and change no state.                    *)
OptionFaults == {"none", "caps", "binding_count", "spec", "color", "bindings"}

Arguments ==
    [entry  : Entries,
     main   : Modules,      \* the stage that is compiled
     prev   : Modules,      \* the stage before it, merged or linked
     link   : Modules,      \* a stage prepared only for cross-stage facts
     mainStage : Stages,    \* info.stage of a NIR main module
     prevStage : Stages,    \* info.stage of a NIR previous module
     opts   : BOOLEAN,      \* opts pointer is not NULL
     out    : BOOLEAN,      \* out pointer is not NULL
     stage  : Stages,
     target : Targets,
     ngg    : BOOLEAN,
     streamout : BOOLEAN,   \* ps5_global_streamout
     primid    : BOOLEAN,   \* primitive_id_per_primitive
     patch  : Nat,          \* patch_control_points
     fault  : OptionFaults]

(* The modules each entry point takes; it passes NULL for the others.      *)
ModulesOf(entry) ==
    LET spirv == SpirvModules \cup {"NULL"}
        nir   == {"NIR", "NULL"}
        none  == {"NULL"}
    IN  CASE entry = "shader"   -> [main |-> spirv, prev |-> none,  link |-> none]
          [] entry = "nir"      -> [main |-> nir,   prev |-> none,  link |-> none]
          [] entry = "nir_geometry" -> [main |-> nir, prev |-> nir, link |-> none]
          [] entry \in {"geometry", "domain"} ->
                                   [main |-> spirv, prev |-> spirv, link |-> none]
          [] OTHER              -> [main |-> spirv, prev |-> spirv, link |-> spirv]

Request ==
    {r \in Arguments : /\ r.main \in ModulesOf(r.entry).main
                       /\ r.prev \in ModulesOf(r.entry).prev
                       /\ r.link \in ModulesOf(r.entry).link}

-----------------------------------------------------------------------------
psbc_to_mesa_stage(s) ==
    CASE s \in {"EXPORT", "LOCAL"} -> "VERTEX"
      [] OTHER -> s

Given(m)  == m # "NULL"
Spirv(m)  == m \in SpirvModules

validate_spirv_capabilities(m) ==
    CASE m = "malformed" -> "INVALID_SPIRV"
      [] m = "withheld"  -> "UNSUPPORTED_CAPABILITY"
      [] OTHER           -> "OK"

MesaStage(r) == psbc_to_mesa_stage(r.stage)

(* The forms psbc_compile_impl distinguishes.  A geometry or hull pair is  *)
(* a merge of two halves into one program; a domain pair is only a link.   *)
paired_previous(r)      == Given(r.prev)
paired_geometry(r)      == paired_previous(r) /\ MesaStage(r) = "GEOMETRY"
paired_tess_geometry(r) == paired_geometry(r) /\ Spirv(r.link)
paired_hull(r)          == paired_previous(r) /\ MesaStage(r) = "TESS_CTRL"
paired_domain(r)        == paired_previous(r) /\ MesaStage(r) = "TESS_EVAL"

PreviousStage(r) == CASE paired_domain(r)        -> "TESS_CTRL"
                      [] paired_tess_geometry(r) -> "TESS_EVAL"
                      [] OTHER                   -> "VERTEX"

-----------------------------------------------------------------------------
(* A check yields the result the call returns with, or "OK" to go on; the  *)
(* first check of a chain that fails decides.                              *)
Reject(bad, result) == IF bad THEN result ELSE "OK"
a ++ b == IF a = "OK" THEN b ELSE a

BadPatch(r) == r.patch = 0 \/ r.patch > 32

(* The checks a public entry point makes before psbc_compile_impl.  The    *)
(* two tessellation entry points that return early leave `out' alone;      *)
(* psbc_compile_tess_geometry_pipeline clears it first.                    *)
EntryChecks(r) ==
    CASE r.entry = "tess" ->
              Reject(~r.out \/ ~r.opts \/ ~Given(r.prev) \/ ~Given(r.main) \/ ~Given(r.link),
                     "INVALID_SPIRV")
           ++ Reject(r.stage # "TESS_CTRL" \/ r.target # "PS5", "UNSUPPORTED_STAGE")
           ++ Reject(BadPatch(r), "UNSUPPORTED_STAGE")
      [] r.entry = "domain" ->
              Reject(~r.out \/ ~r.opts \/ ~Given(r.prev) \/ ~Given(r.main), "INVALID_SPIRV")
           ++ Reject(r.stage # "TESS_EVAL" \/ r.target # "PS5", "UNSUPPORTED_STAGE")
           ++ Reject(BadPatch(r), "UNSUPPORTED_STAGE")
      [] r.entry = "tess_geometry" ->
              Reject(~r.out \/ ~r.opts \/ ~Given(r.link) \/ ~Given(r.prev) \/ ~Given(r.main),
                     "INVALID_SPIRV")
           ++ Reject(r.target # "PS5" \/ r.stage # "GEOMETRY" \/ ~r.ngg \/ BadPatch(r),
                     "UNSUPPORTED_STAGE")
           ++ validate_spirv_capabilities(r.link)
      [] OTHER -> "OK"

(* The pointer check psbc_compile_impl makes before it clears `out'.       *)
NullChecks(r) == Reject(~Given(r.main) \/ ~r.opts \/ ~r.out, "INTERNAL_ERROR")

(* Mutants: the stage list of a pair is not checked; the previous module   *)
(* is not validated.                                                       *)
AnyStagePair(r) == paired_previous(r) /\ r.target # "PS5"
PreviousUnchecked(r) == "OK"

(* Which pairs there is no merge or link for.                              *)
PairUnsupported(r) ==
    paired_previous(r) /\ (\/ ~(paired_geometry(r) \/ paired_hull(r) \/ paired_domain(r))
                           \/ paired_geometry(r) /\ ~r.ngg
                           \/ paired_hull(r) /\ r.ngg
                           \/ r.target # "PS5")

PreviousVerdict(r) == validate_spirv_capabilities(r.prev)

(* Everything psbc_compile_impl checks between clearing `out' and taking   *)
(* its library reference.                                                  *)
ImplChecks(r) ==
       Reject(r.fault = "caps", "INTERNAL_ERROR")
    ++ validate_spirv_capabilities(r.main)
    ++ Reject(MesaStage(r) = "NONE", "UNSUPPORTED_STAGE")
    ++ Reject(PairUnsupported(r), "UNSUPPORTED_STAGE")
    ++ Reject(r.streamout /\ ~paired_geometry(r), "UNSUPPORTED_STAGE")
    ++ Reject(r.primid /\ (r.target # "PS5" \/ MesaStage(r) # "FRAGMENT"), "UNSUPPORTED_STAGE")
    ++ Reject(r.prev = "NIR" /\ r.prevStage # PreviousStage(r), "UNSUPPORTED_STAGE")
    ++ PreviousVerdict(r)
    ++ Reject(r.ngg /\ (\/ r.target # "PS5"
                        \/ /\ MesaStage(r) \notin {"VERTEX", "TESS_EVAL"}
                           /\ ~paired_geometry(r)), "UNSUPPORTED_STAGE")
    ++ Reject(r.fault \in {"binding_count", "spec", "color", "bindings"}, "INTERNAL_ERROR")

(* The stages buildshaderbinary has a header for; any other stage reaches  *)
(* its default branch after the whole compile has run.                     *)
HasHeader(r) == r.stage \in {"VERTEX", "TESS_EVAL", "FRAGMENT", "COMPUTE", "GEOMETRY",
                             "TESS_CTRL", "EXPORT", "LOCAL"}
=============================================================================
