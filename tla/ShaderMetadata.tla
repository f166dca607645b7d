---------------------------- MODULE ShaderMetadata ----------------------------
(***************************************************************************)
(* fill_shader_metadata: the path it takes for a compiled program, the     *)
(* registers and words each path publishes and the bits it leaves          *)
(* unresolved.  Register values are encodings and are left out.            *)
(***************************************************************************)
EXTENDS VaryingLinking, StageResources, PsbcRequest

(* The branch of the function, by the mesa stage, in the order it tests.   *)
Path(r) ==
    LET s == psbc_to_mesa_stage(r.stage)
    IN  CASE s = "FRAGMENT" -> "pixel"
          [] s \in {"VERTEX", "TESS_EVAL", "GEOMETRY"} /\ r.ngg -> "ngg"
          [] s = "GEOMETRY"  /\ ~r.ngg -> "legacy geometry"
          [] s = "VERTEX"    /\ ~r.ngg -> "vertex"
          [] s = "TESS_CTRL" -> "hull"
          [] s = "TESS_EVAL" /\ ~r.ngg /\ r.pair = "domain" -> "domain"
          [] s = "TESS_EVAL" /\ ~r.ngg /\ r.pair # "domain" -> "lone domain"
          [] OTHER -> "other"

HasGeometry(r) == psbc_to_mesa_stage(r.stage) = "GEOMETRY"

(* metadata_add_register calls of each path.                               *)
ContextWrites(r) ==
    CASE Path(r) = "pixel"  -> 9
      [] Path(r) = "ngg"    -> IF HasGeometry(r) THEN 12 ELSE 11
      [] Path(r) = "vertex" -> 6
      [] Path(r) = "hull"   -> 1
      [] Path(r) = "domain" -> 7
      [] OTHER -> 0

ShaderWrites(r) ==
    CASE Path(r) \in {"pixel", "hull"} -> 4
      [] Path(r) = "ngg" -> IF r.target = "PS5" THEN 6 ELSE 4
      [] Path(r) \in {"vertex", "domain"} -> 7
      [] OTHER -> 0

(* What is left of a path's calls when a full list drops the rest.         *)
Added(writes, limit) == IF writes < limit THEN writes ELSE limit

hardware_stage(r) ==
    CASE Path(r) = "pixel" -> "PIXEL"
      [] Path(r) = "ngg"   -> "NGG"
      [] Path(r) \in {"vertex", "domain"} -> "VERTEX"
      [] Path(r) = "hull" /\ r.pair = "hull" -> "HULL"
      [] OTHER -> "UNKNOWN"

(* The paths that publish output semantics.                                *)
FillsOutputs(r) == Path(r) \in {"ngg", "domain"}

OutputSemantics(r) == IF FillsOutputs(r) THEN fill_output_semantics(r).words ELSE <<>>

unresolved_fields(r, sem) ==
    {"PROGRAM_CHECKSUM"}
    \cup (IF Path(r) = "ngg" THEN {"NGG_ESGS_RING_ITEMSIZE"} ELSE {})
    \cup (IF \/ Path(r) = "pixel" /\ ~sem.valid
             \/ FillsOutputs(r) /\ ~fill_output_semantics(r).complete
             \/ Path(r) = "legacy geometry"
          THEN {"AGC_LINKAGE"} ELSE {})
    \cup (IF Path(r) = "lone domain" \/ (Path(r) = "hull" /\ r.pair # "hull")
          THEN {"TESS_PIPELINE"} ELSE {})

-----------------------------------------------------------------------------
(* NUM_PRIM_INTERP; NUM_INTERP is the rest of num_inputs.                  *)
per_primitive_inputs(r) == IF r.target = "PS5" /\ PerPrimitiveId(r) THEN 1 ELSE 0

-----------------------------------------------------------------------------
fill_shader_metadata(r, n, sem) ==
    [stage      |-> hardware_stage(r),
     unresolved |-> unresolved_fields(r, sem),
     inputs     |-> IF Path(r) = "pixel" /\ sem.valid THEN sem.words ELSE <<>>,
     outputs    |-> OutputSemantics(r),
     num_interp |-> n - per_primitive_inputs(r),
     context    |-> Added(ContextWrites(r), MaxContext),
     shader     |-> Added(ShaderWrites(r), MaxShader),
     bindings   |-> descriptor_used_binding_mask(r)]
=============================================================================
