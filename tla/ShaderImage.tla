----------------------------- MODULE ShaderImage -----------------------------
(***************************************************************************)
(* The layout of the shader file buildshaderbinary makes: the sizes it     *)
(* adds up before it allocates, and the sizes it then writes.  The two are *)
(* separate switches in the code and separate operators here.              *)
(*                                                                         *)
(* A request r names the stage, the arguments that get a usage slot, the   *)
(* numbers of varyings the shader reads and writes and the dwords of code. *)
(* n is the count of the fragment input semantics.                         *)
(***************************************************************************)
EXTENDS Integers, PsbcRequest

CONSTANTS PsslHeader, FileHeader, StageHeader, UsageSlot,   \* sizes of the structures
          InputSemantic, ExportSemantic, PixelSemantic, BinaryInfo, ParamInfo

HeaderStages == {"VERTEX", "TESS_EVAL", "FRAGMENT", "COMPUTE",
                 "GEOMETRY", "TESS_CTRL", "EXPORT", "LOCAL"}

ASSUME ImageAssumption ==
    /\ {PsslHeader, FileHeader, UsageSlot, InputSemantic, ExportSemantic,
        PixelSemantic, BinaryInfo, ParamInfo} \subseteq Nat
    /\ StageHeader \in [HeaderStages -> Nat]
    /\ \A s \in HeaderStages : StageHeader[s] % 4 = 0   \* structures of dwords

mesa(r) == psbc_to_mesa_stage(r.stage)

-----------------------------------------------------------------------------
has_prolog(r) == mesa(r) = "VERTEX" /\ r.prolog

codesize(r) == 4 * (r.code + (IF has_prolog(r) THEN 1 ELSE 0))

is_vs_family(r) == mesa(r) = "VERTEX" \/ r.stage \in {"EXPORT", "LOCAL"}

Slot(used) == IF used THEN 1 ELSE 0

numinputslots(r) ==
    Slot(is_vs_family(r) /\ r.prologArg) + Slot(is_vs_family(r) /\ r.bufferArg) + Slot(r.setArg)

(* A stage without a structure of its own is sized as a vertex shader.     *)
headershsize(r) ==
    IF r.stage \in HeaderStages THEN StageHeader[r.stage] ELSE StageHeader["VERTEX"]

(* Mutant: geometry is sized like the hull, without its exports.           *)
SemanticsSizeNoGsExports(r, n) ==
    CASE mesa(r) \in {"VERTEX", "TESS_EVAL"} ->
             r.inputs * InputSemantic + r.outputs * ExportSemantic
      [] mesa(r) = "FRAGMENT" -> n * PixelSemantic
      [] mesa(r) \in {"TESS_CTRL", "GEOMETRY"} -> r.inputs * InputSemantic
      [] OTHER -> 0

SemanticsSize(r, n) ==
    CASE mesa(r) \in {"VERTEX", "TESS_EVAL", "GEOMETRY"} ->
             r.inputs * InputSemantic + r.outputs * ExportSemantic
      [] mesa(r) = "FRAGMENT"  -> n * PixelSemantic
      [] mesa(r) = "TESS_CTRL" -> r.inputs * InputSemantic
      [] OTHER -> 0

UnalignedSize(r, n) ==
    headershsize(r) + numinputslots(r) * UsageSlot + SemanticsSize(r, n)

shspecificsize(r, n) == 4 * ((UnalignedSize(r, n) + 3) \div 4)

alignbytes(r, n) == shspecificsize(r, n) - UnalignedSize(r, n)

total_size(r, n) ==
    PsslHeader + FileHeader + shspecificsize(r, n) + codesize(r) + BinaryInfo + ParamInfo

-----------------------------------------------------------------------------
(* What the write pass copies.  The code buffer holds the call of the      *)
(* fetch shader and the dwords ACO produced.                               *)
SlotsWritten(r) ==
    (IF is_vs_family(r) /\ r.prologArg THEN UsageSlot ELSE 0)
    + (IF is_vs_family(r) /\ r.bufferArg THEN UsageSlot ELSE 0)
    + (IF r.setArg THEN UsageSlot ELSE 0)

InputsWritten(r, n) ==
    CASE mesa(r) \in {"VERTEX", "TESS_EVAL", "GEOMETRY", "TESS_CTRL"} -> r.inputs * InputSemantic
      [] mesa(r) = "FRAGMENT" -> n * PixelSemantic
      [] OTHER -> 0

ExportsWritten(r) ==
    IF mesa(r) \in {"VERTEX", "TESS_EVAL", "GEOMETRY"} THEN r.outputs * ExportSemantic ELSE 0

(* Mutant: the distance is counted from the end of the tables.             *)
chunkusageFromTables(r, n, at) ==
    IF numinputslots(r) > 0 THEN ((at - (PsslHeader + FileHeader + shspecificsize(r, n))) \div 4) % 256 ELSE 0

(* The field of the binary info is one byte; at is the offset of the info. *)
chunkusagebaseoffsetdwords(r, n, at) ==
    IF numinputslots(r) > 0
    THEN ((at - (PsslHeader + FileHeader + headershsize(r))) \div 4) % 256
    ELSE 0
=============================================================================
