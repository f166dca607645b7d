---------------------------- MODULE ShaderPackage ----------------------------
(***************************************************************************)
(* What psbc_compile_impl makes of a shader that passed its checks: it     *)
(* links the distances, numbers the inputs, gathers what the program uses, *)
(* splits inputs read in two ways, names the inputs, writes the shader     *)
(* file and fills the metadata.  A step is one of these calls, or one      *)
(* group of copies into the file.                                          *)
(*                                                                         *)
(* Memory that cannot be allocated, and the order in which everything is   *)
(* freed, are in PsbcCompile.                                              *)
(***************************************************************************)
EXTENDS ShaderMetadata, ShaderImage

CONSTANT Packages   \* the shaders, with the options that concern these steps

(* A distance load names a component of the arrays the shader declares,    *)
(* the viewport index is a scalar, and psbc_compile_impl has refused       *)
(* declarations no mask has a bit for.                                     *)
ASSUME PackageAssumption ==
    \A r \in Packages :
        /\ r.stage \in Stages
        /\ {r.inputs, r.outputs, r.code, r.clip, r.cull, r.prefix} \subseteq Nat
        /\ r.perPrimitive \in BOOLEAN
        /\ r.loads \subseteq Load
        /\ \A l \in r.loads : /\ l.kind = "dist" => l.loc < r.clip + r.cull
                              /\ l.kind = "viewport" => l.slots = 1
        /\ r.vars \subseteq 0..MaxSemantics - 1 /\ r.dists \subseteq 0..2 * Width - 1
        /\ r.push \in [Halves -> SUBSET PushLoad]
        /\ r.uses \in [Halves -> SUBSET (Nat \X (0..MaxBindings))]
        /\ r.declared \subseteq (0..MaxDescriptorSets - 1) \X (0..MaxBindings - 1)

VARIABLES
    req,        \* the shader being packaged
    pc,
    at,         \* component of each distance load
    base,       \* attribute of each load
    inputs,     \* info.ps.num_inputs
    push,       \* push-constant dwords reported
    hull,       \* the same for a hull pair
    sem,        \* input_semantics
    file,       \* offset of each section written
    offset,     \* bytes of the file written
    info,       \* fields of the file that locate something
    metadata,
    result

linking == <<at, base, inputs>>
use     == <<push, hull>>
image   == <<file, offset, info>>
vars    == <<req, pc, linking, use, sem, image, metadata, result>>

Fragment == mesa(req) = "FRAGMENT"

NoPush     == [valid |-> FALSE, main |-> {}, prev |-> {}]
NoHullPush == [valid |-> FALSE, vertex |-> {}, control |-> {}]
NoInfo     == [pgmlo |-> 0, length |-> 0, slots |-> 0, chunk |-> 0]

Init ==
    /\ req      \in Packages
    /\ pc       = "link"
    /\ at       = [l \in req.loads |-> l.loc]
    /\ base     = [l \in req.loads |-> 0]
    /\ inputs   = 0
    /\ push     = NoPush
    /\ hull     = NoHullPush
    /\ sem      = [valid |-> TRUE, words |-> <<>>]
    /\ file     = <<>>
    /\ offset   = 0
    /\ info     = NoInfo
    /\ metadata = <<>>
    /\ result   = "none"

-----------------------------------------------------------------------------
Fail(code) ==
    /\ pc' = "failed"
    /\ result' = code

(* prepare_stage_nir: a layout that does not fit fails the import.         *)
LinkDistances ==
    /\ pc = "link"
    /\ IF Fragment /\ ~link_fragment_distance_layout(req)
       THEN Fail("COMPILE_NIR") /\ UNCHANGED at
       ELSE /\ at' = [l \in req.loads |-> IF Fragment THEN LinkedComponent(req, l) ELSE l.loc]
            /\ pc' = "bases"
            /\ UNCHANGED result
    /\ UNCHANGED <<req, base, inputs, use, sem, image, metadata>>

AssignBases ==
    /\ pc = "bases"
    /\ base' = nir_recompute_io_bases(req, at)
    /\ inputs' = num_inputs(req, at)
    /\ pc' = "gather"
    /\ UNCHANGED <<req, at, use, sem, image, metadata, result>>

GatherUse ==
    /\ pc = "gather"
    /\ push' = PushUse(req)
    /\ hull' = HullPushUse(req)
    /\ pc' = "split"
    /\ UNCHANGED <<req, linking, sem, image, metadata, result>>

SplitMixed ==
    /\ pc = "split"
    /\ IF Fragment /\ req.target = "PS5"
       THEN IF SplitFits(req, inputs)
            THEN /\ base' = split_ps5_mixed_inputs(req, base, inputs)
                 /\ inputs' = SplitCount(req, inputs)
                 /\ pc' = "semantics"
                 /\ UNCHANGED result
            ELSE Fail("INTERNAL_ERROR") /\ UNCHANGED <<base, inputs>>
       ELSE /\ pc' = "semantics"
            /\ UNCHANGED <<base, inputs, result>>
    /\ UNCHANGED <<req, at, use, sem, image, metadata>>

(* A primitive id is never packaged with incomplete linkage.               *)
NameInputs ==
    /\ pc = "semantics"
    /\ sem' = IF Fragment THEN build_input_semantics(req, at, base, inputs) ELSE sem
    /\ IF ~sem'.valid /\ prim_id_input(req)
       THEN Fail("INTERNAL_ERROR")
       ELSE pc' = "files" /\ UNCHANGED result
    /\ UNCHANGED <<req, linking, use, image, metadata>>

-----------------------------------------------------------------------------
(* buildshaderbinary.  The list is packaged complete or not.             *)
count == Len(sem.words)

Copy(section, size) ==
    /\ file' = [s \in DOMAIN file \cup {section} |-> IF s = section THEN offset ELSE file[s]]
    /\ offset' = offset + size

Image(step, next) ==
    /\ pc = step
    /\ pc' = next
    /\ UNCHANGED <<req, linking, use, sem, metadata, result>>

WriteFileHeaders ==
    /\ Image("files", "header")
    /\ Copy("files", PsslHeader + FileHeader)
    /\ UNCHANGED info

(* A stage without a structure gives the file up.                          *)
RefuseStage ==
    /\ pc = "header"
    /\ ~HasHeader(req)
    /\ Fail("UNSUPPORTED_STAGE")
    /\ UNCHANGED <<req, linking, use, sem, image, metadata>>

(* Mutant: the program is located behind the unpadded tables.              *)
WriteStageHeaderUnpadded ==
    /\ HasHeader(req)
    /\ Image("header", "slots")
    /\ Copy("header", StageHeader[req.stage])
    /\ info' = [info EXCEPT !.pgmlo = UnalignedSize(req, count)]

WriteStageHeader ==
    /\ HasHeader(req)
    /\ Image("header", "slots")
    /\ Copy("header", StageHeader[req.stage])
    /\ info' = [info EXCEPT !.pgmlo = shspecificsize(req, count)]

WriteUsageSlots ==
    /\ Image("slots", "tables")
    /\ Copy("slots", SlotsWritten(req))
    /\ UNCHANGED info

WriteSemantics ==
    /\ Image("tables", "pad")
    /\ Copy("tables", InputsWritten(req, count) + ExportsWritten(req))
    /\ UNCHANGED info

WritePadding ==
    /\ Image("pad", "code")
    /\ Copy("pad", alignbytes(req, count))
    /\ UNCHANGED info

WriteCode ==
    /\ Image("code", "info")
    /\ Copy("code", codesize(req))
    /\ UNCHANGED info

WriteBinaryInfo ==
    /\ Image("info", "params")
    /\ Copy("info", BinaryInfo)
    /\ info' = [info EXCEPT !.length = codesize(req), !.slots = numinputslots(req),
                            !.chunk = chunkusagebaseoffsetdwords(req, count, offset)]

WriteParamInfo ==
    /\ Image("params", "metadata")
    /\ Copy("params", ParamInfo)
    /\ UNCHANGED info

FillMetadata ==
    /\ pc = "metadata"
    /\ metadata' = fill_shader_metadata(req, inputs, sem)
    /\ pc' = "done"
    /\ result' = "OK"
    /\ UNCHANGED <<req, linking, use, sem, image>>

Next ==
    \/ LinkDistances \/ AssignBases \/ GatherUse \/ SplitMixed \/ NameInputs
    \/ WriteFileHeaders \/ RefuseStage \/ WriteStageHeader \/ WriteUsageSlots
    \/ WriteSemantics \/ WritePadding \/ WriteCode \/ WriteBinaryInfo \/ WriteParamInfo
    \/ FillMetadata

Spec == Init /\ [][Next]_vars

-----------------------------------------------------------------------------
Steps == {"link", "bases", "gather", "split", "semantics", "files", "header", "slots",
          "tables", "pad", "code", "info", "params", "metadata", "done", "failed"}

(* Every variable keeps its kind of value; num_inputs and the offset are   *)
(* unsigned in the code and never go below zero.                           *)
TypeOK ==
    /\ pc \in Steps
    /\ DOMAIN at = req.loads /\ DOMAIN base = req.loads
    /\ \A l \in req.loads : at[l] \in Nat /\ base[l] \in Nat
    /\ inputs \in Nat
    /\ offset \in Nat
    /\ pc = "done" => metadata.num_interp \in Nat
    /\ result \in {"none", "OK", "COMPILE_NIR", "INTERNAL_ERROR", "UNSUPPORTED_STAGE"}
    /\ (pc = "failed") = (result \notin {"none", "OK"})

Packaged == pc = "done"
Decided  == pc \in {"done", "failed"}

(* What the word of slot i of load l has to say.                           *)
Describes(word, l, i) ==
    CASE l.kind = "var"  -> word = [kind |-> "var", loc |-> l.loc + i, flat |-> l.mode = Flat]
      [] l.kind = "prim" -> word.kind = "prim" /\ word.flat = ~req.perPrimitive
      [] l.kind = "dist" -> /\ at[l] = ProducerComponent(req, l)
                            /\ word.kind = "dist" /\ word.loc = ProducerComponent(req, l) \div Width
      [] OTHER -> FALSE

(* A fragment shader that is packaged as linkable reads every input, in    *)
(* every slot, from an attribute whose word names that input and how it is *)
(* interpolated, and every distance where the producer exports it;         *)
(* build_input_semantics never accepts an input it passed over.            *)
SemanticsDescribeEveryLoad ==
    Packaged /\ Fragment /\ "AGC_LINKAGE" \notin metadata.unresolved =>
        \A l \in req.loads : \A i \in 0..l.slots - 1 :
            /\ base[l] + i + 1 \in DOMAIN metadata.inputs
            /\ Describes(metadata.inputs[base[l] + i + 1], l, i)

(* A per-primitive primitive id has the attribute behind all interpolated  *)
(* ones, where NUM_INTERP ends, and shares it with no other input, the     *)
(* aliases split_ps5_mixed_inputs adds included.                           *)
PerPrimitiveLast ==
    Packaged /\ Fragment /\ per_primitive_inputs(req) = 1 =>
        \A l \in req.loads :
            (base[l] + l.slots > metadata.num_interp) = (l.kind = "prim")

(* A shader that can be linked is packaged so, up to the last free         *)
(* attribute, whatever it mixes: splitting runs out only when the          *)
(* attributes really do.                                                   *)
MixedInputsLink ==
    Decided /\ Fragment /\ req.target = "PS5" /\ Linkable(req) =>
        result = "OK" /\ "AGC_LINKAGE" \notin metadata.unresolved

(* A producer packaged as linkable names every parameter it exports, once, *)
(* by what it exports there; fill_output_semantics never lets the counts   *)
(* agree by accident.                                                      *)
OutputsExact ==
    Packaged /\ FillsOutputs(req) /\ "AGC_LINKAGE" \notin metadata.unresolved =>
        \A k \in 1..Len(Exports(req)) :
            {w \in Range(metadata.outputs) : w.parameter = k - 1} =
            {w \in Range(metadata.outputs) : WordSlot(w) = Exports(req)[k]}
            /\ \E w \in Range(metadata.outputs) : w.parameter = k - 1

(* A producer that exports no layer, writes its distances without gaps and *)
(* has at most as many parameters as there are words is linkable.          *)
OutputsLink ==
    Packaged /\ FillsOutputs(req) /\ ~req.layer
    /\ req.dists = 0..Cardinality(req.dists) - 1 /\ Len(Exports(req)) <= MaxSemantics =>
        "AGC_LINKAGE" \notin metadata.unresolved

-----------------------------------------------------------------------------
(* No copy of buildshaderbinary goes past the buffer it allocated, and the *)
(* last one ends where the buffer does: the sizes added up first, in one   *)
(* switch, are the sizes written later, in others.                         *)
ImageExact ==
    /\ offset <= total_size(req, count)
    /\ pc \in {"metadata", "done"} => offset = total_size(req, count)

(* The address in the stage header leads from the end of the file header   *)
(* to the code, and the length in the binary info from there to the info.  *)
ProgramLocated ==
    Packaged => /\ file["code"] = PsslHeader + FileHeader + info.pgmlo
                /\ file["info"] = file["code"] + info.length

(* While the distance fits the byte it is stored in, counting it back from *)
(* the binary info leads to the usage slots, and they are as many as said. *)
UsageSlotsFound ==
    Packaged /\ info.slots > 0 /\ file["info"] - file["slots"] < 4 * 256 =>
        /\ file["slots"] = file["info"] - 4 * info.chunk
        /\ file["tables"] = file["slots"] + info.slots * UsageSlot

-----------------------------------------------------------------------------
(* The dwords holding the bytes a set of push-constant loads may read.     *)
DwordsRead(loads) == {b \div 4 : b \in UNION {PushOffset(l)..PushOffset(l) + PushSize(l) - 1 : l \in loads}}

Bounded(loads) ==
    \A l \in loads : PushSize(l) > 0 /\ PushOffset(l) + PushSize(l) <= PushBytes

(* The halves whose instructions run in the program.                       *)
Running == IF req.pair \in Merged THEN {"main", "prev"} ELSE {"main"}

(* The masks of a program hold the dwords its halves may read, no more and *)
(* no less, whenever every load of every half that runs stays in the block;*)
(* otherwise nothing is claimed of either half.                            *)
PushUseExact ==
    Packaged =>
        LET known == \A h \in Running : Bounded(req.push[h])
            read(h) == IF known /\ h \in Running THEN DwordsRead(req.push[h]) ELSE {}
        IN  /\ push = [valid |-> known, main |-> read("main"), prev |-> read("prev")]
            /\ req.pair = "hull" =>
                   hull = [valid |-> known, vertex |-> read("prev"), control |-> read("main")]

(* With static descriptor use, a binding some half that runs dereferences  *)
(* is reported used, and so is every declared binding of a set that a half *)
(* uses only in ways no mask can name, whatever the other half names;      *)
(* nothing else is reported.                                               *)
DescriptorUseExact ==
    Packaged /\ req.static =>
        /\ req.declared # {} =>
               \A h \in Running : \A u \in req.uses[h] :
                   IF u \in req.declared THEN u \in metadata.bindings
                   ELSE (\A v \in req.uses[h] : v[1] = u[1] => v[2] >= MaxBindings) =>
                            \A d \in req.declared : d[1] = u[1] => d \in metadata.bindings
        /\ \A b \in metadata.bindings :
               \E h \in Running : b \in req.uses[h] \/ <<b[1], MaxBindings>> \in req.uses[h]
=============================================================================
