------------------------- MODULE ShaderPackageProofs -------------------------
(***************************************************************************)
(* What psbc_compile_impl tells a linker about a shader and what it writes *)
(* into the shader file, for any shaders, limits and sizes.  The steps     *)
(* form a pipeline, so one invariant says of each variable what computed   *)
(* it; what it computed is in VaryingLinkingProofs.  A second one says how *)
(* far the file has got at each step, in terms of the size pass:           *)
(* buildshaderbinary fills the buffer it allocated exactly, and the        *)
(* addresses it stores lead where they should.                             *)
(***************************************************************************)
EXTENDS ShaderPackage, VaryingLinkingProofs

(* The packaged shaders are shaders to the functions that link varyings.   *)
LEMMA PackageShader ==
  ASSUME NEW r \in Packages
  PROVE  Shader(r) /\ (mesa(r) = "FRAGMENT" <=> Pixel(r))
<1>1. Shader(r) BY PackageAssumption, Zenon DEF Shader
<1>2. mesa(r) = "FRAGMENT" <=> Pixel(r) BY Zenon DEF mesa, psbc_to_mesa_stage, Pixel
<1> QED BY <1>1, <1>2, Zenon

Fits(r)  == Splits(r) => SplitFits(r, FirstCount(r))
Named(r) == Semantics(r).valid \/ ~prim_id_input(r)

-----------------------------------------------------------------------------
BeforeNames == {"link", "bases", "gather", "split", "semantics"}
InFile == {"files", "header", "slots", "tables", "pad", "code", "info", "params", "metadata"}

(* Each variable holds what the steps so far have made of it.              *)
Computed ==
    /\ pc = "link" => at = [l \in req.loads |-> l.loc]
    /\ pc \in {"link", "bases"} => base = [l \in req.loads |-> 0] /\ inputs = 0
    /\ pc \in Steps \ {"link", "failed"} => at = LinkedAt(req) /\ Links(req)
    /\ pc \in {"gather", "split"} => base = FirstBase(req) /\ inputs = FirstCount(req)
    /\ pc \in {"split", "semantics"} \cup InFile \cup {"done"} =>
           push = PushUse(req) /\ hull = HullPushUse(req)
    /\ pc \in {"semantics", "done"} \cup InFile =>
           base = FinalBase(req) /\ inputs = FinalCount(req) /\ Fits(req)
    /\ pc \in BeforeNames => sem = [valid |-> TRUE, words |-> <<>>]
    /\ pc \in InFile \cup {"done"} => sem = Semantics(req) /\ Named(req)
    /\ pc = "done" => metadata = fill_shader_metadata(req, FinalCount(req), Semantics(req))

(* How the call ends, and why a shader was refused.                        *)
Ending ==
    /\ pc \in Steps \ {"done", "failed"} => result = "none"
    /\ pc = "done" => result = "OK"
    /\ pc \in (InFile \ {"files", "header"}) \cup {"done"} => HasHeader(req)
    /\ pc = "failed" => \/ result = "COMPILE_NIR" /\ ~Links(req)
                        \/ result = "INTERNAL_ERROR" /\ Links(req) /\ ~(Fits(req) /\ Named(req))
                        \/ result = "UNSUPPORTED_STAGE" /\ ~HasHeader(req)

(* An abandoned shader keeps variables of the right kind.                  *)
Abandoned ==
    pc = "failed" => /\ at \in {[l \in req.loads |-> l.loc], LinkedAt(req)}
                     /\ base \in {[l \in req.loads |-> 0], FirstBase(req), FinalBase(req)}
                     /\ inputs \in {0, FirstCount(req), FinalCount(req)}

LInv == req \in Packages /\ pc \in Steps /\ Computed /\ Ending /\ Abandoned

(* Before the first step nothing has been computed.                        *)
LEMMA LinkingInit == Init => LInv
  BY Zenon DEF Init, LInv, Computed, Ending, Abandoned, Steps, InFile, BeforeNames

(* The steps before the file.                                              *)
LEMMA LinkKeeps == ASSUME LInv, LinkDistances PROVE LInv'
<1> USE DEF LInv, Steps, InFile, BeforeNames
<1>1. CASE Fragment /\ ~link_fragment_distance_layout(req)
  <2>1. ~Links(req) BY <1>1, PackageShader, Zenon DEF Links, Fragment
  <2> QED BY <1>1, <2>1, Zenon DEF LinkDistances, Fail, Computed, Ending, Abandoned
<1>2. CASE ~(Fragment /\ ~link_fragment_distance_layout(req))
  <2>1. Links(req) BY <1>2, PackageShader, Zenon DEF Links, Fragment
  <2>2. at' = LinkedAt(req) BY <1>2, PackageShader, Zenon DEF LinkDistances, LinkedAt, Fragment
  <2> QED BY <1>2, <2>1, <2>2, Zenon DEF LinkDistances, Computed, Ending, Abandoned
<1> QED BY <1>1, <1>2, Zenon

(* The first numbering and the gathering keep it ...                       *)
LEMMA BasesKeep == ASSUME LInv, AssignBases \/ GatherUse PROVE LInv'
<1> USE DEF LInv, Steps, InFile, BeforeNames
<1>1. CASE AssignBases
  BY <1>1, Zenon DEF AssignBases, Computed, Ending, Abandoned, FirstBase, FirstCount
<1>2. CASE GatherUse
  BY <1>2, Zenon DEF GatherUse, linking, Computed, Ending, Abandoned
<1> QED BY <1>1, <1>2, Zenon

(* ... so do the splitting, refused or not ...                             *)
LEMMA SplitKeeps == ASSUME LInv, SplitMixed PROVE LInv'
<1> USE DEF LInv, Steps, InFile, BeforeNames
<1>1. CASE Fragment /\ req.target = "PS5" /\ SplitFits(req, inputs)
  <2>1. /\ base' = FinalBase(req) /\ inputs' = FinalCount(req) /\ Fits(req)
    BY <1>1, PackageShader, Zenon
       DEF SplitMixed, Computed, FinalBase, FinalCount, Fits, Splits, Fragment
  <2> QED BY <1>1, <2>1, Zenon DEF SplitMixed, Computed, Ending, Abandoned, use
<1>2. CASE Fragment /\ req.target = "PS5" /\ ~SplitFits(req, inputs)
  <2>1. ~Fits(req)
    BY <1>2, PackageShader, Zenon DEF SplitMixed, Computed, Fits, Splits, Fragment
  <2> QED BY <1>2, <2>1, Zenon DEF SplitMixed, Fail, Computed, Ending, Abandoned
<1>3. CASE ~(Fragment /\ req.target = "PS5")
  <2>1. /\ base = FinalBase(req) /\ inputs = FinalCount(req) /\ Fits(req)
    BY <1>3, PackageShader, Zenon
       DEF SplitMixed, Computed, FinalBase, FinalCount, Fits, Splits, Fragment
  <2> QED BY <1>3, <2>1, Zenon DEF SplitMixed, Computed, Ending, Abandoned, use
<1> QED BY <1>1, <1>2, <1>3, Zenon

(* ... the naming of the inputs, refused or not ...                        *)
LEMMA NamesKeep == ASSUME LInv, NameInputs PROVE LInv'
<1> USE DEF LInv, Steps, InFile, BeforeNames
<1>1. sem' = Semantics(req)
  BY PackageShader, Zenon DEF NameInputs, Semantics, Fragment, Computed
<1>2. CASE ~sem'.valid /\ prim_id_input(req)
  <2>1. ~Named(req) BY <1>1, <1>2, Zenon DEF Named
  <2> QED BY <1>2, <2>1, Zenon DEF NameInputs, Fail, Computed, Ending, Abandoned, linking
<1>3. CASE ~(~sem'.valid /\ prim_id_input(req))
  <2>1. Named(req) BY <1>1, <1>3, Zenon DEF Named
  <2> QED BY <1>1, <1>3, <2>1, Zenon DEF NameInputs, Computed, Ending, Abandoned, linking, use
<1> QED BY <1>2, <1>3, Zenon

(* The copies change nothing the invariant speaks of but the step.         *)
LEMMA CopiesKeep ==
  ASSUME LInv, NEW step \in InFile, NEW next \in InFile, Image(step, next),
         next \in {"files", "header"} \/ HasHeader(req)
  PROVE  LInv'
<1> USE DEF LInv, Steps, InFile, BeforeNames
<1>1. /\ pc = step /\ pc' = next /\ UNCHANGED <<req, at, base, inputs, push, hull, sem, metadata, result>>
  BY Zenon DEF Image, linking, use
<1>2. Computed'
  BY <1>1, Zenon DEF Computed
<1> QED BY <1>1, <1>2, Zenon DEF Ending, Abandoned

(* ... and the metadata.                                                   *)
LEMMA MetadataKeepsLinks == ASSUME LInv, FillMetadata PROVE LInv'
<1> USE DEF LInv, Steps, InFile, BeforeNames
<1>1. metadata' = fill_shader_metadata(req, FinalCount(req), Semantics(req))
  BY Zenon DEF FillMetadata, Computed
<1> QED BY <1>1, Zenon DEF FillMetadata, Computed, Ending, Abandoned, linking, use

(* Every step keeps it; the steps that write the file only read these      *)
(* variables.                                                              *)
LEMMA LinkingNext == LInv /\ [Next]_vars => LInv'
<1> SUFFICES ASSUME LInv, [Next]_vars PROVE LInv'
  BY Zenon
<1>1. CASE UNCHANGED vars
  <2>1. UNCHANGED <<req, pc, at, base, inputs, push, hull, sem, metadata, result>>
    BY <1>1, Zenon DEF vars, linking, use
  <2>2. Computed' BY <2>1, Zenon DEF LInv, Computed
  <2>3. Ending' /\ Abandoned' BY <2>1, Zenon DEF LInv, Ending, Abandoned
  <2> QED BY <2>1, <2>2, <2>3, Zenon DEF LInv
<1>2. CASE LinkDistances \/ AssignBases \/ GatherUse \/ SplitMixed \/ NameInputs
  BY <1>2, LinkKeeps, BasesKeep, SplitKeeps, NamesKeep, Zenon
<1>3. CASE WriteFileHeaders BY <1>3, CopiesKeep, Zenon DEF WriteFileHeaders, InFile
<1>4. CASE RefuseStage
  <2>1. /\ pc = "header" /\ pc' = "failed" /\ result' = "UNSUPPORTED_STAGE" /\ ~HasHeader(req)
        /\ UNCHANGED <<req, at, base, inputs>>
    BY <1>4, Zenon DEF RefuseStage, Fail, linking
  <2>2. at = LinkedAt(req) /\ base = FinalBase(req) /\ inputs = FinalCount(req) /\ req \in Packages
    BY <2>1, Zenon DEF LInv, Computed, InFile, Steps
  <2> QED BY <2>1, <2>2, Zenon DEF LInv, Computed, Ending, Abandoned, InFile, BeforeNames, Steps
<1>5. CASE WriteStageHeader BY <1>5, CopiesKeep, Zenon DEF WriteStageHeader, InFile
<1>6. CASE WriteUsageSlots \/ WriteSemantics \/ WritePadding \/ WriteCode \/ WriteBinaryInfo
           \/ WriteParamInfo
  <2>1. PICK step \in InFile \ {"files", "header", "metadata"}, next \in InFile : Image(step, next)
    BY <1>6, Zenon
       DEF WriteUsageSlots, WriteSemantics, WritePadding, WriteCode, WriteBinaryInfo,
       WriteParamInfo, InFile
  <2>2. HasHeader(req) BY <2>1, Zenon DEF Image, LInv, Ending, InFile
  <2> QED BY <2>1, <2>2, CopiesKeep, Zenon
<1>7. CASE FillMetadata BY <1>7, MetadataKeepsLinks, Zenon
<1> QED BY <1>1, <1>2, <1>3, <1>4, <1>5, <1>6, <1>7, Zenon DEF Next

(* Every variable of the packaging holds what the step responsible for it  *)
(* computes from the shader, for any shaders and limits.                   *)
THEOREM LinkingInvariant == Spec => []LInv
  BY LinkingInit, LinkingNext, PTL DEF Spec

-----------------------------------------------------------------------------
(* The metadata of a packaged shader.                                      *)
LEMMA DoneMetadata ==
  ASSUME LInv, pc = "done"
  PROVE  req \in Packages /\ metadata = fill_shader_metadata(req, FinalCount(req), Semantics(req))
  BY Zenon DEF LInv, Computed

(* The dwords of a load are those its bytes lie in.                        *)
LEMMA DwordsExact ==
  ASSUME NEW o \in Nat, NEW s \in Nat, s > 0
  PROVE  (o \div 4)..((o + s + 3) \div 4 - 1) = {b \div 4 : b \in o..o + s - 1}
<1>1. ASSUME NEW b \in o..o + s - 1
      PROVE  b \div 4 \in (o \div 4)..((o + s + 3) \div 4 - 1)
  OBVIOUS
<1>2. ASSUME NEW d \in (o \div 4)..((o + s + 3) \div 4 - 1)
      PROVE  \E b \in o..o + s - 1 : d = b \div 4
  <2>1. CASE 4 * d >= o
    <3>1. 4 * d \in o..o + s - 1 /\ (4 * d) \div 4 = d BY <2>1
    <3> QED BY <3>1, Zenon
  <2>2. CASE 4 * d < o
    <3>1. o \in o..o + s - 1 /\ o \div 4 = d BY <2>2
    <3> QED BY <3>1, Zenon
  <2> QED BY <2>1, <2>2
<1> QED BY <1>1, <1>2, Zenon

(* The range of a push-constant load.                                      *)
LEMMA PushTypes ==
  ASSUME NEW l \in PushLoad
  PROVE  PushOffset(l) \in Nat /\ PushSize(l) \in Nat
  BY DEF PushLoad, PushOffset, PushSize

(* What gather_push_dwords reports of one half.                            *)
LEMMA PushGathered ==
  ASSUME NEW loads, loads \subseteq PushLoad
  PROVE  /\ gather_push_dwords(loads).valid = Bounded(loads)
         /\ gather_push_dwords(loads).dwords = IF Bounded(loads) THEN DwordsRead(loads) ELSE {}
<1>1. ASSUME NEW l \in loads
      PROVE  InBlock(l) <=> PushSize(l) > 0 /\ PushOffset(l) + PushSize(l) <= PushBytes
  BY PushTypes, ResourceAssumption DEF InBlock
<1>2. (\A l \in loads : InBlock(l)) = Bounded(loads)
  BY <1>1, Zenon DEF Bounded
<1>3. ASSUME Bounded(loads)
      PROVE  UNION {DwordsOf(l) : l \in loads} = DwordsRead(loads)
  <2> DEFINE bytes(l) == PushOffset(l)..PushOffset(l) + PushSize(l) - 1
  <2>1. ASSUME NEW l \in loads PROVE DwordsOf(l) = {b \div 4 : b \in bytes(l)}
    BY <1>3, DwordsExact, PushTypes, Zenon DEF DwordsOf, Bounded
  <2>2. DwordsRead(loads) = {b \div 4 : b \in UNION {bytes(l) : l \in loads}}
    BY Zenon DEF DwordsRead
  <2> HIDE DEF bytes
  <2> QED BY <2>1, <2>2
<1> QED BY <1>2, <1>3, Zenon DEF gather_push_dwords

(* The push-constant masks are exact for every block size, shader and pair.*)
THEOREM PushMasksExact == Spec => []PushUseExact
<1>1. LInv => PushUseExact
  <2> SUFFICES ASSUME LInv, Packaged PROVE PushUseExact
    BY Zenon DEF PushUseExact
  <2> DEFINE known == \A h \in Running : Bounded(req.push[h])
             read(h) == IF known /\ h \in Running THEN DwordsRead(req.push[h]) ELSE {}
             main == gather_push_dwords(req.push.main)
             prev == gather_push_dwords(req.push.prev)
  <2>1. push = PushUse(req) /\ hull = HullPushUse(req) /\ req \in Packages
    BY Zenon DEF LInv, Computed, Packaged
  <2>2. /\ req.push["main"] \subseteq PushLoad /\ req.push["prev"] \subseteq PushLoad
    BY <2>1, PackageAssumption, Zenon DEF Halves
  <2>3. /\ main.valid = Bounded(req.push["main"])
        /\ main.dwords = IF Bounded(req.push["main"]) THEN DwordsRead(req.push["main"]) ELSE {}
        /\ prev.valid = Bounded(req.push["prev"])
        /\ prev.dwords = IF Bounded(req.push["prev"]) THEN DwordsRead(req.push["prev"]) ELSE {}
    BY <2>2, PushGathered, Zenon
  <2>4. known <=> Bounded(req.push["main"]) /\ (req.pair \in Merged => Bounded(req.push["prev"]))
    BY Zenon DEF Running
  <2>5. known \in BOOLEAN /\ main.valid \in BOOLEAN /\ prev.valid \in BOOLEAN
    BY <2>3, Zenon DEF Bounded
  <2>6. (main.valid /\ (req.pair \in Merged => prev.valid)) = known
    BY <2>3, <2>4, <2>5, Zenon
  <2>7. /\ read("main") = IF known THEN main.dwords ELSE {}
        /\ read("prev") = IF known /\ req.pair \in Merged THEN prev.dwords ELSE {}
    BY <2>3, <2>4, Zenon DEF Running
  <2>8. PushUse(req) = [valid |-> main.valid /\ (req.pair \in Merged => prev.valid),
                        main |-> IF main.valid /\ (req.pair \in Merged => prev.valid)
                                 THEN main.dwords ELSE {},
                        prev |-> IF (main.valid /\ (req.pair \in Merged => prev.valid))
                                    /\ req.pair \in Merged THEN prev.dwords ELSE {}]
    BY Zenon DEF PushUse
  <2>9. ASSUME req.pair = "hull"
        PROVE  HullPushUse(req) = [valid |-> prev.valid /\ main.valid,
                        vertex  |-> IF prev.valid /\ main.valid THEN prev.dwords ELSE {},
                        control |-> IF prev.valid /\ main.valid THEN main.dwords ELSE {}]
    BY <2>9, Zenon DEF HullPushUse
  <2> HIDE DEF known, read, main, prev
  <2>10. push = [valid |-> known, main |-> read("main"), prev |-> read("prev")]
    BY <2>1, <2>6, <2>7, <2>8, Zenon
  <2>11. ASSUME req.pair = "hull"
         PROVE  hull = [valid |-> known, vertex |-> read("prev"), control |-> read("main")]
    <3>1. req.pair \in Merged BY <2>11, Zenon DEF Merged
    <3>2. (prev.valid /\ main.valid) = known BY <2>5, <2>6, <3>1, Zenon
    <3> QED BY <2>1, <2>7, <2>9, <2>11, <3>1, <3>2, Zenon
  <2> QED BY <2>10, <2>11, Zenon DEF PushUseExact, known, read
<1> QED BY <1>1, LinkingInvariant, PTL

(* With static use, no use a half that runs makes of a descriptor is lost  *)
(* and none is invented, whatever the numbers of sets and bindings.        *)
THEOREM DescriptorMaskExact == Spec => []DescriptorUseExact
<1>1. LInv => DescriptorUseExact
  <2> SUFFICES ASSUME LInv, Packaged, req.static PROVE DescriptorUseExact
    BY Zenon DEF DescriptorUseExact
  <2>1. req \in Packages /\ metadata.bindings = descriptor_used_binding_mask(req)
    BY DoneMetadata DEF Packaged, fill_shader_metadata
  <2>2. /\ req.declared \subseteq (0..MaxDescriptorSets - 1) \X (0..MaxBindings - 1)
        /\ \A h \in Halves : req.uses[h] \subseteq Nat \X (0..MaxBindings)
        /\ MaxDescriptorSets \in Nat /\ MaxBindings \in Nat
    BY <2>1, PackageAssumption, ResourceAssumption, Zenon
  <2>3. \A d \in req.declared : d[1] < MaxDescriptorSets /\ d[2] < MaxBindings
    BY <2>2
  <2>4. \A h \in Running : h \in Halves BY Zenon DEF Running, Halves
  <2>5. ASSUME NEW h \in Running, NEW u \in req.uses[h]
        PROVE  u[1] \in Nat /\ u[2] \in 0..MaxBindings /\ u = <<u[1], u[2]>>
    BY <2>2, <2>4
  <2>6. ASSUME req.declared # {}
        PROVE  /\ metadata.bindings = StaticBindings(req)
               /\ \A h \in Running : gather_static_descriptor_use(req.uses[h]) \subseteq StaticBindings(req)
               /\ \A h \in Running : UnnamedSets(req.uses[h]) \subseteq UnknownSets(req)
    BY <2>1, <2>6, Zenon DEF descriptor_used_binding_mask, StaticBindings, UnknownSets, Running
  <2>7. ASSUME req.declared # {}, NEW h \in Running, NEW u \in req.uses[h], u \in req.declared
        PROVE  u \in metadata.bindings
    BY <2>3, <2>6, <2>7, Zenon DEF gather_static_descriptor_use
  <2>8. ASSUME req.declared # {}, NEW h \in Running, NEW u \in req.uses[h],
               \A v \in req.uses[h] : v[1] = u[1] => v[2] >= MaxBindings,
               NEW d \in req.declared, d[1] = u[1]
        PROVE  d \in metadata.bindings
    <3>1. u[1] \in desc_set_used_mask(req.uses[h]) BY Zenon DEF desc_set_used_mask
    <3>2. ASSUME NEW v \in gather_static_descriptor_use(req.uses[h]) PROVE v[1] # u[1]
      BY <2>2, <2>5, <2>8, <3>2 DEF gather_static_descriptor_use
    <3>3. u[1] \in UnknownSets(req)
      BY <2>6, <2>8, <3>1, <3>2, Zenon DEF UnnamedSets
    <3> QED BY <2>3, <2>6, <2>8, <3>3, Zenon DEF StaticBindings
  <2>9. ASSUME NEW b \in metadata.bindings
        PROVE  \E h \in Running : b \in req.uses[h] \/ <<b[1], MaxBindings>> \in req.uses[h]
    <3>1. req.declared # {}
      BY <2>1, <2>9, Zenon DEF descriptor_used_binding_mask
    <3>2. CASE \E h \in Running : b \in gather_static_descriptor_use(req.uses[h])
      BY <3>2, Zenon DEF gather_static_descriptor_use
    <3>3. CASE b \in req.declared /\ b[1] \in UnknownSets(req)
      <4>1. PICK h \in Running : b[1] \in UnnamedSets(req.uses[h])
        BY <3>3, Zenon DEF UnknownSets, Running
      <4>2. PICK u \in req.uses[h] : u[1] = b[1] /\ u \notin gather_static_descriptor_use(req.uses[h])
        BY <4>1, Zenon DEF UnnamedSets, desc_set_used_mask
      <4>3. u[2] = MaxBindings
        BY <2>2, <2>3, <2>5, <3>3, <4>2 DEF gather_static_descriptor_use
      <4> QED BY <2>5, <4>2, <4>3, Zenon
    <3> QED BY <2>6, <2>9, <3>1, <3>2, <3>3, Zenon DEF StaticBindings, Running
  <2> QED BY <2>7, <2>8, <2>9, Zenon DEF DescriptorUseExact
<1> QED BY <1>1, LinkingInvariant, PTL

-----------------------------------------------------------------------------
(* The shader file.                                                        *)
Start == PsslHeader + FileHeader

BeforeFile == {"link", "bases", "gather", "split", "semantics", "files"}
AfterStage == {"slots", "tables", "pad", "code", "info", "params", "metadata", "done"}

(* Bytes written when the step at pc is about to be taken.                 *)
Written ==
    /\ pc \in BeforeFile => offset = 0
    /\ pc = "header" => offset = Start
    /\ pc = "slots"  => offset = Start + headershsize(req)
    /\ pc = "tables" => offset = Start + headershsize(req) + numinputslots(req) * UsageSlot
    /\ pc = "pad"    => offset = Start + UnalignedSize(req, count)
    /\ pc = "code"   => offset = Start + shspecificsize(req, count)
    /\ pc = "info"   => offset = Start + shspecificsize(req, count) + codesize(req)
    /\ pc = "params" => offset = Start + shspecificsize(req, count) + codesize(req) + BinaryInfo
    /\ pc \in {"metadata", "done"} => offset = total_size(req, count)
    /\ pc = "failed" => offset \in {0, Start}

(* Where the sections begin and what the fields say of them.               *)
Located ==
    /\ pc \in AfterStage => info.pgmlo = shspecificsize(req, count)
    /\ pc \in AfterStage \ {"slots"} =>
           "slots" \in DOMAIN file /\ file["slots"] = Start + headershsize(req)
    /\ pc \in AfterStage \ {"slots", "tables"} =>
           "tables" \in DOMAIN file
           /\ file["tables"] = Start + headershsize(req) + numinputslots(req) * UsageSlot
    /\ pc \in {"info", "params", "metadata", "done"} =>
           "code" \in DOMAIN file /\ file["code"] = Start + shspecificsize(req, count)
    /\ pc \in {"params", "metadata", "done"} =>
           /\ "info" \in DOMAIN file
           /\ file["info"] = Start + shspecificsize(req, count) + codesize(req)
           /\ info.length = codesize(req) /\ info.slots = numinputslots(req)
           /\ info.chunk = chunkusagebaseoffsetdwords(req, count, file["info"])

Kinds ==
    /\ req \in Packages
    /\ pc \in Steps
    /\ count \in Nat
    /\ offset \in Nat
    /\ info = [pgmlo |-> info.pgmlo, length |-> info.length,
               slots |-> info.slots, chunk |-> info.chunk]

FInv == Kinds /\ Written /\ Located

-----------------------------------------------------------------------------
(* The sizes of the size pass are natural numbers.                         *)
LEMMA SizesNat ==
    ASSUME NEW r \in Packages, NEW n \in Nat
    PROVE  /\ headershsize(r) \in Nat /\ headershsize(r) % 4 = 0
           /\ numinputslots(r) \in 0..3 /\ numinputslots(r) * UsageSlot \in Nat
           /\ SemanticsSize(r, n) \in Nat /\ UnalignedSize(r, n) \in Nat
           /\ shspecificsize(r, n) \in Nat /\ shspecificsize(r, n) % 4 = 0
           /\ shspecificsize(r, n) >= UnalignedSize(r, n)
           /\ alignbytes(r, n) \in Nat
           /\ codesize(r) \in Nat /\ codesize(r) % 4 = 0
           /\ Start \in Nat /\ BinaryInfo \in Nat /\ ParamInfo \in Nat /\ UsageSlot \in Nat
<1>1. /\ Start \in Nat /\ BinaryInfo \in Nat /\ ParamInfo \in Nat /\ UsageSlot \in Nat
      /\ InputSemantic \in Nat /\ ExportSemantic \in Nat /\ PixelSemantic \in Nat
  BY ImageAssumption DEF Start
<1>2. headershsize(r) \in Nat /\ headershsize(r) % 4 = 0
  BY ImageAssumption, Zenon DEF headershsize, HeaderStages
<1>3. numinputslots(r) \in 0..3
  BY DEF numinputslots, Slot
<1>4. numinputslots(r) * UsageSlot \in Nat BY <1>1, <1>3
<1>5. r.inputs * InputSemantic \in Nat /\ r.outputs * ExportSemantic \in Nat
      /\ n * PixelSemantic \in Nat
  BY <1>1, PackageAssumption
<1>6. SemanticsSize(r, n) \in Nat
  <2>1. CASE mesa(r) \in {"VERTEX", "TESS_EVAL", "GEOMETRY"} BY <1>5, <2>1 DEF SemanticsSize
  <2>2. CASE mesa(r) = "FRAGMENT" BY <1>5, <2>2, Zenon DEF SemanticsSize
  <2>3. CASE mesa(r) = "TESS_CTRL" BY <1>5, <2>3, Zenon DEF SemanticsSize
  <2>4. CASE mesa(r) \notin {"VERTEX", "TESS_EVAL", "GEOMETRY", "FRAGMENT", "TESS_CTRL"}
    BY <2>4, Zenon DEF SemanticsSize
  <2> QED BY <2>1, <2>2, <2>3, <2>4, Zenon
<1>7. UnalignedSize(r, n) \in Nat BY <1>2, <1>4, <1>6 DEF UnalignedSize
<1>8. /\ shspecificsize(r, n) \in Nat /\ shspecificsize(r, n) % 4 = 0
      /\ shspecificsize(r, n) >= UnalignedSize(r, n)
  BY <1>7 DEF shspecificsize
<1>9. alignbytes(r, n) \in Nat BY <1>7, <1>8 DEF alignbytes
<1>10. codesize(r) \in Nat /\ codesize(r) % 4 = 0
  BY PackageAssumption DEF codesize
<1> QED BY <1>1, <1>2, <1>3, <1>4, <1>6, <1>7, <1>8, <1>9, <1>10, Zenon

(* The write pass copies what the size pass counted.                       *)
LEMMA SlotsAgree ==
    ASSUME NEW r \in Packages
    PROVE  SlotsWritten(r) = numinputslots(r) * UsageSlot
<1>1. UsageSlot \in Nat BY ImageAssumption, Zenon
<1> DEFINE p == is_vs_family(r) /\ r.prologArg
           b == is_vs_family(r) /\ r.bufferArg
<1>2. SlotsWritten(r) = (IF p THEN UsageSlot ELSE 0) + (IF b THEN UsageSlot ELSE 0)
                        + (IF r.setArg THEN UsageSlot ELSE 0)
  BY Zenon DEF SlotsWritten
<1>3. numinputslots(r) = (IF p THEN 1 ELSE 0) + (IF b THEN 1 ELSE 0) + (IF r.setArg THEN 1 ELSE 0)
  BY Zenon DEF numinputslots, Slot
<1> HIDE DEF p, b
<1> QED BY <1>1, <1>2, <1>3

(* The semantics the write pass writes are those the size pass counted.    *)
LEMMA TablesAgree ==
    ASSUME NEW r \in Packages, NEW n \in Nat
    PROVE  InputsWritten(r, n) + ExportsWritten(r) = SemanticsSize(r, n)
<1>1. r.inputs * InputSemantic \in Nat /\ r.outputs * ExportSemantic \in Nat
      /\ n * PixelSemantic \in Nat
  BY PackageAssumption, ImageAssumption
<1>2. CASE mesa(r) \in {"VERTEX", "TESS_EVAL", "GEOMETRY"}
  BY <1>1, <1>2, Zenon DEF SemanticsSize, InputsWritten, ExportsWritten
<1>3. CASE mesa(r) = "FRAGMENT"
  BY <1>1, <1>3 DEF SemanticsSize, InputsWritten, ExportsWritten
<1>4. CASE mesa(r) = "TESS_CTRL"
  BY <1>1, <1>4 DEF SemanticsSize, InputsWritten, ExportsWritten
<1>5. CASE mesa(r) \notin {"VERTEX", "TESS_EVAL", "GEOMETRY", "FRAGMENT", "TESS_CTRL"}
  BY <1>5 DEF SemanticsSize, InputsWritten, ExportsWritten
<1> QED BY <1>2, <1>3, <1>4, <1>5, Zenon

(* The list of input words has a length.                                   *)
LEMMA InputWordsCounted ==
    ASSUME NEW f, NEW a, NEW b, NEW n
    PROVE  Len(build_input_semantics(f, a, b, n).words) \in Nat
<1> DEFINE words == WordsOf(f, a, b)
           k == Cardinality(Seen(words, n))
           list == [j \in 1..k |-> (CHOOSE w \in words : w.attribute = j - 1).word]
<1>1. k \in Nat
  <2>1. MaxSemantics - 1 \in Int BY LinkingAssumption
  <2>2. IsFiniteSet(0..MaxSemantics - 1) BY <2>1, FS_Interval
  <2>3. Seen(words, n) \subseteq 0..MaxSemantics - 1 BY Zenon DEF Seen
  <2> QED BY <2>2, <2>3, FS_Subset, FS_CardinalityType, Zenon
<1>2. build_input_semantics(f, a, b, n).words \in {<<>>, list}
  BY Zenon DEF build_input_semantics
<1> HIDE DEF k, words
<1>3. Len(list) = k BY <1>1
<1>4. Len(<<>>) = 0 BY Zenon
<1> HIDE DEF list
<1> QED BY <1>1, <1>2, <1>3, <1>4

-----------------------------------------------------------------------------
(* Nothing is written at first.                                            *)
LEMMA FileInit == Init => FInv
<1> SUFFICES ASSUME Init PROVE FInv
  BY Zenon
<1>1. count = 0 BY Zenon DEF Init, count
<1>2. Kinds BY <1>1, Zenon DEF Init, Kinds, Steps, NoInfo
<1> QED BY <1>2, Zenon DEF Init, FInv, Written, Located, BeforeFile, AfterStage

(* The calls before the file write nothing of it.                          *)
LEMMA PreparationKeeps ==
    ASSUME FInv, UNCHANGED image, req' = req, pc \in BeforeFile \ {"files"},
           pc' \in BeforeFile \cup {"failed"}, count' \in Nat
    PROVE  FInv'
<1> USE DEF FInv
<1>1. offset' = 0 /\ info' = info BY Zenon DEF Written, image
<1>2. Kinds' BY <1>1, Zenon DEF Kinds, BeforeFile, Steps
<1>3. Written' BY <1>1, Zenon DEF Written, BeforeFile
<1>4. Located' BY Zenon DEF Located, BeforeFile, AfterStage
<1> QED BY <1>2, <1>3, <1>4, Zenon

(* Nothing is written before the file headers.                             *)
LEMMA PreparationStep ==
    ASSUME FInv, LinkDistances \/ AssignBases \/ GatherUse \/ SplitMixed \/ NameInputs
    PROVE  FInv'
<1>1. count \in Nat BY Zenon DEF FInv, Kinds
<1>2. CASE LinkDistances \/ AssignBases \/ GatherUse \/ SplitMixed
  <2>1. /\ UNCHANGED <<image, sem>> /\ req' = req /\ pc \in BeforeFile \ {"files"}
        /\ pc' \in BeforeFile \cup {"failed"}
    BY <1>2, Zenon DEF LinkDistances, AssignBases, GatherUse, SplitMixed, Fail, BeforeFile
  <2>2. count' = count BY <2>1, Zenon DEF count
  <2> QED BY <1>1, <2>1, <2>2, PreparationKeeps, Zenon
<1>3. CASE NameInputs
  <2>1. /\ UNCHANGED image /\ req' = req /\ pc \in BeforeFile \ {"files"}
        /\ pc' \in BeforeFile \cup {"failed"}
    BY <1>3, Zenon DEF NameInputs, Fail, BeforeFile
  <2>2. sem' = sem \/ sem' = build_input_semantics(req, at, base, inputs)
    BY <1>3, Zenon DEF NameInputs
  <2>3. count' \in Nat
    <3>1. CASE sem' = sem BY <1>1, <3>1, Zenon DEF count
    <3>2. CASE sem' = build_input_semantics(req, at, base, inputs)
      BY <3>2, InputWordsCounted, Zenon DEF count
    <3> QED BY <2>2, <3>1, <3>2, Zenon
  <2> QED BY <2>1, <2>3, PreparationKeeps, Zenon
<1> QED BY <1>2, <1>3, Zenon

-----------------------------------------------------------------------------
(* A copy appends a section and moves no other.                            *)
LEMMA CopyAppends ==
    ASSUME NEW section, NEW size, Copy(section, size)
    PROVE  /\ offset' = offset + size
           /\ DOMAIN file' = DOMAIN file \cup {section}
           /\ file'[section] = offset
           /\ \A x \in DOMAIN file : x # section => file'[x] = file[x]
BY Zenon DEF Copy

(* The steps of buildshaderbinary keep the shader and its input words.     *)
LEMMA ImageStep ==
    ASSUME FInv, NEW step, NEW next, Image(step, next)
    PROVE  /\ pc = step /\ pc' = next /\ req' = req /\ count' = count
           /\ req \in Packages /\ count \in Nat /\ offset \in Nat
           /\ info = [pgmlo |-> info.pgmlo, length |-> info.length,
                      slots |-> info.slots, chunk |-> info.chunk]
BY Zenon DEF Image, count, FInv, Kinds

(* The file headers are written from offset 0.                             *)
LEMMA FileHeadersKeep ==
    ASSUME FInv, WriteFileHeaders PROVE FInv'
<1>1. Image("files", "header") /\ Copy("files", Start) /\ info' = info
  BY Zenon DEF WriteFileHeaders, Start
<1>2. /\ pc = "files" /\ pc' = "header" /\ req' = req /\ count' = count
      /\ req \in Packages /\ count \in Nat
  BY <1>1, ImageStep, Zenon
<1>3. offset' = offset + Start /\ Start \in Nat BY <1>1, <1>2, CopyAppends, SizesNat, Zenon
<1>4. offset = 0 BY <1>2, Zenon DEF FInv, Written, BeforeFile
<1>5. Kinds' BY <1>1, <1>2, <1>3, <1>4 DEF FInv, Kinds, Steps
<1>6. Written' BY <1>2, <1>3, <1>4 DEF Written, BeforeFile
<1>7. Located' BY <1>2, Zenon DEF Located, AfterStage
<1> QED BY <1>5, <1>6, <1>7, Zenon DEF FInv

(* A stage without a header ends the file.                                 *)
LEMMA RefuseKeeps ==
    ASSUME FInv, RefuseStage PROVE FInv'
<1>1. /\ pc = "header" /\ pc' = "failed" /\ UNCHANGED <<req, sem, image>>
  BY Zenon DEF RefuseStage, Fail
<1>2. /\ req' = req /\ count' = count /\ offset' = offset /\ info' = info
  BY <1>1, Zenon DEF count, image
<1>3. offset = Start BY <1>1, Zenon DEF FInv, Written
<1>4. Kinds' BY <1>1, <1>2, Zenon DEF FInv, Kinds, Steps
<1>5. Written' BY <1>1, <1>2, <1>3, Zenon DEF Written, BeforeFile
<1>6. Located' BY <1>1, Zenon DEF Located, AfterStage
<1> QED BY <1>4, <1>5, <1>6, Zenon DEF FInv

(* The stage header follows, and predicts where the code will be.          *)
LEMMA StageHeaderKeeps ==
    ASSUME FInv, WriteStageHeader PROVE FInv'
<1>1. Image("header", "slots") /\ Copy("header", StageHeader[req.stage])
  BY Zenon DEF WriteStageHeader
<1>2. /\ pc = "header" /\ pc' = "slots" /\ req' = req /\ count' = count
      /\ req \in Packages /\ count \in Nat
  BY <1>1, ImageStep, Zenon
<1>3. headershsize(req) = StageHeader[req.stage]
  BY Zenon DEF WriteStageHeader, HasHeader, headershsize, HeaderStages
<1>4. offset = Start BY <1>2, Zenon DEF FInv, Written
<1>5. offset' = Start + headershsize(req) /\ offset' \in Nat
  <2>1. offset' = offset + StageHeader[req.stage] BY <1>1, CopyAppends, Zenon
  <2>2. Start \in Nat /\ headershsize(req) \in Nat BY <1>2, SizesNat, Zenon
  <2> QED BY <1>3, <1>4, <2>1, <2>2
<1>6. /\ info'.pgmlo = shspecificsize(req, count)
      /\ info' = [pgmlo |-> info'.pgmlo, length |-> info'.length,
                  slots |-> info'.slots, chunk |-> info'.chunk]
  BY Zenon DEF WriteStageHeader, FInv, Kinds
<1>7. Kinds' BY <1>2, <1>5, <1>6, Zenon DEF Kinds, Steps
<1>8. Written' BY <1>2, <1>5, Zenon DEF Written, BeforeFile
<1>9. Located' BY <1>2, <1>6, Zenon DEF Located, AfterStage
<1> QED BY <1>7, <1>8, <1>9, Zenon DEF FInv

(* The usage slots follow the header ...                                   *)
LEMMA UsageSlotsKeep ==
    ASSUME FInv, WriteUsageSlots PROVE FInv'
<1>1. Image("slots", "tables") /\ Copy("slots", SlotsWritten(req)) /\ info' = info
  BY Zenon DEF WriteUsageSlots
<1>2. /\ pc = "slots" /\ pc' = "tables" /\ req' = req /\ count' = count
      /\ req \in Packages /\ count \in Nat
  BY <1>1, ImageStep, Zenon
<1>3. offset = Start + headershsize(req) /\ info.pgmlo = shspecificsize(req, count)
  BY <1>2, Zenon DEF FInv, Written, Located, AfterStage
<1>4. /\ offset' = Start + headershsize(req) + numinputslots(req) * UsageSlot /\ offset' \in Nat
      /\ "slots" \in DOMAIN file' /\ file'["slots"] = offset
  <2>1. /\ offset' = offset + SlotsWritten(req)
        /\ "slots" \in DOMAIN file' /\ file'["slots"] = offset
    BY <1>1, CopyAppends, Zenon
  <2>2. SlotsWritten(req) = numinputslots(req) * UsageSlot BY <1>2, SlotsAgree, Zenon
  <2>3. Start \in Nat /\ headershsize(req) \in Nat /\ numinputslots(req) * UsageSlot \in Nat
    BY <1>2, SizesNat, Zenon
  <2> QED BY <1>3, <2>1, <2>2, <2>3
<1>5. Kinds' BY <1>1, <1>2, <1>4, Zenon DEF FInv, Kinds, Steps
<1>6. Written' BY <1>2, <1>4, Zenon DEF Written, BeforeFile
<1>7. Located' BY <1>1, <1>2, <1>3, <1>4, Zenon DEF Located, AfterStage
<1> QED BY <1>5, <1>6, <1>7, Zenon DEF FInv

(* ... and the semantics the slots.                                        *)
LEMMA SemanticsKeep ==
    ASSUME FInv, WriteSemantics PROVE FInv'
<1>1. /\ Image("tables", "pad") /\ info' = info
      /\ Copy("tables", InputsWritten(req, count) + ExportsWritten(req))
  BY Zenon DEF WriteSemantics
<1>2. /\ pc = "tables" /\ pc' = "pad" /\ req' = req /\ count' = count
      /\ req \in Packages /\ count \in Nat
  BY <1>1, ImageStep, Zenon
<1>3. /\ offset = Start + headershsize(req) + numinputslots(req) * UsageSlot
      /\ info.pgmlo = shspecificsize(req, count)
      /\ "slots" \in DOMAIN file /\ file["slots"] = Start + headershsize(req)
  BY <1>2, Zenon DEF FInv, Written, Located, AfterStage
<1>4. /\ offset' = offset + SemanticsSize(req, count)
      /\ "tables" \in DOMAIN file' /\ file'["tables"] = offset
      /\ "slots" \in DOMAIN file' /\ file'["slots"] = file["slots"]
  <2>1. /\ offset' = offset + (InputsWritten(req, count) + ExportsWritten(req))
        /\ DOMAIN file' = DOMAIN file \cup {"tables"} /\ file'["tables"] = offset
        /\ \A x \in DOMAIN file : x # "tables" => file'[x] = file[x]
    BY <1>1, CopyAppends, Zenon
  <2>2. InputsWritten(req, count) + ExportsWritten(req) = SemanticsSize(req, count)
    BY <1>2, TablesAgree, Zenon
  <2> QED BY <1>3, <2>1, <2>2, Zenon
<1>5. offset' = Start + UnalignedSize(req, count) /\ offset' \in Nat
  <2>1. /\ Start \in Nat /\ headershsize(req) \in Nat /\ numinputslots(req) * UsageSlot \in Nat
        /\ SemanticsSize(req, count) \in Nat
    BY <1>2, SizesNat, Zenon
  <2>2. UnalignedSize(req, count) =
            headershsize(req) + numinputslots(req) * UsageSlot + SemanticsSize(req, count)
    BY Zenon DEF UnalignedSize
  <2> QED BY <1>3, <1>4, <2>1, <2>2
<1>6. Kinds' BY <1>1, <1>2, <1>5, Zenon DEF FInv, Kinds, Steps
<1>7. Written' BY <1>2, <1>5, Zenon DEF Written, BeforeFile
<1>8. Located' BY <1>1, <1>2, <1>3, <1>4, Zenon DEF Located, AfterStage
<1> QED BY <1>6, <1>7, <1>8, Zenon DEF FInv

(* What the file holds once the tables are written.                        *)
Tables ==
    /\ info.pgmlo = shspecificsize(req, count)
    /\ {"slots", "tables"} \subseteq DOMAIN file
    /\ file["slots"] = Start + headershsize(req)
    /\ file["tables"] = Start + headershsize(req) + numinputslots(req) * UsageSlot

(* Copying a later section leaves the tables where they are.               *)
LEMMA TablesStay ==
    ASSUME Tables, NEW section, section \notin {"slots", "tables"}, NEW size, Copy(section, size),
           req' = req, count' = count, info'.pgmlo = info.pgmlo
    PROVE  Tables' /\ section \in DOMAIN file' /\ file'[section] = offset
<1>1. /\ DOMAIN file' = DOMAIN file \cup {section} /\ file'[section] = offset
      /\ \A x \in DOMAIN file : x # section => file'[x] = file[x]
  BY CopyAppends, Zenon
<1>2. {"slots", "tables"} \subseteq DOMAIN file' BY <1>1, Zenon DEF Tables
<1>3. file'["slots"] = file["slots"] /\ file'["tables"] = file["tables"]
  BY <1>1, Zenon DEF Tables
<1> QED BY <1>1, <1>2, <1>3, Zenon DEF Tables

(* The padding ends at the size of the stage part ...                      *)
LEMMA PaddingKeeps ==
    ASSUME FInv, WritePadding PROVE FInv'
<1>1. Image("pad", "code") /\ Copy("pad", alignbytes(req, count)) /\ info' = info
  BY Zenon DEF WritePadding
<1>2. /\ pc = "pad" /\ pc' = "code" /\ req' = req /\ count' = count
      /\ req \in Packages /\ count \in Nat
  BY <1>1, ImageStep, Zenon
<1>3. offset = Start + UnalignedSize(req, count) /\ Tables
  BY <1>2, Zenon DEF FInv, Written, Located, AfterStage, Tables
<1>4. offset' = Start + shspecificsize(req, count) /\ offset' \in Nat
  <2>1. offset' = offset + alignbytes(req, count) BY <1>1, CopyAppends, Zenon
  <2>2. Start \in Nat /\ UnalignedSize(req, count) \in Nat /\ shspecificsize(req, count) \in Nat
    BY <1>2, SizesNat, Zenon
  <2> QED BY <1>3, <2>1, <2>2 DEF alignbytes
<1>5. Tables' BY <1>1, <1>2, <1>3, TablesStay, Zenon
<1>6. Kinds' BY <1>1, <1>2, <1>4, Zenon DEF FInv, Kinds, Steps
<1>7. Written' BY <1>2, <1>4, Zenon DEF Written, BeforeFile
<1>8. Located' BY <1>2, <1>5, Zenon DEF Located, AfterStage, Tables
<1> QED BY <1>6, <1>7, <1>8, Zenon DEF FInv

(* ... where the code starts.                                              *)
LEMMA CodeKeeps ==
    ASSUME FInv, WriteCode PROVE FInv'
<1>1. Image("code", "info") /\ Copy("code", codesize(req)) /\ info' = info
  BY Zenon DEF WriteCode
<1>2. /\ pc = "code" /\ pc' = "info" /\ req' = req /\ count' = count
      /\ req \in Packages /\ count \in Nat
  BY <1>1, ImageStep, Zenon
<1>3. offset = Start + shspecificsize(req, count) /\ Tables
  BY <1>2, Zenon DEF FInv, Written, Located, AfterStage, Tables
<1>4. offset' = Start + shspecificsize(req, count) + codesize(req) /\ offset' \in Nat
  <2>1. offset' = offset + codesize(req) BY <1>1, CopyAppends, Zenon
  <2>2. Start \in Nat /\ shspecificsize(req, count) \in Nat /\ codesize(req) \in Nat
    BY <1>2, SizesNat, Zenon
  <2> QED BY <1>3, <2>1, <2>2
<1>5. Tables' /\ "code" \in DOMAIN file' /\ file'["code"] = offset
  BY <1>1, <1>2, <1>3, TablesStay, Zenon
<1>6. Kinds' BY <1>1, <1>2, <1>4, Zenon DEF FInv, Kinds, Steps
<1>7. Written' BY <1>2, <1>4, Zenon DEF Written, BeforeFile
<1>8. Located' BY <1>2, <1>3, <1>5, Zenon DEF Located, AfterStage, Tables
<1> QED BY <1>6, <1>7, <1>8, Zenon DEF FInv

(* What it holds once the code is written.                                 *)
Program ==
    /\ Tables
    /\ "code" \in DOMAIN file
    /\ file["code"] = Start + shspecificsize(req, count)

(* Copying a later section leaves the code where it is.                    *)
LEMMA ProgramStays ==
    ASSUME Program, NEW section, section \notin {"slots", "tables", "code"},
           NEW size, Copy(section, size),
           req' = req, count' = count, info'.pgmlo = info.pgmlo
    PROVE  Program' /\ section \in DOMAIN file' /\ file'[section] = offset
<1>1. /\ DOMAIN file' = DOMAIN file \cup {section}
      /\ \A x \in DOMAIN file : x # section => file'[x] = file[x]
  BY CopyAppends, Zenon
<1>2. Tables' /\ section \in DOMAIN file' /\ file'[section] = offset
  BY TablesStay, Zenon DEF Program
<1>3. "code" \in DOMAIN file' /\ file'["code"] = file["code"] BY <1>1, Zenon DEF Program
<1> QED BY <1>2, <1>3, Zenon DEF Program

(* The binary info follows the code ...                                    *)
LEMMA BinaryInfoKeeps ==
    ASSUME FInv, WriteBinaryInfo PROVE FInv'
<1>1. /\ Image("info", "params") /\ Copy("info", BinaryInfo)
      /\ info' = [info EXCEPT !.length = codesize(req), !.slots = numinputslots(req),
                              !.chunk = chunkusagebaseoffsetdwords(req, count, offset)]
  BY Zenon DEF WriteBinaryInfo
<1>2. /\ pc = "info" /\ pc' = "params" /\ req' = req /\ count' = count
      /\ req \in Packages /\ count \in Nat
      /\ info = [pgmlo |-> info.pgmlo, length |-> info.length,
                 slots |-> info.slots, chunk |-> info.chunk]
  BY <1>1, ImageStep, Zenon
<1>3. offset = Start + shspecificsize(req, count) + codesize(req) /\ Program
  BY <1>2, Zenon DEF FInv, Written, Located, AfterStage, Tables, Program
<1>4. /\ info'.pgmlo = info.pgmlo /\ info'.length = codesize(req)
      /\ info'.slots = numinputslots(req)
      /\ info'.chunk = chunkusagebaseoffsetdwords(req, count, offset)
      /\ info' = [pgmlo |-> info'.pgmlo, length |-> info'.length,
                  slots |-> info'.slots, chunk |-> info'.chunk]
  BY <1>1, <1>2, Zenon
<1>5. /\ offset' = Start + shspecificsize(req, count) + codesize(req) + BinaryInfo
      /\ offset' \in Nat
  <2>1. offset' = offset + BinaryInfo BY <1>1, CopyAppends, Zenon
  <2>2. /\ Start \in Nat /\ shspecificsize(req, count) \in Nat /\ codesize(req) \in Nat
        /\ BinaryInfo \in Nat
    BY <1>2, SizesNat, Zenon
  <2> QED BY <1>3, <2>1, <2>2
<1>6. Program' /\ "info" \in DOMAIN file' /\ file'["info"] = offset
  BY <1>1, <1>2, <1>3, <1>4, ProgramStays, Zenon
<1>7. chunkusagebaseoffsetdwords(req, count, offset)
          = chunkusagebaseoffsetdwords(req, count, file["info"])'
  BY <1>2, <1>6, Zenon
<1>8. Kinds' BY <1>2, <1>4, <1>5, Zenon DEF Kinds, Steps
<1>9. Written' BY <1>2, <1>5, Zenon DEF Written, BeforeFile
<1>10. Located' BY <1>2, <1>3, <1>4, <1>6, <1>7, Zenon DEF Located, AfterStage, Tables, Program
<1> QED BY <1>8, <1>9, <1>10, Zenon DEF FInv

(* What the finished file holds.                                           *)
Finished ==
    /\ Program
    /\ "info" \in DOMAIN file
    /\ file["info"] = Start + shspecificsize(req, count) + codesize(req)
    /\ info.length = codesize(req) /\ info.slots = numinputslots(req)
    /\ info.chunk = chunkusagebaseoffsetdwords(req, count, file["info"])

(* ... and the parameter info ends the file.                               *)
LEMMA ParamInfoKeeps ==
    ASSUME FInv, WriteParamInfo PROVE FInv'
<1>1. Image("params", "metadata") /\ Copy("params", ParamInfo) /\ info' = info
  BY Zenon DEF WriteParamInfo
<1>2. /\ pc = "params" /\ pc' = "metadata" /\ req' = req /\ count' = count
      /\ req \in Packages /\ count \in Nat
  BY <1>1, ImageStep, Zenon
<1>3. /\ offset = Start + shspecificsize(req, count) + codesize(req) + BinaryInfo
      /\ Finished
  BY <1>2, Zenon DEF FInv, Written, Located, AfterStage, Tables, Program, Finished
<1>4. offset' = total_size(req, count) /\ offset' \in Nat
  <2>1. offset' = offset + ParamInfo BY <1>1, CopyAppends, Zenon
  <2>2. /\ Start \in Nat /\ shspecificsize(req, count) \in Nat /\ codesize(req) \in Nat
        /\ BinaryInfo \in Nat /\ ParamInfo \in Nat
    BY <1>2, SizesNat, Zenon
  <2>3. total_size(req, count) =
            Start + shspecificsize(req, count) + codesize(req) + BinaryInfo + ParamInfo
    BY Zenon DEF total_size, Start
  <2> QED BY <1>3, <2>1, <2>2, <2>3
<1>5. Program' BY <1>1, <1>2, <1>3, ProgramStays, Zenon DEF Finished
<1>6. "info" \in DOMAIN file' /\ file'["info"] = file["info"]
  <2>1. /\ DOMAIN file' = DOMAIN file \cup {"params"}
        /\ \A x \in DOMAIN file : x # "params" => file'[x] = file[x]
    BY <1>1, CopyAppends, Zenon
  <2>2. "info" \in DOMAIN file BY <1>3, Zenon DEF Finished
  <2> QED BY <2>1, <2>2, Zenon
<1>7. Finished' BY <1>1, <1>2, <1>3, <1>5, <1>6, Zenon DEF Finished
<1>8. Kinds' BY <1>1, <1>2, <1>4 DEF FInv, Kinds, Steps
<1>9. Written' BY <1>2, <1>4, Zenon DEF Written, BeforeFile
<1>10. Located' BY <1>2, <1>7, Zenon DEF Located, AfterStage, Tables, Program, Finished
<1> QED BY <1>8, <1>9, <1>10, Zenon DEF FInv

(* The metadata leave the file alone.                                      *)
LEMMA MetadataKeeps ==
    ASSUME FInv, FillMetadata PROVE FInv'
<1>1. /\ pc = "metadata" /\ pc' = "done" /\ UNCHANGED <<req, sem, image>>
  BY Zenon DEF FillMetadata
<1>2. /\ req' = req /\ count' = count /\ offset' = offset /\ info' = info /\ file' = file
  BY <1>1, Zenon DEF count, image
<1>3. offset = total_size(req, count) /\ Finished
  BY <1>1, Zenon DEF FInv, Written, Located, AfterStage, Tables, Program, Finished
<1>4. Finished' BY <1>2, <1>3, Zenon DEF Finished, Program, Tables
<1>5. Kinds' BY <1>1, <1>2, Zenon DEF FInv, Kinds, Steps
<1>6. Written' BY <1>1, <1>2, <1>3, Zenon DEF Written, BeforeFile
<1>7. Located' BY <1>1, <1>4, Zenon DEF Located, AfterStage, Tables, Program, Finished
<1> QED BY <1>5, <1>6, <1>7, Zenon DEF FInv

-----------------------------------------------------------------------------
(* Every step keeps the invariant of the file.                             *)
LEMMA FileNext == FInv /\ [Next]_vars => FInv'
<1> SUFFICES ASSUME FInv, [Next]_vars PROVE FInv'
  BY Zenon
<1>1. CASE UNCHANGED vars
  <2>1. /\ req' = req /\ pc' = pc /\ offset' = offset /\ info' = info /\ file' = file
        /\ count' = count
    BY <1>1, Zenon DEF vars, image, count
  <2>2. Kinds' BY <2>1, Zenon DEF FInv, Kinds
  <2>3. Written' BY <2>1, ZenonT(40) DEF FInv, Written
  <2>4. Located' BY <2>1, Zenon DEF FInv, Located
  <2> QED BY <2>2, <2>3, <2>4, Zenon DEF FInv
<1>2. CASE Next
  BY <1>2, PreparationStep, FileHeadersKeep, RefuseKeeps, StageHeaderKeeps, UsageSlotsKeep,
     SemanticsKeep, PaddingKeeps, CodeKeeps, BinaryInfoKeeps, ParamInfoKeeps, MetadataKeeps, Zenon
     DEF Next
<1> QED BY <1>1, <1>2, Zenon

(* How far the file has got, at every step.                                *)
THEOREM FileInvariant == Spec => []FInv
BY FileInit, FileNext, PTL DEF Spec

(* The write pass stays in the buffer and fills it, for every stage and    *)
(* any sizes.                                                              *)
THEOREM FileExact == Spec => []ImageExact
<1>1. FInv => ImageExact
  <2> SUFFICES ASSUME FInv PROVE ImageExact
    BY Zenon
  <2>1. req \in Packages /\ count \in Nat /\ pc \in Steps BY Zenon DEF FInv, Kinds
  <2>2. /\ Start \in Nat /\ BinaryInfo \in Nat /\ ParamInfo \in Nat
        /\ headershsize(req) \in Nat /\ numinputslots(req) * UsageSlot \in Nat
        /\ SemanticsSize(req, count) \in Nat /\ UnalignedSize(req, count) \in Nat
        /\ shspecificsize(req, count) \in Nat /\ codesize(req) \in Nat
        /\ shspecificsize(req, count) >= UnalignedSize(req, count)
    BY <2>1, SizesNat, Zenon
  <2>3. total_size(req, count) =
            Start + shspecificsize(req, count) + codesize(req) + BinaryInfo + ParamInfo
    BY Zenon DEF total_size, Start
  <2>4. UnalignedSize(req, count) =
            headershsize(req) + numinputslots(req) * UsageSlot + SemanticsSize(req, count)
    BY Zenon DEF UnalignedSize
  <2>5. offset \in {0, Start, Start + headershsize(req),
                    Start + headershsize(req) + numinputslots(req) * UsageSlot,
                    Start + UnalignedSize(req, count), Start + shspecificsize(req, count),
                    Start + shspecificsize(req, count) + codesize(req),
                    Start + shspecificsize(req, count) + codesize(req) + BinaryInfo,
                    total_size(req, count)}
    BY <2>1, Zenon DEF FInv, Written, BeforeFile, Steps
  <2>6. offset <= total_size(req, count)
    <3> DEFINE h == headershsize(req)
               n == numinputslots(req) * UsageSlot
               u == UnalignedSize(req, count)
               t == shspecificsize(req, count)
    <3>1. h \in Nat /\ n \in Nat /\ u \in Nat /\ t \in Nat /\ h + n <= u /\ u <= t
      BY <2>2, <2>4
    <3>2. \/ offset \in {0, Start, Start + h, Start + h + n, Start + u, Start + t}
          \/ offset \in {Start + t + codesize(req), Start + t + codesize(req) + BinaryInfo}
          \/ offset = total_size(req, count)
      BY <2>5, Zenon
    <3> HIDE DEF h, n, u
    <3>3. total_size(req, count) = Start + t + codesize(req) + BinaryInfo + ParamInfo
      BY <2>3, Zenon
    <3> HIDE DEF t
    <3> QED BY <2>2, <3>1, <3>2, <3>3
  <2>7. pc \in {"metadata", "done"} => offset = total_size(req, count)
    BY Zenon DEF FInv, Written
  <2> QED BY <2>6, <2>7, Zenon DEF ImageExact
<1> QED BY <1>1, FileInvariant, PTL

(* The stored address and length lead to the code and past it.             *)
THEOREM CodeLocated == Spec => []ProgramLocated
<1>1. FInv => ProgramLocated
  <2> SUFFICES ASSUME FInv, pc = "done" PROVE ProgramLocated
    BY Zenon DEF ProgramLocated, Packaged
  <2>1. Finished BY Zenon DEF FInv, Located, AfterStage, Tables, Program, Finished
  <2>2. req \in Packages /\ count \in Nat BY Zenon DEF FInv, Kinds
  <2>3. Start \in Nat /\ shspecificsize(req, count) \in Nat /\ codesize(req) \in Nat
    BY <2>2, SizesNat, Zenon
  <2> QED BY <2>1, <2>3, Zenon DEF Finished, Program, Tables, ProgramLocated, Start
<1> QED BY <1>1, FileInvariant, PTL

(* The usage slots are found from the binary info while the distance fits  *)
(* the byte.                                                               *)
THEOREM SlotsLocated == Spec => []UsageSlotsFound
<1>1. FInv => UsageSlotsFound
  <2> SUFFICES ASSUME FInv, pc = "done", info.slots > 0,
                      file["info"] - file["slots"] < 4 * 256
               PROVE  /\ file["slots"] = file["info"] - 4 * info.chunk
                      /\ file["tables"] = file["slots"] + info.slots * UsageSlot
    BY Zenon DEF UsageSlotsFound, Packaged
  <2>1. Finished BY Zenon DEF FInv, Located, AfterStage, Tables, Program, Finished
  <2>2. req \in Packages /\ count \in Nat BY Zenon DEF FInv, Kinds
  <2> DEFINE h == headershsize(req)
             t == shspecificsize(req, count)
             c == codesize(req)
  <2>3. /\ Start \in Nat /\ h \in Nat /\ h % 4 = 0 /\ t \in Nat /\ t % 4 = 0
        /\ c \in Nat /\ c % 4 = 0 /\ numinputslots(req) * UsageSlot \in Nat
        /\ t >= UnalignedSize(req, count) /\ SemanticsSize(req, count) \in Nat
    BY <2>2, SizesNat, Zenon
  <2>4. t >= h BY <2>3 DEF UnalignedSize
  <2>5. /\ file["slots"] = Start + h /\ file["info"] = Start + t + c
        /\ file["tables"] = Start + h + numinputslots(req) * UsageSlot
        /\ info.slots = numinputslots(req)
    BY <2>1, Zenon DEF Finished, Program, Tables
  <2>6. info.chunk = ((file["info"] - (Start + h)) \div 4) % 256
    BY <2>1, <2>5, Zenon DEF Finished, chunkusagebaseoffsetdwords, Start
  <2> HIDE DEF h, t, c
  <2> DEFINE d == t + c - h
  <2>7. d \in Nat /\ d % 4 = 0 /\ d < 1024 /\ file["info"] - (Start + h) = d
    <3>1. t + c >= h /\ file["info"] - (Start + h) = d BY <2>3, <2>4, <2>5
    <3>2. d < 1024 BY <2>5, <3>1
    <3> QED BY <2>3, <3>1, <3>2
  <2>8. (d \div 4) \in 0..255 /\ 4 * (d \div 4) = d
    <3>1. d \in Nat /\ d % 4 = 0 /\ d < 1024 BY <2>7
    <3> HIDE DEF d
    <3> QED BY <3>1
  <2>9. 4 * info.chunk = d
    <3>1. info.chunk = (d \div 4) % 256 BY <2>6, <2>7
    <3> DEFINE q == d \div 4
    <3>2. q \in 0..255 /\ 4 * q = d /\ info.chunk = q % 256 BY <2>8, <3>1, Zenon
    <3> HIDE DEF q, d
    <3>3. q % 256 = q BY <3>2
    <3> QED BY <3>2, <3>3, Zenon
  <2>10. file["slots"] = file["info"] - 4 * info.chunk
    <3>1. file["info"] - file["slots"] = d /\ file["slots"] = Start + h BY <2>5, <2>7
    <3>2. file["slots"] \in Int /\ file["info"] \in Int /\ d \in Int BY <2>3, <2>5, <2>7
    <3> HIDE DEF d
    <3>3. file["slots"] = file["info"] - d BY <3>1, <3>2
    <3> QED BY <2>9, <3>3, Zenon
  <2>11. file["tables"] = file["slots"] + info.slots * UsageSlot BY <2>5, Zenon
  <2> QED BY <2>10, <2>11, Zenon
<1> QED BY <1>1, FileInvariant, PTL

-----------------------------------------------------------------------------
(* Every variable keeps its kind of value: no input number, count or       *)
(* offset that is unsigned in the code goes below zero, not where          *)
(* split_ps5_mixed_inputs and NUM_INTERP subtract one either.              *)
THEOREM PackageTypes == Spec => []TypeOK
<1>1. FInv /\ LInv => TypeOK
  <2> SUFFICES ASSUME FInv, LInv PROVE TypeOK BY Zenon
  <2>1. req \in Packages /\ pc \in Steps /\ offset \in Nat BY Zenon DEF FInv, Kinds
  <2>9. Shader(req) BY <2>1, PackageShader, Zenon
  <2>2. /\ result \in {"none", "OK", "COMPILE_NIR", "INTERNAL_ERROR", "UNSUPPORTED_STAGE"}
        /\ (pc = "failed") = (result \notin {"none", "OK"})
    BY <2>1, Zenon DEF LInv, Ending, Steps
  <2>3. at \in {[l \in req.loads |-> l.loc], LinkedAt(req)}
    BY <2>1, Zenon DEF LInv, Computed, Abandoned, Steps
  <2>4. base \in {[l \in req.loads |-> 0], FirstBase(req), FinalBase(req)}
        /\ inputs \in {0, FirstCount(req), FinalCount(req)}
    BY <2>1, Zenon DEF LInv, Computed, Abandoned, Steps, InFile
  <2>5. DOMAIN at = req.loads /\ \A l \in req.loads : at[l] \in Nat
    <3>1. DOMAIN LinkedAt(req) = req.loads BY Zenon DEF LinkedAt
    <3>2. ASSUME NEW l \in req.loads PROVE l.loc \in Nat /\ LinkedAt(req)[l] \in Nat
      BY <2>9, LinkedNumber, Zenon
    <3> QED BY <2>3, <3>1, <3>2, Zenon
  <2>6. DOMAIN base = req.loads /\ \A l \in req.loads : base[l] \in Nat
    <3>1. /\ DOMAIN FirstBase(req) = req.loads /\ DOMAIN FinalBase(req) = req.loads
          /\ \A l \in req.loads : FirstBase(req)[l] \in Nat /\ FinalBase(req)[l] \in Nat
      BY <2>9, BasesNat, Zenon
    <3> QED BY <2>4, <3>1
  <2>7. inputs \in Nat
    <3>1. FirstCount(req) \in Nat /\ FinalCount(req) \in Nat BY <2>9, CountsNat, Zenon
    <3> QED BY <2>4, <3>1
  <2>8. pc = "done" => metadata.num_interp \in Nat
    <3> SUFFICES ASSUME pc = "done" PROVE metadata.num_interp \in Nat BY Zenon
    <3>1. metadata.num_interp = FinalCount(req) - per_primitive_inputs(req)
      <4>1. metadata = fill_shader_metadata(req, FinalCount(req), Semantics(req))
        BY DoneMetadata, Zenon
      <4> QED BY <4>1, Zenon DEF fill_shader_metadata
    <3>2. FinalCount(req) \in Nat /\ (PerPrimitiveId(req) => FinalCount(req) >= 1)
      BY <2>9, CountsNat, Zenon
    <3>3. per_primitive_inputs(req) = 0 \/ (PerPrimitiveId(req) /\ per_primitive_inputs(req) = 1)
      BY Zenon DEF per_primitive_inputs
    <3> QED BY <3>1, <3>2, <3>3
  <2> QED BY <2>1, <2>2, <2>5, <2>6, <2>7, <2>8, Zenon DEF TypeOK
<1> QED BY <1>1, FileInvariant, LinkingInvariant, PTL

-----------------------------------------------------------------------------
(* What the metadata of a fragment shader say about its inputs.            *)
LEMMA PixelLinkage ==
  ASSUME LInv, pc = "done", mesa(req) = "FRAGMENT"
  PROVE  /\ "AGC_LINKAGE" \notin metadata.unresolved <=> Semantics(req).valid
         /\ Semantics(req).valid => metadata.inputs = Semantics(req).words
         /\ metadata.num_interp = FinalCount(req) - per_primitive_inputs(req)
<1>1. metadata = fill_shader_metadata(req, FinalCount(req), Semantics(req))
  BY DoneMetadata, Zenon
<1>2. Path(req) = "pixel" BY Zenon DEF Path, mesa
<1>3. ~FillsOutputs(req) BY <1>2, Zenon DEF FillsOutputs
<1>4. metadata.unresolved = unresolved_fields(req, Semantics(req))
  BY <1>1, Zenon DEF fill_shader_metadata
<1>5. "AGC_LINKAGE" \in unresolved_fields(req, Semantics(req)) <=> ~Semantics(req).valid
  BY <1>2, <1>3, Zenon DEF unresolved_fields
<1> QED BY <1>1, <1>2, <1>4, <1>5, Zenon DEF fill_shader_metadata

(* Whatever a fragment shader reads, a list of input words that is called  *)
(* complete has, at the attribute of each slot of each load, the word of   *)
(* what that slot reads; in particular none was passed over.               *)
THEOREM InputsDescribed == Spec => []SemanticsDescribeEveryLoad
<1>1. LInv => SemanticsDescribeEveryLoad
  <2> SUFFICES ASSUME LInv, pc = "done", mesa(req) = "FRAGMENT",
                      "AGC_LINKAGE" \notin metadata.unresolved,
                      NEW l \in req.loads, NEW i \in 0..l.slots - 1
               PROVE  /\ base[l] + i + 1 \in DOMAIN metadata.inputs
                      /\ Describes(metadata.inputs[base[l] + i + 1], l, i)
    BY Zenon DEF SemanticsDescribeEveryLoad, Packaged, Fragment
  <2>1. /\ req \in Packages /\ at = LinkedAt(req) /\ base = FinalBase(req) /\ Links(req)
    BY Zenon DEF LInv, Computed, Steps
  <2>6. Shader(req) /\ Pixel(req) BY <2>1, PackageShader, Zenon
  <2>2. Semantics(req).valid /\ metadata.inputs = Semantics(req).words BY PixelLinkage, Zenon
  <2>3. l.kind # "viewport" BY <2>2, <2>6, NoViewport, Zenon DEF Reads
  <2> DEFINE word == InputWord(req, l, LinkedAt(req), i)
  <2>4. /\ base[l] + i + 1 \in DOMAIN metadata.inputs
        /\ metadata.inputs[base[l] + i + 1] = word
    BY <2>1, <2>2, <2>3, <2>6, ListedWord, Zenon
  <2>5. Describes(word, l, i)
    <3>1. CASE l.kind = "var" BY <3>1, Zenon DEF Describes, InputWord
    <3>2. CASE l.kind = "prim"
      <4>1. l.mode = Flat BY <2>2, <2>6, <3>2, ValidWords, AcceptedSlots, Zenon
      <4>2. req.perPrimitive \in BOOLEAN BY <2>1, PackageAssumption, Zenon
      <4> QED BY <3>2, <4>1, <4>2, Zenon DEF Describes, InputWord
    <3>3. CASE l.kind = "dist"
      BY <2>1, <2>6, <3>3, LinkedToProducer, Zenon DEF Describes, InputWord
    <3> QED BY <2>3, <2>6, <3>1, <3>2, <3>3, LoadKinds, Zenon
  <2> QED BY <2>4, <2>5, Zenon
<1> QED BY <1>1, LinkingInvariant, PTL

(* The primitive id of a packaged shader has the attribute behind every    *)
(* interpolated one and behind every alias, whatever is read and mixed.    *)
THEOREM PrimitiveIdLast == Spec => []PerPrimitiveLast
<1>1. LInv => PerPrimitiveLast
  <2> SUFFICES ASSUME LInv, pc = "done", mesa(req) = "FRAGMENT", per_primitive_inputs(req) = 1,
                      NEW l \in req.loads
               PROVE  (base[l] + l.slots > metadata.num_interp) = (l.kind = "prim")
    BY Zenon DEF PerPrimitiveLast, Packaged, Fragment
  <2>1. /\ req \in Packages /\ base = FinalBase(req) /\ Named(req)
    BY Zenon DEF LInv, Computed, InFile
  <2>2. Shader(req) /\ Pixel(req) BY <2>1, PackageShader, Zenon
  <2>3. PerPrimitiveId(req) /\ Splits(req) /\ prim_id_input(req)
    BY <2>2 DEF per_primitive_inputs, Splits, PerPrimitiveId
  <2>4. Semantics(req).valid BY <2>1, <2>3, Zenon DEF Named
  <2>5. metadata.num_interp = FinalCount(req) - 1 BY PixelLinkage, Zenon
  <2>6. (FinalBase(req)[l] + l.slots > FinalCount(req) - 1) = (l.kind = "prim")
    BY <2>2, <2>3, <2>4, IdLast, Zenon
  <2> QED BY <2>1, <2>5, <2>6, Zenon
<1> QED BY <1>1, LinkingInvariant, PTL

(* A PS5 fragment shader whose inputs can be described is never refused or *)
(* packaged as unlinkable, up to the last free attribute, whatever it      *)
(* reads in two ways.                                                      *)
THEOREM MixedInputsNeverLost == Spec => []MixedInputsLink
<1>1. LInv => MixedInputsLink
  <2> SUFFICES ASSUME LInv, pc \in {"done", "failed"}, mesa(req) = "FRAGMENT",
                      req.target = "PS5", Linkable(req)
               PROVE  result = "OK" /\ "AGC_LINKAGE" \notin metadata.unresolved
    BY Zenon DEF MixedInputsLink, Decided, Fragment
  <2>0. req \in Packages BY Zenon DEF LInv
  <2>1. Linked(req) BY <2>0, PackageShader, Zenon DEF Linked, Splits
  <2>2. Links(req) BY <2>1, LinkedFacts, Zenon
  <2>3. Semantics(req).valid BY <2>1, LinkableValid, Zenon
  <2>4. Fits(req)
    <3>1. SplitCount(req, FirstCount(req)) <= MaxSemantics
      BY <2>1, EnoughAttributes, Zenon DEF FinalCount, Linked
    <3> QED BY <3>1, Zenon DEF Fits, SplitFits
  <2>5. HasHeader(req)
    BY <2>0, PackageAssumption, Zenon
       DEF mesa, psbc_to_mesa_stage, HasHeader, HeaderStages, Stages
  <2>6. pc = "done" BY <2>2, <2>3, <2>4, <2>5, Zenon DEF LInv, Ending, Named
  <2> QED BY <2>3, <2>6, PixelLinkage, Zenon DEF LInv, Ending
<1> QED BY <1>1, LinkingInvariant, PTL

-----------------------------------------------------------------------------
(* What the metadata of a producer say about its outputs.                  *)
LEMMA PackageProducer ==
  ASSUME LInv, pc = "done", FillsOutputs(req)
  PROVE  /\ Producer(req)
         /\ metadata.outputs = fill_output_semantics(req).words
         /\ "AGC_LINKAGE" \notin metadata.unresolved <=> fill_output_semantics(req).complete
<1>1. req \in Packages /\ metadata = fill_shader_metadata(req, FinalCount(req), Semantics(req))
  BY DoneMetadata, Zenon
<1>2. Producer(req) BY <1>1, PackageAssumption, Zenon DEF Producer
<1>3. metadata.unresolved = unresolved_fields(req, Semantics(req))
  BY <1>1, Zenon DEF fill_shader_metadata
<1>4. metadata.outputs = OutputSemantics(req) BY <1>1, Zenon DEF fill_shader_metadata
<1>5. OutputSemantics(req) = fill_output_semantics(req).words BY Zenon DEF OutputSemantics
<1>6. Path(req) # "pixel" /\ Path(req) # "legacy geometry" BY Zenon DEF FillsOutputs
<1>7. "AGC_LINKAGE" \in unresolved_fields(req, Semantics(req)) <=> ~fill_output_semantics(req).complete
  BY <1>6, Zenon DEF unresolved_fields
<1> QED BY <1>2, <1>3, <1>4, <1>5, <1>7, Zenon

(* Whatever a producer writes, a list of output words that is called       *)
(* complete names every parameter it exports and nothing else, each by the *)
(* slot exported there: the counts fill_output_semantics compares cannot   *)
(* agree by accident.                                                      *)
THEOREM OutputsNamed == Spec => []OutputsExact
<1>1. LInv => OutputsExact
  <2> DEFINE words == Range(metadata.outputs)
  <2> SUFFICES ASSUME LInv, pc = "done", FillsOutputs(req),
                      "AGC_LINKAGE" \notin metadata.unresolved, NEW k \in 1..Len(Exports(req))
               PROVE  /\ {w \in words : w.parameter = k - 1} =
                         {w \in words : WordSlot(w) = Exports(req)[k]}
                      /\ \E w \in words : w.parameter = k - 1
    BY Zenon DEF OutputsExact, Packaged
  <2>1. /\ Producer(req) /\ metadata.outputs = fill_output_semantics(req).words
        /\ fill_output_semantics(req).complete
    BY PackageProducer, Zenon
  <2>2. words = Range(fill_output_semantics(req).words) BY <2>1, Zenon
  <2> HIDE DEF words
  <2>3. /\ {w \in Range(fill_output_semantics(req).words) : w.parameter = k - 1} =
           {w \in Range(fill_output_semantics(req).words) : WordSlot(w) = Exports(req)[k]}
        /\ \E w \in Range(fill_output_semantics(req).words) : w.parameter = k - 1
    BY <2>1, ParametersNamed, Zenon
  <2> QED BY <2>2, <2>3, Zenon
<1> QED BY <1>1, LinkingInvariant, PTL

(* A producer without a layer and without gaps in its distances is always  *)
(* packaged as linkable, up to as many parameters as there are words.      *)
THEOREM OutputsAlwaysLink == Spec => []OutputsLink
<1>1. LInv => OutputsLink
  <2> SUFFICES ASSUME LInv, pc = "done", FillsOutputs(req), ~req.layer,
                      req.dists = 0..Cardinality(req.dists) - 1,
                      Len(Exports(req)) <= MaxSemantics
               PROVE  "AGC_LINKAGE" \notin metadata.unresolved
    BY Zenon DEF OutputsLink, Packaged
  <2>1. Producer(req) BY PackageProducer, Zenon
  <2>2. fill_output_semantics(req).complete BY <2>1, LinkableOutputs, Zenon
  <2> QED BY <2>2, PackageProducer, Zenon
<1> QED BY <1>1, LinkingInvariant, PTL
=============================================================================
