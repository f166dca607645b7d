---------------------------- MODULE StageResources ----------------------------
(***************************************************************************)
(* What a compiled program is reported to use: push-constant dwords and    *)
(* descriptor bindings of its one or two halves.                           *)
(*                                                                         *)
(* A request r has a main half and, in a pair, a previous half.  The two   *)
(* halves of a geometry or hull pair execute in one program; the previous  *)
(* half of a domain pair is only linked.                                   *)
(***************************************************************************)
EXTENDS Integers, Sequences, FiniteSets

CONSTANTS PushBytes,          \* bytes of the push-constant block, 256
          MaxDescriptorSets,  \* PSBC_MAX_DESCRIPTOR_SETS, 4
          MaxBindings,        \* bits of a binding mask, 64
          MaxContext,         \* PSBC_MAX_CONTEXT_REGISTERS, 16
          MaxShader           \* PSBC_MAX_SHADER_REGISTERS, 8

ASSUME ResourceAssumption ==
    {PushBytes, MaxDescriptorSets, MaxBindings, MaxContext, MaxShader} \subseteq Nat \ {0}

Pairs  == {"none", "geometry", "hull", "domain"}
Merged == {"geometry", "hull"}
Halves == {"main", "prev"}

-----------------------------------------------------------------------------
(* A load of constant offset reads bytes bytes at base + at; any other may *)
(* read its whole range from base on.                                      *)
PushLoad == [const : BOOLEAN, base : Nat, at : Nat, bytes : Nat, range : Nat]

PushOffset(l) == IF l.const THEN l.base + l.at ELSE l.base
PushSize(l)   == IF l.const THEN l.bytes ELSE l.range

InBlock(l) ==
    /\ PushSize(l) # 0
    /\ PushOffset(l) < PushBytes
    /\ PushSize(l) <= PushBytes - PushOffset(l)

DwordsOf(l) == (PushOffset(l) \div 4)..((PushOffset(l) + PushSize(l) + 3) \div 4 - 1)

gather_push_dwords(loads) ==
    IF \A l \in loads : InBlock(l)
    THEN [valid |-> TRUE, dwords |-> UNION {DwordsOf(l) : l \in loads}]
    ELSE [valid |-> FALSE, dwords |-> {}]

(* Mutant: each half is judged by itself.                                  *)
PushUseByHalf(r) ==
    LET m == gather_push_dwords(r.push.main)
        p == gather_push_dwords(r.push.prev)
    IN  [valid |-> m.valid, main |-> m.dwords,
         prev |-> IF r.pair \in Merged THEN p.dwords ELSE {}]

(* One half that cannot be read leaves both unknown.                       *)
PushUse(r) ==
    LET m == gather_push_dwords(r.push.main)
        p == gather_push_dwords(r.push.prev)
        valid == m.valid /\ (r.pair \in Merged => p.valid)
    IN  [valid |-> valid,
         main  |-> IF valid THEN m.dwords ELSE {},
         prev  |-> IF valid /\ r.pair \in Merged THEN p.dwords ELSE {}]

(* The masks of the hull pair alone.                                       *)
HullPushUse(r) ==
    LET v == gather_push_dwords(r.push.prev)
        c == gather_push_dwords(r.push.main)
        valid == r.pair = "hull" /\ v.valid /\ c.valid
    IN  [valid   |-> valid,
         vertex  |-> IF valid THEN v.dwords ELSE {},
         control |-> IF valid THEN c.dwords ELSE {}]

-----------------------------------------------------------------------------
(* uses and declared are sets of <<set, binding>>; a binding number no     *)
(* mask has a bit for is written MaxBindings.                              *)
desc_set_used_mask(uses) == {u[1] : u \in uses}

gather_static_descriptor_use(uses) ==
    {u \in uses : u[1] < MaxDescriptorSets /\ u[2] < MaxBindings}

UnnamedSets(uses) ==
    desc_set_used_mask(uses) \ {u[1] : u \in gather_static_descriptor_use(uses)}

(* Mutant: a set one half names is known for both.                         *)
UnknownSetsOfUnion(r) ==
    UnnamedSets(r.uses.main \cup (IF r.pair \in Merged THEN r.uses.prev ELSE {}))

(* A precise mask of one half does not hide unknown use in the other.      *)
UnknownSets(r) ==
    UnnamedSets(r.uses.main) \cup (IF r.pair \in Merged THEN UnnamedSets(r.uses.prev) ELSE {})

StaticBindings(r) ==
    gather_static_descriptor_use(r.uses.main)
    \cup (IF r.pair \in Merged THEN gather_static_descriptor_use(r.uses.prev) ELSE {})
    \cup {d \in r.declared : d[1] < MaxDescriptorSets /\ d[2] < MaxBindings
                             /\ d[1] \in UnknownSets(r)}

(* Without static use the whole declaration is reported.                   *)
descriptor_used_binding_mask(r) ==
    IF r.declared # {} /\ r.static
    THEN StaticBindings(r)
    ELSE {d \in r.declared : d[1] < MaxDescriptorSets /\ d[2] < MaxBindings}
=============================================================================
