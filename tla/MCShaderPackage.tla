--------------------------- MODULE MCShaderPackage ---------------------------
(***************************************************************************)
(* Small shaders, in families that vary one group of fields at a time:     *)
(* three attributes and locations instead of 32, two components to a       *)
(* register instead of four, 16 bytes of push constants, two sets of two   *)
(* bindings, and tables of a few entries.                                  *)
(***************************************************************************)
EXTENDS ShaderPackage, TLC

Pixel ==
    [stage |-> "FRAGMENT", target |-> "PS5", ngg |-> FALSE, pair |-> "none",
     loads |-> {}, clip |-> 0, cull |-> 0, layout |-> FALSE, prefix |-> 0,
     perPrimitive |-> FALSE, exotic |-> FALSE,
     vars |-> {}, primWritten |-> FALSE, layer |-> FALSE, viewport |-> FALSE,
     dists |-> {}, omit |-> FALSE,
     prolog |-> FALSE, prologArg |-> FALSE, bufferArg |-> FALSE, setArg |-> FALSE,
     inputs |-> 0, outputs |-> 0, code |-> 1,
     push |-> [main |-> {}, prev |-> {}], uses |-> [main |-> {}, prev |-> {}],
     declared |-> {}, static |-> FALSE]

Read(kind, loc, slots, mode) == [kind |-> kind, loc |-> loc, slots |-> slots, mode |-> mode]

-----------------------------------------------------------------------------
(* Any inputs but distances, at most one of them of two slots; fewer where *)
(* inputs are not split.                                                   *)
Varyings == SUBSET {Read("var", l, 1, m) : l \in 0..2, m \in {Flat, Smooth}}
Builtins == SUBSET {Read("prim", 0, 1, Flat), Read("viewport", 0, 1, Flat)}

VaryingPixels ==
    {[Pixel EXCEPT !.loads = s \cup d \cup b, !.perPrimitive = p] :
        s \in Varyings, b \in Builtins, p \in BOOLEAN,
        d \in {{}} \cup {{Read("var", l, 2, m)} : l \in {0, 2}, m \in {Flat, Smooth}}}
    \cup {[Pixel EXCEPT !.loads = s \cup b, !.target = "PS4_BASE"] : s \in Varyings, b \in Builtins}
    \cup {[Pixel EXCEPT !.loads = s, !.exotic = TRUE] :
              s \in {{Read("var", 0, 1, Flat)}, {Read("prim", 0, 1, Flat)}}}

(* Any distances, before and behind the clip distances of the producer,    *)
(* beside a varying that is mixed and a primitive id.                      *)
Beside ==
    {{}, {Read("var", 0, 1, Flat), Read("var", 0, 1, Smooth)}, {Read("prim", 0, 1, Flat)}}

DistancePixels ==
    UNION {{[Pixel EXCEPT !.clip = c, !.cull = k, !.layout = y, !.prefix = p,
                          !.loads = b \cup {Read("dist", d, 1, Smooth) : d \in s},
                          !.perPrimitive = (b # {})] :
               y \in BOOLEAN, p \in 0..5, b \in Beside, s \in SUBSET (0..c + k - 1)} :
           c \in 0..2, k \in 0..2}
    \cup {[Pixel EXCEPT !.clip = 1, !.cull = 1, !.layout = y, !.prefix = p,
                        !.loads = {Read("dist", 0, 2, Smooth)}] : y \in BOOLEAN, p \in {1, 2}}

-----------------------------------------------------------------------------
(* Producers of up to five parameters, with and without gaps in the        *)
(* distances they write.                                                   *)
Producers ==
    {[Pixel EXCEPT !.stage = "VERTEX", !.ngg = g, !.vars = v, !.dists = d, !.omit = o,
                   !.layer = y, !.viewport = w] :
        g \in BOOLEAN, v \in SUBSET (0..2), d \in SUBSET (0..3), o \in BOOLEAN,
        y \in BOOLEAN, w \in BOOLEAN}
    \cup {[Pixel EXCEPT !.stage = "GEOMETRY", !.ngg = g, !.pair = "geometry", !.vars = v,
                        !.dists = d, !.primWritten = i, !.viewport = w] :
        g \in BOOLEAN, v \in SUBSET (0..2), d \in SUBSET (0..3), i \in BOOLEAN, w \in BOOLEAN}
    \cup {[Pixel EXCEPT !.stage = "TESS_EVAL", !.ngg = g, !.pair = p, !.vars = v, !.dists = d] :
        g \in BOOLEAN, p \in {"none", "domain"}, v \in SUBSET (0..2), d \in SUBSET (0..3)}

(* Files of every stage, with any usage slots and tables.                  *)
Files ==
    {[Pixel EXCEPT !.stage = s, !.prolog = p, !.prologArg = p, !.bufferArg = b, !.setArg = d,
                   !.inputs = i, !.outputs = o, !.code = c] :
        s \in HeaderStages \cup {"TASK"}, p \in BOOLEAN, b \in BOOLEAN, d \in BOOLEAN,
        i \in 0..2, o \in 0..2, c \in {1, 2, 256}}

-----------------------------------------------------------------------------
PushAt(b, a, s) == [const |-> TRUE, base |-> b, at |-> a, bytes |-> s, range |-> 16]
PushRange(b, s) == [const |-> FALSE, base |-> b, at |-> 0, bytes |-> 4, range |-> s]

PushReads == {PushAt(0, 0, 4), PushAt(4, 6, 4), PushAt(0, 12, 4), PushAt(8, 5, 4),
              PushAt(0, 16, 4), PushAt(0, 3, 2), PushRange(4, 8), PushRange(8, 12), PushRange(0, 0)}

PairOf(stage, pair) == [Pixel EXCEPT !.stage = stage, !.ngg = (pair # "hull"), !.pair = pair]

PairShapes == {Pixel, PairOf("GEOMETRY", "geometry"), PairOf("TESS_CTRL", "hull"),
               PairOf("TESS_CTRL", "none"), [PairOf("TESS_EVAL", "domain") EXCEPT !.ngg = FALSE]}

PushUsers ==
    {[q EXCEPT !.push = [main |-> m, prev |-> p]] :
        q \in PairShapes, m \in {{a, b} : a \in PushReads, b \in PushReads},
        p \in {{a} : a \in PushReads} \cup {{}}}

(* Binding 2 is one no mask has a bit for.                                 *)
SomeUses == {u \in SUBSET ((0..1) \X (0..2)) : Cardinality(u) <= 2}

Declarations == {{}, {<<0, 0>>}, {<<0, 0>>, <<0, 1>>, <<1, 0>>}}

DescriptorUsers ==
    {[q EXCEPT !.uses = [main |-> m, prev |-> p], !.declared = d, !.static = TRUE] :
        q \in PairShapes \ {PairOf("TESS_CTRL", "none")}, m \in SomeUses,
        p \in {u \in SomeUses : Cardinality(u) <= 1}, d \in Declarations}
    \cup {[Pixel EXCEPT !.uses = [main |-> m, prev |-> {}], !.declared = d] :
              m \in SomeUses, d \in Declarations}

AllPackages == UNION {VaryingPixels, DistancePixels, Producers, Files, PushUsers, DescriptorUsers}

StageHeaders == [s \in HeaderStages |-> IF s \in {"COMPUTE", "LOCAL"} THEN 8 ELSE 12]
=============================================================================
