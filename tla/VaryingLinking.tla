---------------------------- MODULE VaryingLinking ----------------------------
(***************************************************************************)
(* How the library gives fragment inputs their attributes and both sides   *)
(* of a link their semantic words: the functions as operators, in the      *)
(* order psbc_compile_impl calls them.                                     *)
(*                                                                         *)
(* A fragment shader f is the set of its input loads with the options that *)
(* concern them.  A load names a user varying (location and slots), the    *)
(* primitive id, the viewport index, or a component of the packed clip and *)
(* cull distances; a distance load of two slots is one whose index is not  *)
(* constant.  Its mode is the bit of ps5_input_interpolation_mode.  A      *)
(* producer p is what the stage before the rasterizer exports.             *)
(***************************************************************************)
EXTENDS Integers, Sequences, FiniteSets, Functions

CONSTANTS MaxSemantics,   \* PSBC_MAX_SEMANTICS, 32 in the code
          Width           \* components of a register, 4 in the code

ASSUME LinkingAssumption ==
    MaxSemantics \in 1..255 /\ Width \in Nat \ {0}   \* an attribute fits a byte

Flat   == 1
Smooth == 2

Load == [kind  : {"var", "prim", "viewport", "dist"},
         loc   : 0..MaxSemantics - 1 \cup 0..2 * Width - 1,
         slots : {1, 2},
         mode  : {Flat, Smooth}]

-----------------------------------------------------------------------------
(* Distances.  loc of a distance load counts clip components first, then   *)
(* cull components.  Linking moves the cull part behind the clip           *)
(* components the producer declares.                                       *)
Distances(f) == {l \in f.loads : l.kind = "dist"}

DistanceFits(f) ==
    /\ f.prefix <= 2 * Width
    /\ f.clip <= f.prefix
    /\ f.cull <= 2 * Width - f.prefix

Moves(f) == f.layout /\ f.cull > 0 /\ f.prefix # f.clip

link_fragment_distance_layout(f) ==
    f.layout => /\ DistanceFits(f)
                /\ Moves(f) => \A l \in Distances(f) :
                                   l.slots = 1 /\ (l.loc < f.clip \/ l.loc - f.clip < f.cull)

LinkedComponent(f, l) ==
    IF Moves(f) /\ l.loc >= f.clip THEN l.loc + f.prefix - f.clip ELSE l.loc

-----------------------------------------------------------------------------
(* The varying slots in the order of gl_varying_slot.                      *)
DistanceSlot(register) == register
PrimitiveIdSlot        == 2
LayerSlot              == 3
ViewportSlot           == 4
VarSlot(location)      == 5 + location

(* First slot a load reads; at gives the component of a distance load.     *)
Location(l, at) ==
    CASE l.kind = "dist"     -> DistanceSlot(at[l] \div Width)
      [] l.kind = "prim"     -> PrimitiveIdSlot
      [] l.kind = "viewport" -> ViewportSlot
      [] l.kind = "var"      -> VarSlot(l.loc)

SlotsOf(l, at) == Location(l, at)..Location(l, at) + l.slots - 1

inputs_read(f, at) == UNION {SlotsOf(l, at) : l \in f.loads}

prim_id_input(f) == \E l \in f.loads : l.kind = "prim"

Below(slots, s) == Cardinality({t \in slots : t < s})

(* Per-primitive candidates come after every other input.                  *)
nir_recompute_io_bases(f, at) ==
    LET perPrim == inputs_read(f, at) \cap {PrimitiveIdSlot, LayerSlot, ViewportSlot}
        normal  == inputs_read(f, at) \ perPrim
    IN  [l \in f.loads |->
            IF Location(l, at) \in perPrim
            THEN Cardinality(normal) + Below(perPrim, Location(l, at))
            ELSE Below(normal, Location(l, at))]

num_inputs(f, at) == Cardinality(inputs_read(f, at))

-----------------------------------------------------------------------------
(* A varying read both flat and interpolated needs an attribute for each.  *)
VarLoads(f) == {l \in f.loads : l.kind = "var"}

ModesOf(f, location) ==
    {l.mode : l \in {m \in VarLoads(f) : location \in m.loc..m.loc + m.slots - 1}}

Mixed(f) == {location \in 0..MaxSemantics - 1 : ModesOf(f, location) = {Flat, Smooth}}

(* Mutant: the option alone moves the primitive id.                        *)
PerPrimitiveIdUnread(f) == f.perPrimitive

PerPrimitiveId(f) == f.perPrimitive /\ prim_id_input(f)

FirstAlias(f, n) == n - (IF PerPrimitiveId(f) THEN 1 ELSE 0)

(* next after the loop and the test for the primitive id.                  *)
SplitCount(f, n) ==
    FirstAlias(f, n) + Cardinality(Mixed(f)) + (IF PerPrimitiveId(f) THEN 1 ELSE 0)

(* Mutant: the last attribute counts as taken.                             *)
SplitFitsLess(f, n) ==
    (Mixed(f) # {} \/ PerPrimitiveId(f)) => SplitCount(f, n) < MaxSemantics

(* Every attribute handed out, the primitive id's included, was tested     *)
(* against the limit; without one nothing is tested.                       *)
SplitFits(f, n) ==
    (Mixed(f) # {} \/ PerPrimitiveId(f)) => SplitCount(f, n) <= MaxSemantics

(* Mutant: the aliases follow the primitive id, which stays where it is.   *)
RemapBehindId(f, base, n, l) ==
    IF l.kind = "var" /\ l.mode = Flat /\ l.slots = 1 /\ l.loc \in Mixed(f)
    THEN n + Below(Mixed(f), l.loc)
    ELSE base[l]

remap_ps5_flat_input(f, base, n, l) ==
    CASE l.kind = "prim" /\ l.mode = Flat /\ PerPrimitiveId(f) ->
             FirstAlias(f, n) + Cardinality(Mixed(f))
      [] l.kind = "var" /\ l.mode = Flat /\ l.slots = 1 /\ l.loc \in Mixed(f) ->
             FirstAlias(f, n) + Below(Mixed(f), l.loc)
      [] OTHER -> base[l]

(* Nothing is remapped when the count stays as it is.                      *)
split_ps5_mixed_inputs(f, base, n) ==
    IF SplitCount(f, n) = n
    THEN base
    ELSE [l \in f.loads |-> remap_ps5_flat_input(f, base, n, l)]

-----------------------------------------------------------------------------
(* The word of slot i of a load: its match key and the flat bit.           *)
InputWord(f, l, at, i) ==
    CASE l.kind = "var"  -> [kind |-> "var", loc |-> l.loc + i, flat |-> l.mode = Flat]
      [] l.kind = "prim" -> [kind |-> "prim", loc |-> 0,
                             flat |-> l.mode = Flat /\ ~f.perPrimitive]
      [] l.kind = "dist" -> [kind |-> "dist", loc |-> at[l] \div Width, flat |-> FALSE]

(* The walk passes over built-ins it has no word for.                      *)
WordsOf(f, at, base) ==
    UNION {{[attribute |-> base[l] + i, word |-> InputWord(f, l, at, i)] : i \in 0..l.slots - 1} :
               l \in {m \in f.loads : m.kind # "viewport"}}

LoadAccepted(f, at, l) ==
    CASE l.kind = "prim"     -> l.slots = 1 /\ l.mode = Flat
      [] l.kind = "dist"     -> /\ l.slots = 1
                                /\ f.clip + f.cull \in 1..2 * Width
                                /\ at[l] \div Width <= 1
      [] l.kind = "var"      -> l.loc + l.slots <= MaxSemantics
      [] l.kind = "viewport" -> TRUE

(* Mutant: a second word for an attribute is not compared with the first.  *)
NoConflictUntested(words) == TRUE

NoConflict(words) == \A u, v \in words : u.attribute = v.attribute => u.word = v.word

(* The list ends at the first attribute without a word: it has the         *)
(* attributes before which, and at which, none is missing.                 *)
Seen(words, n) ==
    {k \in 0..MaxSemantics - 1 :
        k < n /\ \A a \in 0..k : \E w \in words : w.attribute = a}

build_input_semantics(f, at, base, n) ==
    LET words == WordsOf(f, at, base)
        walked == /\ n <= MaxSemantics
                  /\ ~f.exotic
                  /\ \A l \in f.loads : LoadAccepted(f, at, l)
                  /\ \A w \in words : w.attribute < n
                  /\ NoConflict(words)
        count == Cardinality(Seen(words, n))
    IN  IF ~walked
        THEN [valid |-> FALSE, words |-> <<>>]
        ELSE [valid |-> count = n,
              words |-> [k \in 1..count |->
                            (CHOOSE w \in words : w.attribute = k - 1).word]]

-----------------------------------------------------------------------------
(* What there is to link, apart from how it is numbered.                   *)

(* The component in which the producer exports what distance load l reads: *)
(* clip distances first, cull distances behind all of the producer's clip  *)
(* distances.                                                              *)
ProducerComponent(f, l) ==
    IF l.loc < f.clip THEN l.loc
    ELSE l.loc - f.clip + (IF f.layout THEN f.prefix ELSE f.clip)

(* A pair of a location and a mode, a register or a primitive id: what     *)
(* needs an attribute of its own.                                          *)
AttributeOf(f, l) ==
    CASE l.kind = "var"  -> <<"var", l.loc, l.mode>>
      [] l.kind = "dist" -> <<"dist", ProducerComponent(f, l) \div Width, Smooth>>
      [] OTHER           -> <<"prim", 0, Flat>>

(* A PS5 fragment shader whose inputs can be described, whose distances    *)
(* fit the two registers, and that needs no more attributes than there are.*)
Linkable(f) ==
    /\ ~f.exotic
    /\ f.clip + f.cull <= 2 * Width /\ (f.layout => DistanceFits(f))
    /\ \A l \in f.loads : l.slots = 1 /\ l.kind # "viewport"
    /\ \A l \in f.loads : l.kind = "var" => l.loc < MaxSemantics
    /\ \A l \in f.loads : (l.kind = "prim" => l.mode = Flat)
    /\ Cardinality({AttributeOf(f, l) : l \in f.loads}) <= MaxSemantics

-----------------------------------------------------------------------------
(* The other side: the parameters the last stage before the rasterizer     *)
(* exports.  p names the locations it writes, whether it writes the        *)
(* primitive id, layer and viewport itself, and the distance components.   *)
DistanceRegisters(p) == {c \div Width : c \in p.dists}

WrittenParams(p) ==
    {VarSlot(v) : v \in p.vars} \cup
    (IF p.primWritten THEN {PrimitiveIdSlot} ELSE {}) \cup
    (IF p.layer THEN {LayerSlot} ELSE {}) \cup
    (IF p.viewport THEN {ViewportSlot} ELSE {})

InOrder(slots) ==
    [k \in 1..Cardinality(slots) |-> CHOOSE s \in slots : Below(slots, s) = k - 1]

(* Without a fragment stage at hand RADV exports the primitive id and the  *)
(* distances of every producer.                                            *)
ImplicitPerPrimitive(p) == p.ngg /\ p.target = "PS5" /\ p.stage = "VERTEX"
ImplicitPerVertex(p)    == ~ImplicitPerPrimitive(p) /\ p.stage \in {"VERTEX", "TESS_EVAL"}

radv_set_vs_output_param(p) ==
    [vertex    |-> InOrder(WrittenParams(p))
                   \o (IF ImplicitPerVertex(p) /\ ~p.primWritten THEN <<PrimitiveIdSlot>> ELSE <<>>)
                   \o InOrder({DistanceSlot(r) : r \in DistanceRegisters(p)}),
     primitive |-> IF ImplicitPerPrimitive(p) /\ ~p.primWritten THEN <<PrimitiveIdSlot>> ELSE <<>>]

(* An implicit primitive id is dropped when the caller proved it dead; on  *)
(* the PS5 it becomes a per-vertex parameter and keeps its slot.           *)
LinkedExports(p) ==
    LET e == radv_set_vs_output_param(p)
    IN  CASE e.primitive = <<>>  -> e
          [] e.primitive # <<>> /\ p.omit -> [e EXCEPT !.primitive = <<>>]
          [] OTHER -> [vertex |-> e.vertex \o e.primitive, primitive |-> <<>>]

Exports(p) == LinkedExports(p).vertex \o LinkedExports(p).primitive

(* vs_output_param_offset; AC_EXP_PARAM_UNDEFINED is past every limit.     *)
vs_output_param_offset(p, slot) ==
    IF slot \in Range(Exports(p))
    THEN (CHOOSE k \in 1..Len(Exports(p)) : Exports(p)[k] = slot) - 1
    ELSE 255

OutputWord(p, kind, loc, slot) ==
    [kind |-> kind, loc |-> loc, parameter |-> vs_output_param_offset(p, slot)]

(* Mutant: a register is named by its rank among those written.            *)
DistanceWordsByRank(p) ==
    [k \in 1..Cardinality(DistanceRegisters(p)) |->
        OutputWord(p, "dist", k - 1, InOrder({DistanceSlot(r) : r \in DistanceRegisters(p)})[k])]

(* As many registers as the written components fill when they are packed.  *)
DistanceWords(p) ==
    [k \in 1..(Cardinality(p.dists) + Width - 1) \div Width |->
        OutputWord(p, "dist", k - 1, DistanceSlot(k - 1))]

ListedAt(p, slot) == vs_output_param_offset(p, slot) < MaxSemantics

VarWords(p) ==
    LET vars == InOrder({v \in 0..MaxSemantics - 1 : ListedAt(p, VarSlot(v))})
    IN  [k \in 1..Len(vars) |-> OutputWord(p, "var", vars[k], VarSlot(vars[k]))]

(* Mutant: the viewport index is not named.                                *)
BuiltinWordsNoViewport(p) ==
    IF ListedAt(p, PrimitiveIdSlot) THEN <<OutputWord(p, "prim", 0, PrimitiveIdSlot)>> ELSE <<>>

BuiltinWords(p) ==
    (IF ListedAt(p, PrimitiveIdSlot) THEN <<OutputWord(p, "prim", 0, PrimitiveIdSlot)>> ELSE <<>>)
    \o (IF ListedAt(p, ViewportSlot) THEN <<OutputWord(p, "viewport", 0, ViewportSlot)>> ELSE <<>>)

(* The slot a word names.                                                  *)
WordSlot(w) ==
    CASE w.kind = "var"      -> VarSlot(w.loc)
      [] w.kind = "prim"     -> PrimitiveIdSlot
      [] w.kind = "viewport" -> ViewportSlot
      [] w.kind = "dist"     -> DistanceSlot(w.loc)

(* The lists in the order they are appended; the append that does not fit, *)
(* or a register without a parameter, ends them.                           *)
fill_output_semantics(p) ==
    LET wanted   == VarWords(p) \o BuiltinWords(p) \o DistanceWords(p)
        placed   == {k \in 1..Len(wanted) :
                        k <= MaxSemantics /\ \A j \in 1..k : wanted[j].parameter < MaxSemantics}
    IN  [complete |-> placed = 1..Len(wanted) /\ Len(wanted) = Len(Exports(p)),
         words    |-> SubSeq(wanted, 1, Cardinality(placed))]
=============================================================================
