--------------------------- MODULE MCPsbcLifecycle ---------------------------
(***************************************************************************)
(* PsbcCompile for two threads that interleave calls of the three shapes,  *)
(* and for one call, made alone, of every request its checks tell apart.   *)
(***************************************************************************)
EXTENDS MCPsbcCompile

(* Every entry point with every combination of modules it takes, stage,    *)
(* NGG flag and two targets ...                                            *)
Swept(entry) ==
    LET M == ModulesOf(entry)
        S(f) == M[f] \ {"untranslatable"}
    IN  {[Plain EXCEPT !.entry = entry, !.main = m, !.prev = p, !.link = l,
                       !.mainStage = psbc_to_mesa_stage(s), !.prevStage = v,
                       !.stage = s, !.target = g, !.ngg = n] :
           m \in S("main"), p \in S("prev"), l \in S("link"), s \in Stages,
           v \in IF entry = "nir_geometry" THEN {"VERTEX", "TESS_CTRL"} ELSE {"NONE"},
           g \in {"PS4_BASE", "PS5"}, n \in BOOLEAN}

(* ... and the remaining fields one at a time.                             *)
Varied(r) ==
    {[r EXCEPT !.opts = FALSE], [r EXCEPT !.out = FALSE],
     [r EXCEPT !.streamout = TRUE], [r EXCEPT !.primid = TRUE],
     [r EXCEPT !.prevStage = "GEOMETRY"]}
    \cup {[r EXCEPT !.patch = n] : n \in {0, 1, 32, 33}}
    \cup {[r EXCEPT !.fault = f] : f \in OptionFaults}

GateRequests == UNION {Swept(e) : e \in Entries}
                \cup UNION {Varied(r) : r \in {Plain, Hull, TessGeometry, NirPair}}
                \cup {[Plain EXCEPT !.main = "untranslatable"],
                      [NirPair EXCEPT !.mainStage = "VERTEX"]}

LifecycleRequests == ShapeRequests \cup GateRequests
=============================================================================
