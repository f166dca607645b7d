---------------------------- MODULE MCPsbcCompile ----------------------------
(***************************************************************************)
(* Small instances of PsbcCompile.                                         *)
(***************************************************************************)
EXTENDS PsbcCompile

(* A request that every check accepts, to be varied field by field.        *)
Plain ==
    [entry |-> "shader", main |-> "allowed", prev |-> "NULL", link |-> "NULL",
     mainStage |-> "NONE", prevStage |-> "NONE", opts |-> TRUE, out |-> TRUE,
     stage |-> "FRAGMENT", target |-> "PS5", ngg |-> FALSE, streamout |-> FALSE,
     primid |-> FALSE, patch |-> 3, fault |-> "none"]

Hull == [Plain EXCEPT !.entry = "tess", !.prev = "allowed", !.link = "allowed",
                      !.stage = "TESS_CTRL"]
TessGeometry == [Hull EXCEPT !.entry = "tess_geometry", !.stage = "GEOMETRY", !.ngg = TRUE]
NirPair == [Plain EXCEPT !.entry = "nir_geometry", !.main = "NIR", !.prev = "NIR",
                         !.mainStage = "GEOMETRY", !.prevStage = "VERTEX",
                         !.stage = "GEOMETRY", !.ngg = TRUE]

(* The compiles with the most different sets of owned blocks: a single     *)
(* stage, three modules, and a pair of caller's NIR.                       *)
ShapeRequests == {Plain, TessGeometry, NirPair}

(* The requests that show one disagreement each.                           *)
WithheldLink   == {[Hull EXCEPT !.link = "withheld"]}
Untranslatable == {[Plain EXCEPT !.main = "untranslatable"]}
CallersNir     == {[Plain EXCEPT !.entry = "nir", !.main = "NIR", !.mainStage = "FRAGMENT"]}
=============================================================================
