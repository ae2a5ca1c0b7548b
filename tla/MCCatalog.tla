----------------------------- MODULE MCCatalog -----------------------------
(* TLC instance of Catalog: a row whose text is no JSON, one whose         *)
(* articles are null in a category the table of IDs does not list, and one *)
(* that imports two articles; two job processes.                           *)
EXTENDS Catalog, TLC

CONSTANTS idFish, j1, j2

mcIds == {idFish}
mcIdOf == ("fish" :> idFish) @@ ("herb" :> nil)
R(json, n, c) == [json |-> json, articles |-> n, category |-> c]
mcRows == <<R("broken", 0, "fish"), R("null", 0, "herb"), R("fine", 2, "fish")>>
mcProcs == {j1, j2}
jobSymmetry == Permutations(mcProcs)
=============================================================================
