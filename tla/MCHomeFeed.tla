----------------------------- MODULE MCHomeFeed -----------------------------
(* TLC instance of HomeFeed: two ingredient documents, of which one may   *)
(* be deleted by hand and any edited, and two sub-categories, one of which *)
(* has no name in the app's language.                                      *)
EXTENDS HomeFeed, TLC

CONSTANTS d1, d2, fish, herb

mcDocs == {d1, d2}
mcRank == (d1 :> 2) @@ (d2 :> 1)
mcRemovable == {d1}

mcCats == {fish, herb}
Content(c, v) == [cat |-> c, version |-> v]

mcCatalogue == (fish :> "named") @@ (herb :> "unnamed")
mcContents == {Content(fish, 1), Content(fish, 2), Content(herb, 1)}
=============================================================================
