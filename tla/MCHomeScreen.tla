---------------------------- MODULE MCHomeScreen ----------------------------
(* TLC instance of HomeScreen: two ingredient documents of one named       *)
(* sub-category, in season in different months and sold in different       *)
(* prefectures, or of a sub-category that does not exist, and room for a   *)
(* single cell per section.  What has the location aichi is never found by *)
(* it, what has shizuoka is.                                               *)
EXTENDS HomeScreen, TLC

CONSTANTS d1, d2, fish, nuts

mcDocs == {d1, d2}
mcRank == (d1 :> 2) @@ (d2 :> 1)
mcCats == {fish, nuts}
mcCatalogue == (fish :> "named") @@ (nuts :> "missing")
Content(c, m, l) == [cat |-> c, seasons |-> m, locations |-> l]
mcContents == {Content(fish, {1, 2}, {"tokyo", "shizuoka"}), Content(fish, {2}, {"tokyo", "aichi"}),
               Content(nuts, {2}, {"tokyo"})}
mcMonthRows == {0, 1}
mcPrefectures == {"tokyo", "aichi"}
=============================================================================
