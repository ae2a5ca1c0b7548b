--------------------------- MODULE MCArticlePages ---------------------------
(* TLC instance of ArticlePages: one ingredient with three articles, one   *)
(* of them untitled, and a sub-article; its page is opened twice.          *)
EXTENDS ArticlePages, TLC

CONSTANTS a1, a2, a3, s1, v1, v2

mcArticles == {a1, a2, a3}
mcSubs == {s1}
mcSubRank == s1 :> 1
mcViews == {v1, v2}
=============================================================================
