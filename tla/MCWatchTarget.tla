--------------------------- MODULE MCWatchTarget ---------------------------
(* TLC instances of WatchTarget: a collection of two documents.            *)
EXTENDS WatchTarget, TLC

CONSTANTS a, b

symmetry == Permutations(Docs)
=============================================================================
