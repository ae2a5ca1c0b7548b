---------------------------- MODULE MCScrapeRun ----------------------------
(* TLC instances of ScrapeRun: one or two index pages that share entries,  *)
(* with names that clash and entries that lack an attribute.               *)
EXTENDS ScrapeRun, TLC

CONSTANTS n1, n2, n3, p1, p2, p3, i1, i2, i3

E(n, p, i) == [name |-> n, page |-> p, image |-> i]
apple == E(n1, p1, i1)
blurred == E(n1, p1, Missing)
namesake == E(n1, p2, i2)
peach == E(n2, p2, i2)
plum == E(n3, p3, i3)
loose == E(n3, Missing, i3)
mcPages == {<<apple, peach>>, <<blurred, plum>>, <<namesake, apple>>, <<peach, loose, plum>>}
mcListings == {<<a>> : a \in mcPages} \cup {<<a, b>> : a, b \in mcPages}
=============================================================================
