----------------------------- MODULE MCHeadings -----------------------------
(* TLC instance of Headings: every page of up to five elements over two    *)
(* texts for each kind of heading.                                         *)
EXTENDS Headings, TLC

CONSTANTS taste, choosing, spring, autumn, none

El(k, t) == [kind |-> k, text |-> t]
mcElements == {El("h2", taste), El("h2", choosing), El("h3", spring), El("h3", autumn),
               El("doc", none), El("div", none)}
mcPages == BoundedSeq(mcElements, 5)
=============================================================================
