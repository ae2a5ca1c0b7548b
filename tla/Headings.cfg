\* Every short page, in all three loops.
SPECIFICATION Spec
CONSTANTS
  taste = taste
  choosing = choosing
  spring = spring
  autumn = autumn
  none = none
  nil = nil
  Loops = {"page", "divs", "choose"}
  Pages <- mcPages
  Topics = {choosing}
INVARIANTS
  UnderItsTitles
  ReadsWellFormed
CHECK_DEADLOCK FALSE
