-------------------------- MODULE SectionDirectory --------------------------
(***************************************************************************)
(* What the home screen promises about its sections, without saying how.   *)
(* During one launch of the app a sub-category is asked for at most once;  *)
(* the answer either opens its section, at the end of the list, or loses   *)
(* the sub-category until the next launch.  An open section is never moved *)
(* or closed.  HomeFeed implements this module.                            *)
(***************************************************************************)
EXTENDS Sequences

CONSTANT Cats               \* the sub-category IDs

VARIABLES
  phase,                    \* phase[c]: how far c has come in this launch
  shown                     \* the open sections, in the order they opened

vars == <<phase, shown>>

Phases == {"unknown", "requested", "open", "lost"}

Init ==
  /\ phase = [c \in Cats |-> "unknown"]
  /\ shown = <<>>

Request(c) ==
  /\ phase[c] = "unknown"
  /\ phase' = [phase EXCEPT ![c] = "requested"]
  /\ UNCHANGED shown

Open(c) ==
  /\ phase[c] = "requested"
  /\ phase' = [phase EXCEPT ![c] = "open"]
  /\ shown' = Append(shown, c)

Lose(c) ==
  /\ phase[c] = "requested"
  /\ phase' = [phase EXCEPT ![c] = "lost"]
  /\ UNCHANGED shown

Restart ==
  /\ phase' = [c \in Cats |-> "unknown"]
  /\ shown' = <<>>

Next ==
  \/ \E c \in Cats : Request(c) \/ Open(c) \/ Lose(c)
  \/ Restart

Spec == Init /\ [][Next]_vars

=============================================================================
