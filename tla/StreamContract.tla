---------------------------- MODULE StreamContract ----------------------------
(***************************************************************************)
(* What the observer of one gRPC stream may rely on, as the interface      *)
(* grpc_stream_observer.h and the class comment of grpc_stream.h state it: *)
(* the start is told once and first, the messages of the server are told   *)
(* in their order and without a gap, the end is told at most once and last *)
(* and nothing at all is told to a client that has finished the stream     *)
(* itself.                                                                 *)
(***************************************************************************)
EXTENDS Naturals

VARIABLES
  opened,  \* how often OnStreamStart was called
  got,     \* the number of the last message given to OnStreamRead
  ended,   \* how often OnStreamFinish was called
  over     \* nothing more may be told

vars == <<opened, got, ended, over>>

Init == opened = 0 /\ got = 0 /\ ended = 0 /\ over = FALSE

TellStart ==
  /\ ~over /\ opened = 0
  /\ opened' = 1
  /\ UNCHANGED <<got, ended, over>>

TellRead ==
  /\ ~over /\ opened = 1
  /\ got' = got + 1
  /\ UNCHANGED <<opened, ended, over>>

TellFinish ==
  /\ ~over /\ opened = 1 /\ ended = 0
  /\ ended' = 1
  /\ over' = TRUE
  /\ UNCHANGED <<opened, got>>

\* The client finishes the stream: from here on there is silence.
Hush ==
  /\ ~over
  /\ over' = TRUE
  /\ UNCHANGED <<opened, got, ended>>

Next == TellStart \/ TellRead \/ TellFinish \/ Hush

Spec == Init /\ [][Next]_vars
===============================================================================
