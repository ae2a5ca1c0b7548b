------------------------------ MODULE GrpcStream ------------------------------
(***************************************************************************)
(* One stream of the Firestore SDK (remote/grpc_stream.cc), the channel on *)
(* which every snapshot of the app arrives.                                *)
(*                                                                         *)
(* Three parties interleave.  The worker queue runs one operation at a     *)
(* time: calls of the stream's owner, the callbacks of completions that    *)
(* came back, and, inside some of them, a call into the observer.  gRPC    *)
(* holds the operations issued on the call and hands each one back, from   *)
(* a thread of its own, as a completion whose callback then waits for the  *)
(* worker queue.  The network breaks the call.  Where the code blocks the  *)
(* worker until gRPC has returned something, the model has a state of      *)
(* `control' and steps of the other parties in it.                         *)
(***************************************************************************)
EXTENDS Naturals, Sequences

CONSTANTS MaxWrites, \* bound: messages the owner writes
          MaxReads   \* bound: messages the server sends

ASSUME BoundsAssumption == MaxWrites \in Nat /\ MaxReads \in Nat

VARIABLES
  stage,        \* "new", "started" (StartCall was made) or "released" (destroyed)
  control,      \* what the worker queue does with this stream
  observer,     \* observer_ is set
  registered,   \* grpc_connection_ is set: the connection lists this call
  notify,       \* the Shutdown that is running belongs to FinishAndNotify
  finished,     \* is_grpc_call_finished_
  cancelled,    \* context_->TryCancel() was called
  broken,       \* the network or the server has ended the call
  completions,  \* completions_, each with where its operation is
  buffered,     \* BufferedWriter's queue_
  active,       \* BufferedWriter's has_active_write_
  wire,         \* history: messages handed to call_->Write, in order
  accepted,     \* history: number of messages given to Write
  opened, got, ended, \* history: what the observer was told (see StreamContract)
  quit          \* history: the client has finished the stream itself

ownerVars    == <<stage, registered, notify, quit>>
callVars     == <<finished, cancelled, broken>>
writerVars   == <<buffered, active, wire, accepted>>
observerVars == <<observer, opened, got, ended>>
vars == <<ownerVars, control, callVars, completions, writerVars, observerVars>>

\* control: "free" between two operations, "told" inside a call to the observer, and the
\* places where the worker is blocked on completions: the last write of WriteAndFinish and
\* the three calls of FastFinishCompletionsBlocking.
Blocked == {"lastWrite", "asking", "cancelling", "closing"}

Completions == [type : {"Read", "Write", "Finish"}, n : Nat, at : {"grpc", "ok", "failed"}]

Completion(type, n) == [type |-> type, n |-> n, at |-> "grpc"]

\* Every completion is off the gRPC queue: what FastFinishCompletionsBlocking waits for.
OffQueue == \A c \in completions : c.at # "grpc"

\* The owner may call: nothing of this stream runs, or its own callback does.
Callable == control \in {"free", "told"} /\ observer

Init ==
  /\ stage = "new" /\ control = "free"
  /\ observer = TRUE /\ registered = TRUE /\ notify = FALSE
  /\ finished = FALSE /\ cancelled = FALSE /\ broken = FALSE
  /\ completions = {}
  /\ buffered = <<>> /\ active = FALSE /\ wire = <<>> /\ accepted = 0
  /\ opened = 0 /\ got = 0 /\ ended = 0 /\ quit = FALSE

-------------------------------------------------------------------------------
(* Calls of the owner *)

\* StartCall, then a read is issued before the observer is told.
Start ==
  /\ stage = "new" /\ Callable
  /\ stage' = "started"
  /\ completions' = completions \cup {Completion("Read", 1)}
  /\ opened' = opened + 1
  /\ control' = "told"
  /\ UNCHANGED <<registered, notify, quit, callVars, writerVars, observer, got, ended>>

\* EnqueueWrite or DequeueNextWrite, then MaybeWrite: the queue, the completions so far and
\* has_active_write_ decide whether its first message is handed to gRPC.
TryStartWrite(queue, issued, busy) ==
  IF busy \/ queue = <<>>
  THEN /\ buffered' = queue
       /\ active' = busy
       /\ completions' = issued
       /\ UNCHANGED wire
  ELSE /\ buffered' = Tail(queue)
       /\ active' = TRUE
       /\ completions' = issued \cup {Completion("Write", Head(queue))}
       /\ wire' = Append(wire, Head(queue))

Write_Unbuffered ==
  /\ stage = "started" /\ Callable
  /\ accepted < MaxWrites
  /\ accepted' = accepted + 1
  /\ TryStartWrite(Append(buffered, accepted + 1), completions, FALSE)
  /\ UNCHANGED <<ownerVars, control, callVars, observerVars>>

\* Write and WriteLast; Stream::Write calls it as long as the stream was not closed.
Write ==
  /\ stage = "started" /\ Callable
  /\ accepted < MaxWrites
  /\ accepted' = accepted + 1
  /\ TryStartWrite(Append(buffered, accepted + 1), completions, active)
  /\ UNCHANGED <<ownerVars, control, callVars, observerVars>>

Shutdown_NoCancel(told) ==
  /\ registered' = FALSE
  /\ notify' = told
  /\ IF completions # {} /\ ~finished
     THEN /\ finished' = TRUE
          /\ control' = "cancelling"
     ELSE /\ control' = "closing"
          /\ UNCHANGED finished
  /\ UNCHANGED cancelled

\* Shutdown up to the first place where it blocks.
Shutdown(told) ==
  /\ registered' = FALSE
  /\ notify' = told
  /\ IF completions # {} /\ ~finished
     THEN /\ cancelled' = TRUE
          /\ finished' = TRUE
          /\ control' = "cancelling"
     ELSE /\ control' = "closing"
          /\ UNCHANGED <<cancelled, finished>>

FinishImmediately_Told ==
  /\ Callable
  /\ quit' = TRUE
  /\ Shutdown(TRUE)
  /\ UNCHANGED <<stage, broken, completions, writerVars, observerVars>>

FinishImmediately ==
  /\ Callable
  /\ quit' = TRUE
  /\ Shutdown(FALSE)
  /\ UNCHANGED <<stage, broken, completions, writerVars, observerVars>>

\* WriteAndFinish: unless the call is finished the message is queued, and when it could be
\* issued at once the worker waits for it, half a second at most.
WriteAndFinish ==
  /\ stage = "started" /\ Callable
  /\ accepted < MaxWrites
  /\ quit' = TRUE
  /\ IF finished
     THEN Shutdown(FALSE) /\ UNCHANGED <<writerVars, completions>>
     ELSE /\ accepted' = accepted + 1
          /\ TryStartWrite(Append(buffered, accepted + 1), completions, active)
          /\ IF active
             THEN Shutdown(FALSE)
             ELSE /\ control' = "lastWrite"
                  /\ UNCHANGED <<registered, notify, finished, cancelled>>
  /\ UNCHANGED <<stage, broken, observerVars>>

\* The last write came back, or the half second is over.
LastWriteWaited ==
  /\ control = "lastWrite"
  /\ Shutdown(FALSE)
  /\ UNCHANGED <<stage, quit, broken, completions, writerVars, observerVars>>

\* GrpcConnection ends every registered call when the connectivity changes.
ConnectivityChanged ==
  /\ stage = "started" /\ control = "free" /\ registered
  /\ Shutdown(TRUE)
  /\ UNCHANGED <<stage, quit, broken, completions, writerVars, observerVars>>

\* A call to the observer returns.
ObserverReturns ==
  /\ control = "told"
  /\ control' = "free"
  /\ UNCHANGED <<ownerVars, callVars, completions, writerVars, observerVars>>

\* Stream::Close resets grpc_stream_ once the stream is finished; also within OnStreamFinish.
Release ==
  /\ stage # "released" /\ ~observer /\ control \in {"free", "told"}
  /\ stage' = "released"
  /\ control' = "free"
  /\ UNCHANGED <<registered, notify, quit, callVars, completions, writerVars, observerVars>>

-------------------------------------------------------------------------------
(* gRPC and the network *)

CallBreaks ==
  /\ stage = "started" /\ ~broken
  /\ broken' = TRUE
  /\ UNCHANGED <<ownerVars, control, finished, cancelled, completions, writerVars, observerVars>>

Return(c, how) == completions' = (completions \ {c}) \cup {[c EXCEPT !.at = how]}

Dead == broken \/ cancelled

\* gRPC hands back a read with the next message or a write that went out; on a dead call every
\* operation comes back failed, and Finish comes back only then, with the status.
CompleteOk(c) ==
  /\ c \in completions /\ c.at = "grpc"
  /\ \/ c.type = "Read" /\ c.n <= MaxReads
     \/ c.type = "Write"
     \/ c.type = "Finish" /\ Dead
  /\ Return(c, "ok")
  /\ UNCHANGED <<ownerVars, control, callVars, writerVars, observerVars>>

CompleteFailed(c) ==
  /\ c \in completions /\ c.at = "grpc" /\ c.type # "Finish"
  /\ Dead
  /\ Return(c, "failed")
  /\ UNCHANGED <<ownerVars, control, callVars, writerVars, observerVars>>

-------------------------------------------------------------------------------
(* The callbacks of completions, on the worker queue *)

OnRead_TellsFirst(c) ==
  /\ control = "free" /\ c \in completions /\ c.at = "ok" /\ c.type = "Read"
  /\ IF observer
     THEN /\ completions' = completions \ {c}
          /\ got' = c.n
          /\ control' = "told"
     ELSE /\ completions' = completions \ {c}
          /\ UNCHANGED <<got, control>>
  /\ UNCHANGED <<ownerVars, callVars, writerVars, observer, opened, ended>>

\* The next read is issued before the observer is told.
OnRead(c) ==
  /\ control = "free" /\ c \in completions /\ c.at = "ok" /\ c.type = "Read"
  /\ IF observer
     THEN /\ completions' = (completions \ {c}) \cup {Completion("Read", c.n + 1)}
          /\ got' = c.n
          /\ control' = "told"
     ELSE /\ completions' = completions \ {c}
          /\ UNCHANGED <<got, control>>
  /\ UNCHANGED <<ownerVars, callVars, writerVars, observer, opened, ended>>

OnWrite_Newest(c) ==
  /\ control = "free" /\ c \in completions /\ c.at = "ok" /\ c.type = "Write"
  /\ LET l == Len(buffered) IN
     IF observer
     THEN IF l < 2 THEN TryStartWrite(buffered, completions \ {c}, FALSE)
          ELSE TryStartWrite(<<buffered[l]>> \o SubSeq(buffered, 1, l - 1), completions \ {c}, FALSE)
     ELSE completions' = completions \ {c} /\ UNCHANGED <<buffered, active, wire>>
  /\ UNCHANGED <<ownerVars, control, callVars, accepted, observerVars>>

\* DequeueNextWrite.
OnWrite(c) ==
  /\ control = "free" /\ c \in completions /\ c.at = "ok" /\ c.type = "Write"
  /\ IF observer
     THEN TryStartWrite(buffered, completions \ {c}, FALSE)
     ELSE completions' = completions \ {c} /\ UNCHANGED <<buffered, active, wire>>
  /\ UNCHANGED <<ownerVars, control, callVars, accepted, observerVars>>

OnOperationFailed_Silent(c) ==
  /\ control = "free" /\ c \in completions /\ c.at = "failed"
  /\ completions' = completions \ {c}
  /\ UNCHANGED <<ownerVars, control, callVars, writerVars, observerVars>>

\* The first failure finishes the call to learn its status; later ones change nothing.
OnOperationFailed(c) ==
  /\ control = "free" /\ c \in completions /\ c.at = "failed"
  /\ completions' = completions \ {c}
  /\ IF finished
     THEN UNCHANGED <<finished, control>>
     ELSE finished' = TRUE /\ control' = "asking"
  /\ UNCHANGED <<ownerVars, cancelled, broken, writerVars, observerVars>>

\* The callback of the Finish that OnOperationFailed issued: FinishAndNotify.
OnFinish(c) ==
  /\ control = "free" /\ c \in completions /\ c.at = "ok" /\ c.type = "Finish"
  /\ registered' = FALSE
  /\ notify' = TRUE
  /\ completions' = completions \ {c}
  /\ control' = "closing"
  /\ UNCHANGED <<stage, quit, callVars, writerVars, observerVars>>

\* FinishGrpcCall: all completions are cancelled and off the queue; then Finish is issued.
FinishGrpcCall ==
  /\ control \in {"asking", "cancelling"} /\ OffQueue
  /\ completions' = {Completion("Finish", 1)}
  /\ control' = IF control = "asking" THEN "free" ELSE "closing"
  /\ UNCHANGED <<ownerVars, callVars, writerVars, observerVars>>

\* The end of Shutdown; the observer is unset before it is told.
Closed ==
  /\ control = "closing" /\ OffQueue
  /\ completions' = {}
  /\ observer' = FALSE
  /\ IF notify /\ observer
     THEN ended' = ended + 1 /\ control' = "told"
     ELSE control' = "free" /\ UNCHANGED ended
  /\ UNCHANGED <<ownerVars, callVars, writerVars, opened, got>>

-------------------------------------------------------------------------------
Owner == \/ Start \/ Write \/ FinishImmediately \/ WriteAndFinish \/ Release
         \/ ConnectivityChanged
Worker == \/ LastWriteWaited \/ ObserverReturns \/ FinishGrpcCall \/ Closed
          \/ \E c \in completions : OnRead(c) \/ OnWrite(c) \/ OnOperationFailed(c) \/ OnFinish(c)
Grpc == \E c \in completions : CompleteOk(c) \/ CompleteFailed(c)

Next == Owner \/ Worker \/ Grpc \/ CallBreaks

Spec == Init /\ [][Next]_vars

\* The queue gets to run what waits on it, a call to the observer returns, and gRPC returns
\* the operations of a dead call.  Nothing is assumed of a call that is alive.
Fairness ==
  /\ WF_vars(LastWriteWaited) /\ WF_vars(ObserverReturns) /\ WF_vars(FinishGrpcCall)
  /\ WF_vars(Closed)
  /\ WF_vars(\E c \in completions : OnRead(c) \/ OnOperationFailed(c) \/ OnFinish(c))
  /\ WF_vars(\E c \in completions : Dead /\ (CompleteFailed(c) \/ (c.type = "Finish" /\ CompleteOk(c))))

FairSpec == Spec /\ Fairness
-------------------------------------------------------------------------------
(* Properties *)

\* The variables keep their types.
TypeOK ==
  /\ stage \in {"new", "started", "released"}
  /\ control \in {"free", "told"} \cup Blocked
  /\ observer \in BOOLEAN /\ registered \in BOOLEAN /\ notify \in BOOLEAN /\ quit \in BOOLEAN
  /\ finished \in BOOLEAN /\ cancelled \in BOOLEAN /\ broken \in BOOLEAN /\ active \in BOOLEAN
  /\ completions \in SUBSET Completions
  /\ buffered \in Seq(Nat) /\ wire \in Seq(Nat) /\ accepted \in Nat
  /\ opened \in Nat /\ got \in Nat /\ ended \in Nat

\* gRPC allows one read, one write and one Finish of a call at a time (class comment of
\* BufferedWriter), and never a read behind Finish, however calls of the owner, failures and
\* connectivity changes interleave with completions that come back.
CallRules ==
  /\ \A c, d \in completions : c.type = d.type => c = d
  /\ \A c, d \in completions : c.type = "Read" => d.type # "Finish"

\* A stream that is destroyed has no operation left in gRPC (the context and the call die with
\* it, and the destructor asserts it), is no longer listed by the connection, which would call
\* it, and has finished the call if it ever started it, also when the owner ends the stream
\* from inside a call that tells it something.
ReleasedIsDrained ==
  stage = "released" => completions = {} /\ ~registered /\ (opened > 0 => finished)

\* What makes the properties inductive.  Shutdown concludes from empty completions that the call
\* never started; that is right because a started call always has a read pending until it is
\* finished (ReadsPending).
ReadsPending ==
  /\ opened = 1 /\ ~finished => \E c \in completions : c.type = "Read"
  /\ \A c \in completions : c.type = "Read" => c.n = got + 1
  /\ \A c \in completions : c.type = "Read" /\ finished => control \in {"asking", "cancelling"}
  /\ \A c \in completions : c.type = "Finish" => finished /\ control \notin {"asking", "cancelling"}

OpenedOnce ==
  /\ opened \in {0, 1}
  /\ opened = 0 => completions = {} /\ ~finished /\ got = 0 /\ stage # "started"
  /\ stage = "new" => opened = 0

WriterIdle ==
  ~active => buffered = <<>> /\ \A c \in completions : c.type # "Write"

EndedOnce ==
  /\ ~observer => completions = {} /\ control \in {"free", "told"} /\ ~registered
  /\ ~observer /\ opened = 1 => finished
  /\ ended \in {0, 1}
  /\ ended = 1 => ~observer
  /\ stage = "released" => ~observer
  /\ control \in {"cancelling", "closing"} => ~registered /\ (opened = 1 => finished)
  /\ control \in {"asking", "cancelling"} => finished
  /\ quit /\ observer => control \in {"lastWrite", "cancelling", "closing"}
  /\ control \in {"cancelling", "closing"} /\ notify => ~quit /\ opened = 1

\* Messages go to gRPC in the order in which they were written, none twice and none left out
\* before a later one, over any number of buffered writes.
WritesInOrder ==
  /\ Len(wire) + Len(buffered) = accepted
  /\ \A i \in 1 .. Len(wire) : wire[i] = i
  /\ \A i \in 1 .. Len(buffered) : buffered[i] = Len(wire) + i

IInv == CallRules /\ ReadsPending /\ OpenedOnce /\ WriterIdle /\ EndedOnce /\ WritesInOrder

Contract == INSTANCE StreamContract WITH over <- quit \/ ~observer

\* What the observer is told follows the contract of GrpcStreamObserver: start first, messages
\* in order and without gap, one end, and silence after the client has finished the stream.
ImplementsContract == Contract!Spec

\* The worker queue, which every listener of the app shares, is never blocked for good: the
\* operations that a blocking call waits for come back.
BlockingCallsReturn == (control \in Blocked) ~> (control \notin Blocked)

\* A call that breaks is found out: the observer is told, unless the client finishes first.
FailureReported == (broken /\ stage = "started") ~> ~observer
===============================================================================
