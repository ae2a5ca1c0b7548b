--------------------------- MODULE GrpcStreamProofs ---------------------------
(***************************************************************************)
(* Proofs about GrpcStream, for any number of messages in both directions. *)
(*                                                                         *)
(* The inductive invariant is IInv of GrpcStream.  Its heart is            *)
(* ReadsPending: Shutdown decides whether there is a call to finish by     *)
(* looking whether completions are left, and a started call that is not    *)
(* finished always has its read among them, inside a call to the observer  *)
(* too.                                                                    *)
(***************************************************************************)
EXTENDS GrpcStream, TLAPS

\* A completion that is new or handed back is a completion of its type and number.
LEMMA CompletionType ==
  ASSUME NEW n \in Nat, NEW type \in {"Read", "Write", "Finish"}
  PROVE  /\ Completion(type, n) \in Completions
         /\ Completion(type, n).type = type
         /\ Completion(type, n).n = n
         /\ Completion(type, n).at = "grpc"
BY DEF Completion, Completions

LEMMA ReturnType ==
  ASSUME NEW c \in Completions, NEW how \in {"grpc", "ok", "failed"}
  PROVE  /\ [c EXCEPT !.at = how] \in Completions
         /\ [c EXCEPT !.at = how].type = c.type
         /\ [c EXCEPT !.at = how].n = c.n
BY DEF Completions

LEMMA EmptyTypes == {} \in SUBSET Completions /\ <<>> \in Seq(Nat)
OBVIOUS

\* What TryStartWrite does to the types of the writer.
LEMMA TryStartWriteType ==
  ASSUME NEW queue \in Seq(Nat), NEW issued \in SUBSET Completions, NEW busy \in BOOLEAN,
         wire \in Seq(Nat), TryStartWrite(queue, issued, busy)
  PROVE  /\ buffered' \in Seq(Nat) /\ wire' \in Seq(Nat) /\ active' \in BOOLEAN
         /\ completions' \in SUBSET Completions
<1>1. CASE busy \/ queue = <<>>
  <2>1. buffered' = queue /\ active' = busy /\ completions' = issued /\ wire' = wire
    BY <1>1 DEF TryStartWrite
  <2>2. QED  BY <2>1
<1>2. CASE ~(busy \/ queue = <<>>)
  <2>1. Head(queue) \in Nat /\ Tail(queue) \in Seq(Nat)
    BY <1>2
  <2>2. Completion("Write", Head(queue)) \in Completions
    BY <2>1, CompletionType
  <2>3. buffered' = Tail(queue) /\ active' = TRUE /\ wire' = Append(wire, Head(queue))
        /\ completions' = issued \cup {Completion("Write", Head(queue))}
    BY <1>2 DEF TryStartWrite
  <2>4. wire' \in Seq(Nat)
    BY <2>1, <2>3
  <2>5. QED  BY <2>1, <2>2, <2>3, <2>4
<1>3. QED  BY <1>1, <1>2

\* Type correctness, of every action of the stream, its owner and gRPC.
THEOREM TypeCorrect == Spec => []TypeOK
<1>1. Init => TypeOK
  <2> SUFFICES ASSUME Init PROVE TypeOK
    OBVIOUS
  <2>1. /\ completions \in SUBSET Completions
        /\ buffered \in Seq(Nat) /\ wire \in Seq(Nat)
    BY EmptyTypes DEF Init
  <2>2. QED  BY <2>1 DEF Init, TypeOK, Blocked
<1>2. TypeOK /\ [Next]_vars => TypeOK'
  <2> SUFFICES ASSUME TypeOK, [Next]_vars PROVE TypeOK'
    OBVIOUS
  <2> USE DEF TypeOK, Blocked, Callable
  <2>1. CASE Start
    BY <2>1, CompletionType DEF Start, ownerVars, callVars, writerVars
  <2>2. CASE Write
    <3>1. Append(buffered, accepted + 1) \in Seq(Nat) /\ accepted' \in Nat
      BY <2>2 DEF Write
    <3>2. QED
      BY <2>2, <3>1, TryStartWriteType DEF Write, ownerVars, callVars, observerVars
  <2>3. CASE FinishImmediately
    BY <2>3 DEF FinishImmediately, Shutdown, writerVars, observerVars
  <2>4. CASE WriteAndFinish
    <3>1. CASE finished
      BY <2>4, <3>1 DEF WriteAndFinish, Shutdown, writerVars, observerVars
    <3>2. CASE ~finished
      <4>1. Append(buffered, accepted + 1) \in Seq(Nat) /\ accepted' \in Nat
        BY <2>4, <3>2 DEF WriteAndFinish
      <4>2. buffered' \in Seq(Nat) /\ wire' \in Seq(Nat) /\ active' \in BOOLEAN
            /\ completions' \in SUBSET Completions
        BY <2>4, <3>2, <4>1, TryStartWriteType DEF WriteAndFinish
      <4>3. QED
        BY <2>4, <3>2, <4>1, <4>2 DEF WriteAndFinish, Shutdown, observerVars
    <3>3. QED  BY <3>1, <3>2
  <2>5. CASE Release
    BY <2>5 DEF Release, callVars, writerVars, observerVars
  <2>6. CASE ConnectivityChanged
    BY <2>6 DEF ConnectivityChanged, Shutdown, writerVars, observerVars
  <2>7. CASE LastWriteWaited
    BY <2>7 DEF LastWriteWaited, Shutdown, writerVars, observerVars
  <2>8. CASE ObserverReturns
    BY <2>8 DEF ObserverReturns, ownerVars, callVars, writerVars, observerVars
  <2>9. CASE FinishGrpcCall
    <3>1. completions' = {Completion("Finish", 1)} /\ Completion("Finish", 1) \in Completions
      BY <2>9, CompletionType DEF FinishGrpcCall
    <3>2. QED  BY <2>9, <3>1 DEF FinishGrpcCall, ownerVars, callVars, writerVars, observerVars
  <2>10. CASE Closed
    <3>1. completions' \in SUBSET Completions
      BY <2>10, EmptyTypes DEF Closed
    <3>2. control' \in {"free", "told"} /\ observer' = FALSE /\ ended' \in Nat
      BY <2>10 DEF Closed
    <3>3. QED  BY <2>10, <3>1, <3>2 DEF Closed, ownerVars, callVars, writerVars
  <2>11. ASSUME NEW c \in completions, OnRead(c) PROVE TypeOK'
    <3>1. c.n \in Nat
      BY DEF Completions
    <3>2. Completion("Read", c.n + 1) \in Completions
      BY <3>1, CompletionType
    <3>3. QED  BY <2>11, <3>1, <3>2 DEF OnRead, ownerVars, callVars, writerVars
  <2>12. ASSUME NEW c \in completions, OnWrite(c) PROVE TypeOK'
    <3>1. CASE observer
      BY <2>12, <3>1, TryStartWriteType DEF OnWrite, ownerVars, callVars, observerVars
    <3>2. CASE ~observer
      BY <2>12, <3>2 DEF OnWrite, ownerVars, callVars, observerVars
    <3>3. QED  BY <3>1, <3>2
  <2>13. ASSUME NEW c \in completions, OnOperationFailed(c) PROVE TypeOK'
    BY <2>13 DEF OnOperationFailed, ownerVars, writerVars, observerVars
  <2>14. ASSUME NEW c \in completions, OnFinish(c) PROVE TypeOK'
    BY <2>14 DEF OnFinish, callVars, writerVars, observerVars
  <2>15. ASSUME NEW c \in completions, CompleteOk(c) PROVE TypeOK'
    BY <2>15, ReturnType DEF CompleteOk, Return, ownerVars, callVars, writerVars, observerVars
  <2>16. ASSUME NEW c \in completions, CompleteFailed(c) PROVE TypeOK'
    BY <2>16, ReturnType DEF CompleteFailed, Return, ownerVars, callVars, writerVars, observerVars
  <2>17. CASE CallBreaks
    BY <2>17 DEF CallBreaks, ownerVars, writerVars, observerVars
  <2>18. CASE UNCHANGED vars
    BY <2>18 DEF vars, ownerVars, callVars, writerVars, observerVars
  <2>19. QED
    BY <2>1, <2>2, <2>3, <2>4, <2>5, <2>6, <2>7, <2>8, <2>9, <2>10, <2>11, <2>12, <2>13, <2>14,
       <2>15, <2>16, <2>17, <2>18 DEF Next, Owner, Worker, Grpc
<1>3. QED  BY <1>1, <1>2, PTL DEF Spec

\* Issuing the next message, or none, keeps the order of the messages.
LEMMA TryStartWriteOrder ==
  ASSUME NEW queue \in Seq(Nat), NEW issued, NEW busy \in BOOLEAN, NEW n \in Nat,
         wire \in Seq(Nat), TryStartWrite(queue, issued, busy),
         Len(wire) + Len(queue) = n,
         \A i \in 1 .. Len(wire) : wire[i] = i,
         \A i \in 1 .. Len(queue) : queue[i] = Len(wire) + i
  PROVE  /\ Len(wire') + Len(buffered') = n
         /\ \A i \in 1 .. Len(wire') : wire'[i] = i
         /\ \A i \in 1 .. Len(buffered') : buffered'[i] = Len(wire') + i
<1>1. CASE busy \/ queue = <<>>
  <2>1. buffered' = queue /\ wire' = wire
    BY <1>1 DEF TryStartWrite
  <2>2. QED  BY <2>1
<1>2. CASE ~(busy \/ queue = <<>>)
  <2>1. buffered' = Tail(queue) /\ wire' = Append(wire, Head(queue))
    BY <1>2 DEF TryStartWrite
  <2>2. Head(queue) = Len(wire) + 1 /\ Head(queue) \in Nat
    BY <1>2
  <2>3. /\ Len(wire) \in Nat /\ Len(queue) \in Nat
        /\ Len(wire') = Len(wire) + 1 /\ Len(buffered') = Len(queue) - 1
        /\ wire'[Len(wire) + 1] = Head(queue)
        /\ \A i \in 1 .. Len(wire) : wire'[i] = wire[i]
        /\ \A i \in 1 .. Len(buffered') : buffered'[i] = queue[i + 1]
    BY <1>2, <2>1, <2>2
  <2>4. ASSUME NEW i \in 1 .. Len(wire') PROVE wire'[i] = i
    <3>1. CASE i = Len(wire) + 1
      BY <2>2, <2>3, <3>1
    <3>2. CASE i # Len(wire) + 1
      <4>1. i \in 1 .. Len(wire)
        BY <2>3, <3>2
      <4>2. QED  BY <2>3, <4>1
    <3>3. QED  BY <3>1, <3>2
  <2>5. \A i \in 1 .. Len(buffered') : buffered'[i] = Len(wire') + i
    <3>1. ASSUME NEW i \in 1 .. Len(buffered') PROVE buffered'[i] = Len(wire') + i
      <4>1. i + 1 \in 1 .. Len(queue)
        BY <2>3
      <4>2. queue[i + 1] = Len(wire) + (i + 1)
        BY <4>1
      <4>3. QED  BY <2>3, <4>2
    <3>2. QED  BY <3>1
  <2>6. Len(wire') + Len(buffered') = n
    BY <2>3
  <2>7. QED  BY <2>4, <2>5, <2>6
<1>3. QED  BY <1>1, <1>2

\* A message that is queued takes the next number.
LEMMA AppendOrder ==
  ASSUME wire \in Seq(Nat), buffered \in Seq(Nat), accepted \in Nat, WritesInOrder
  PROVE  LET queue == Append(buffered, accepted + 1) IN
         /\ queue \in Seq(Nat) /\ Len(wire) + Len(queue) = accepted + 1
         /\ \A i \in 1 .. Len(queue) : queue[i] = Len(wire) + i
<1> DEFINE queue == Append(buffered, accepted + 1)
<1>1. /\ queue \in Seq(Nat) /\ Len(queue) = Len(buffered) + 1
      /\ Len(wire) \in Nat /\ Len(buffered) \in Nat
      /\ queue[Len(buffered) + 1] = accepted + 1
      /\ \A i \in 1 .. Len(buffered) : queue[i] = buffered[i]
  OBVIOUS
<1> HIDE DEF queue
<1>2. Len(wire) + Len(buffered) = accepted
  BY DEF WritesInOrder
<1>3. ASSUME NEW i \in 1 .. Len(queue) PROVE queue[i] = Len(wire) + i
  <2>1. CASE i = Len(buffered) + 1
    BY <1>1, <1>2, <2>1
  <2>2. CASE i # Len(buffered) + 1
    <3>1. i \in 1 .. Len(buffered)
      BY <1>1, <2>2
    <3>2. QED  BY <1>1, <2>2, <3>1 DEF WritesInOrder
  <2>3. QED  BY <2>1, <2>2
<1>4. QED  BY <1>1, <1>2, <1>3 DEF queue

\* ... and issues a write only where there is none.
LEMMA TryStartWriteAlone ==
  ASSUME NEW queue \in Seq(Nat), NEW issued \in SUBSET Completions, NEW busy \in BOOLEAN,
         TryStartWrite(queue, issued, busy),
         \A c, d \in issued : c.type = d.type => c = d,
         ~busy => \A c \in issued : c.type # "Write"
  PROVE  /\ \A c, d \in completions' : c.type = d.type => c = d
         /\ \A c \in completions' : c.type # "Write" => c \in issued
         /\ issued \subseteq completions'
         /\ ~active' => buffered' = <<>> /\ \A c \in completions' : c.type # "Write"
<1>1. CASE busy \/ queue = <<>>
  <2>1. completions' = issued /\ active' = busy /\ buffered' = queue
    BY <1>1 DEF TryStartWrite
  <2>2. QED  BY <1>1, <2>1
<1>2. CASE ~(busy \/ queue = <<>>)
  <2>1. Head(queue) \in Nat
    BY <1>2
  <2>2. PICK w \in Completions : w.type = "Write" /\ completions' = issued \cup {w} /\ active' = TRUE
    BY <1>2, <2>1, CompletionType DEF TryStartWrite
  <2>3. QED  BY <1>2, <2>2
<1>3. QED  BY <1>1, <1>2

\* A completion that is handed back stays the only one of its type.
LEMMA ReturnKeeps ==
  ASSUME completions \in SUBSET Completions, NEW c \in completions, NEW how \in {"ok", "failed"},
         Return(c, how), CallRules, ReadsPending, OpenedOnce, WriterIdle,
         UNCHANGED <<opened, finished, got, control, active, buffered, stage>>
  PROVE  CallRules' /\ ReadsPending' /\ OpenedOnce' /\ WriterIdle'
<1>1. PICK r \in Completions : /\ completions' = (completions \ {c}) \cup {r}
                               /\ r.type = c.type /\ r.n = c.n
  BY ReturnType DEF Return
<1>2. CallRules'
  BY <1>1 DEF CallRules
<1>3. ReadsPending'
  <2>1. opened = 1 /\ ~finished => \E d \in completions' : d.type = "Read"
    BY <1>1 DEF ReadsPending
  <2>2. QED  BY <1>1, <2>1 DEF ReadsPending
<1>4. OpenedOnce'
  BY <1>1 DEF OpenedOnce
<1>5. WriterIdle'
  BY <1>1 DEF WriterIdle
<1>6. QED  BY <1>2, <1>3, <1>4, <1>5

\* IInv is preserved by every step.
LEMMA Inductive ==
  ASSUME TypeOK, TypeOK', IInv, [Next]_vars
  PROVE  IInv'
<1> USE DEF TypeOK, Callable, Blocked
<1>1. CASE Start
  <2>1. PICK r \in Completions : r.type = "Read" /\ r.n = 1 /\ completions' = completions \cup {r}
    BY <1>1, CompletionType DEF Start
  <2>2. stage = "new" /\ opened = 0 /\ completions = {} /\ got = 0 /\ ~finished
    BY <1>1 DEF Start, IInv, OpenedOnce
  <2>3. CallRules' /\ ReadsPending' /\ OpenedOnce'
    <3>1. /\ completions' = {r} /\ stage' = "started" /\ opened' = 1 /\ got' = 0
          /\ ~finished' /\ control' = "told"
      <4>1. completions' = {r}
        BY <2>1, <2>2
      <4>2. stage' = "started" /\ control' = "told" /\ opened' = 1
        BY <1>1, <2>2 DEF Start
      <4>3. got' = 0
        BY <1>1, <2>2 DEF Start
      <4>4. ~finished'
        <5>1. UNCHANGED callVars
          BY <1>1, Zenon DEF Start
        <5>2. finished' = finished
          BY <5>1, Zenon DEF callVars
        <5>3. QED  BY <2>2, <5>2, Zenon
      <4>5. QED  BY <4>1, <4>2, <4>3, <4>4, Zenon
    <3>2. QED  BY <2>1, <3>1 DEF CallRules, ReadsPending, OpenedOnce
  <2>4. WriterIdle' /\ EndedOnce' /\ WritesInOrder'
    BY <1>1, <2>1, <2>2 DEF Start, IInv, WriterIdle, EndedOnce, WritesInOrder, callVars, writerVars
  <2>5. QED  BY <2>3, <2>4 DEF IInv
<1>2. CASE Write
  <2> DEFINE queue == Append(buffered, accepted + 1)
  <2>1. /\ queue \in Seq(Nat) /\ Len(wire) + Len(queue) = accepted + 1
        /\ \A i \in 1 .. Len(queue) : queue[i] = Len(wire) + i
        /\ \A i \in 1 .. Len(wire) : wire[i] = i
    BY AppendOrder DEF IInv, WritesInOrder
  <2>2. TryStartWrite(queue, completions, active) /\ accepted' = accepted + 1
    BY <1>2 DEF Write
  <2> HIDE DEF queue
  <2>3. WritesInOrder'
    BY <2>1, <2>2, TryStartWriteOrder DEF WritesInOrder
  <2>4. /\ \A c, d \in completions' : c.type = d.type => c = d
        /\ \A c \in completions' : c.type # "Write" => c \in completions
        /\ completions \subseteq completions'
        /\ WriterIdle'
    <3>1. /\ queue \in Seq(Nat) /\ completions \in SUBSET Completions /\ active \in BOOLEAN
          /\ \A c, d \in completions : c.type = d.type => c = d
          /\ ~active => \A c \in completions : c.type # "Write"
      BY <2>1 DEF IInv, CallRules, WriterIdle
    <3>2. TryStartWrite(queue, completions, active)
      BY <2>2
    <3>3. /\ \A c, d \in completions' : c.type = d.type => c = d
          /\ \A c \in completions' : c.type # "Write" => c \in completions
          /\ completions \subseteq completions'
          /\ ~active' => buffered' = <<>> /\ \A c \in completions' : c.type # "Write"
      BY ONLY <3>1, <3>2, TryStartWriteAlone, SMTT(30)
    <3>4. QED  BY <3>3 DEF WriterIdle
  <2>5. CallRules' /\ ReadsPending' /\ OpenedOnce' /\ EndedOnce'
    BY <1>2, <2>4 DEF Write, IInv, CallRules, ReadsPending, OpenedOnce, EndedOnce, ownerVars, callVars, observerVars
  <2>6. QED  BY <2>3, <2>4, <2>5 DEF IInv
<1>3. CASE FinishImmediately
  BY <1>3 DEF IInv, CallRules, ReadsPending, OpenedOnce, WriterIdle, EndedOnce, WritesInOrder,
     FinishImmediately, Shutdown, writerVars, observerVars
<1>4. CASE WriteAndFinish
  <2>1. CASE finished
    BY <1>4, <2>1 DEF WriteAndFinish, Shutdown, IInv, CallRules, ReadsPending, OpenedOnce, WriterIdle,
       EndedOnce, WritesInOrder, writerVars, observerVars
  <2>2. CASE ~finished
    <3> DEFINE queue == Append(buffered, accepted + 1)
    <3>1. /\ queue \in Seq(Nat) /\ Len(wire) + Len(queue) = accepted + 1
          /\ \A i \in 1 .. Len(queue) : queue[i] = Len(wire) + i
          /\ \A i \in 1 .. Len(wire) : wire[i] = i
      BY AppendOrder DEF IInv, WritesInOrder
    <3>2. TryStartWrite(queue, completions, active) /\ accepted' = accepted + 1
      BY <1>4, <2>2 DEF WriteAndFinish
    <3> HIDE DEF queue
    <3>3. WritesInOrder'
      BY <3>1, <3>2, TryStartWriteOrder DEF WritesInOrder
    <3>4. /\ \A c, d \in completions' : c.type = d.type => c = d
          /\ \A c \in completions' : c.type # "Write" => c \in completions
          /\ completions \subseteq completions'
          /\ WriterIdle'
      <4>1. /\ queue \in Seq(Nat) /\ completions \in SUBSET Completions /\ active \in BOOLEAN
            /\ \A c, d \in completions : c.type = d.type => c = d
            /\ ~active => \A c \in completions : c.type # "Write"
        BY <3>1 DEF IInv, CallRules, WriterIdle
      <4>2. TryStartWrite(queue, completions, active)
        BY <3>2
      <4>3. /\ \A c, d \in completions' : c.type = d.type => c = d
            /\ \A c \in completions' : c.type # "Write" => c \in completions
            /\ completions \subseteq completions'
            /\ ~active' => buffered' = <<>> /\ \A c \in completions' : c.type # "Write"
        BY ONLY <4>1, <4>2, TryStartWriteAlone, SMTT(30)
      <4>4. QED  BY <4>3 DEF WriterIdle
    <3>5. \E r \in completions : r.type = "Read"
      BY <1>4, <2>2 DEF WriteAndFinish, IInv, ReadsPending, OpenedOnce
    <3>6. CallRules' /\ ReadsPending' /\ OpenedOnce'
      BY <1>4, <2>2, <3>4, <3>5 DEF WriteAndFinish, Shutdown, IInv, CallRules, ReadsPending, OpenedOnce, observerVars
    <3>7. EndedOnce'
      BY <1>4, <2>2, <3>5 DEF WriteAndFinish, Shutdown, IInv, EndedOnce, OpenedOnce, observerVars
    <3>8. QED  BY <3>3, <3>4, <3>6, <3>7 DEF IInv
  <2>3. QED  BY <2>1, <2>2
<1>5. CASE Release
  BY <1>5 DEF IInv, CallRules, ReadsPending, OpenedOnce, WriterIdle, EndedOnce, WritesInOrder,
     Release, callVars, writerVars, observerVars
<1>6. CASE ConnectivityChanged
  BY <1>6 DEF IInv, CallRules, ReadsPending, OpenedOnce, WriterIdle, EndedOnce, WritesInOrder,
     ConnectivityChanged, Shutdown, writerVars, observerVars
<1>7. CASE LastWriteWaited
  BY <1>7 DEF IInv, CallRules, ReadsPending, OpenedOnce, WriterIdle, EndedOnce, WritesInOrder,
     LastWriteWaited, Shutdown, writerVars, observerVars
<1>8. CASE ObserverReturns
  BY <1>8 DEF IInv, CallRules, ReadsPending, OpenedOnce, WriterIdle, EndedOnce, WritesInOrder,
     ObserverReturns, ownerVars, callVars, writerVars, observerVars
<1>9. CASE FinishGrpcCall
  <2>1. PICK f \in Completions : f.type = "Finish" /\ completions' = {f}
    BY <1>9, CompletionType DEF FinishGrpcCall
  <2>2. finished /\ opened = 1
    BY <1>9 DEF FinishGrpcCall, IInv, EndedOnce, OpenedOnce
  <2>3. CallRules' /\ ReadsPending' /\ OpenedOnce'
    BY <1>9, <2>1, <2>2 DEF FinishGrpcCall, CallRules, ReadsPending, OpenedOnce, IInv, ownerVars, callVars, observerVars
  <2>4. WriterIdle' /\ EndedOnce' /\ WritesInOrder'
    BY <1>9, <2>1, <2>2 DEF FinishGrpcCall, IInv, WriterIdle, EndedOnce, WritesInOrder, ownerVars, callVars, writerVars, observerVars
  <2>5. QED  BY <2>3, <2>4 DEF IInv
<1>10. CASE Closed
  BY <1>10 DEF IInv, CallRules, ReadsPending, OpenedOnce, WriterIdle, EndedOnce, WritesInOrder,
     Closed, OffQueue, ownerVars, callVars, writerVars
<1>11. ASSUME NEW c \in completions, OnRead(c) PROVE IInv'
  <2>1. c.type = "Read" /\ c.n = got + 1 /\ c.n \in Nat /\ ~finished /\ observer /\ opened = 1
    BY <1>11 DEF OnRead, IInv, ReadsPending, OpenedOnce, EndedOnce, Completions
  <2>2. PICK r \in Completions : /\ r.type = "Read" /\ r.n = c.n + 1
                                 /\ completions' = (completions \ {c}) \cup {r}
    <3>1. Completion("Read", c.n + 1) \in Completions
          /\ Completion("Read", c.n + 1).type = "Read" /\ Completion("Read", c.n + 1).n = c.n + 1
      BY <2>1, CompletionType
    <3>2. completions' = (completions \ {c}) \cup {Completion("Read", c.n + 1)}
      BY <1>11, <2>1 DEF OnRead
    <3>3. QED  BY <3>1, <3>2
  <2>3. got' = c.n
    BY <1>11, <2>1 DEF OnRead
  <2>4. CallRules' /\ ReadsPending' /\ OpenedOnce'
    BY <1>11, <2>1, <2>2, <2>3 DEF OnRead, IInv, CallRules, ReadsPending, OpenedOnce, ownerVars, callVars
  <2>5. WriterIdle' /\ EndedOnce' /\ WritesInOrder'
    BY <1>11, <2>1, <2>2 DEF OnRead, IInv, WriterIdle, EndedOnce, WritesInOrder, ownerVars, callVars, writerVars
  <2>6. QED  BY <2>4, <2>5 DEF IInv
<1>12. ASSUME NEW c \in completions, OnWrite(c) PROVE IInv'
  <2>1. c.type = "Write" /\ observer
    BY <1>12 DEF OnWrite, IInv, EndedOnce
  <2>2. TryStartWrite(buffered, completions \ {c}, FALSE) /\ accepted' = accepted
    BY <1>12, <2>1 DEF OnWrite
  <2>3. WritesInOrder'
    BY <2>2, TryStartWriteOrder DEF IInv, WritesInOrder
  <2>4. \A d \in completions \ {c} : d.type # "Write"
    BY <2>1 DEF IInv, CallRules
  <2>5. /\ \A a, b \in completions' : a.type = b.type => a = b
        /\ \A a \in completions' : a.type # "Write" => a \in completions \ {c}
        /\ completions \ {c} \subseteq completions'
        /\ WriterIdle'
    <3>1. completions \ {c} \in SUBSET Completions
      OBVIOUS
    <3>2. \A a, b \in completions \ {c} : a.type = b.type => a = b
      BY DEF IInv, CallRules
    <3>3. QED  BY <2>2, <2>4, <3>1, <3>2, TryStartWriteAlone DEF WriterIdle
  <2>6. CallRules' /\ ReadsPending' /\ OpenedOnce' /\ EndedOnce'
    BY <1>12, <2>1, <2>5 DEF OnWrite, IInv, CallRules, ReadsPending, OpenedOnce, EndedOnce, ownerVars, callVars, observerVars
  <2>7. QED  BY <2>3, <2>5, <2>6 DEF IInv
<1>13. ASSUME NEW c \in completions, OnOperationFailed(c) PROVE IInv'
  BY <1>13 DEF IInv, CallRules, ReadsPending, OpenedOnce, WriterIdle, EndedOnce, WritesInOrder,
     OnOperationFailed, ownerVars, writerVars, observerVars
<1>14. ASSUME NEW c \in completions, OnFinish(c) PROVE IInv'
  BY <1>14 DEF IInv, CallRules, ReadsPending, OpenedOnce, WriterIdle, EndedOnce, WritesInOrder,
     OnFinish, callVars, writerVars, observerVars
<1>15. ASSUME NEW c \in completions, CompleteOk(c) PROVE IInv'
  <2>1. CallRules' /\ ReadsPending' /\ OpenedOnce' /\ WriterIdle'
    BY <1>15, ReturnKeeps DEF CompleteOk, IInv, ownerVars, callVars, writerVars, observerVars
  <2>2. EndedOnce' /\ WritesInOrder'
    BY <1>15 DEF CompleteOk, IInv, EndedOnce, WritesInOrder, ownerVars, callVars, writerVars, observerVars
  <2>3. QED  BY <2>1, <2>2 DEF IInv
<1>16. ASSUME NEW c \in completions, CompleteFailed(c) PROVE IInv'
  <2>1. CallRules' /\ ReadsPending' /\ OpenedOnce' /\ WriterIdle'
    BY <1>16, ReturnKeeps DEF CompleteFailed, IInv, ownerVars, callVars, writerVars, observerVars
  <2>2. EndedOnce' /\ WritesInOrder'
    BY <1>16 DEF CompleteFailed, IInv, EndedOnce, WritesInOrder, ownerVars, callVars, writerVars, observerVars
  <2>3. QED  BY <2>1, <2>2 DEF IInv
<1>17. CASE CallBreaks
  BY <1>17 DEF IInv, CallRules, ReadsPending, OpenedOnce, WriterIdle, EndedOnce, WritesInOrder,
     CallBreaks, ownerVars, writerVars, observerVars
<1>18. CASE UNCHANGED vars
  BY <1>18 DEF IInv, CallRules, ReadsPending, OpenedOnce, WriterIdle, EndedOnce, WritesInOrder, vars,
     ownerVars, callVars, writerVars, observerVars
<1>19. QED
  BY <1>1, <1>2, <1>3, <1>4, <1>5, <1>6, <1>7, <1>8, <1>9,
     <1>10, <1>11, <1>12, <1>13, <1>14, <1>15, <1>16, <1>17, <1>18 DEF Next, Owner, Worker, Grpc

\* IInv holds of every reachable state.
LEMMA Invariance == Spec => [](TypeOK /\ IInv)
<1>1. Init => IInv
  <2> SUFFICES ASSUME Init PROVE IInv
    OBVIOUS
  <2>1. CallRules /\ ReadsPending /\ OpenedOnce /\ WriterIdle /\ EndedOnce
    BY DEF Init, CallRules, ReadsPending, OpenedOnce, WriterIdle, EndedOnce
  <2>2. WritesInOrder
    BY DEF Init, WritesInOrder
  <2>3. QED  BY <2>1, <2>2 DEF IInv
<1>2. TypeOK /\ TypeOK' /\ IInv /\ [Next]_vars => IInv'
  BY Inductive
<1>3. Spec => []TypeOK
  BY TypeCorrect
<1>4. QED  BY <1>1, <1>2, <1>3, PTL DEF Spec

\* The calls of a stream keep the rules of gRPC, for any number of messages.
THEOREM CallsWellFormed == Spec => []CallRules
<1>1. IInv => CallRules
  BY DEF IInv
<1>2. QED  BY <1>1, Invariance, PTL

\* A stream that is destroyed has nothing left in gRPC and has finished its call.
THEOREM DrainedAtRelease == Spec => []ReleasedIsDrained
<1>1. TypeOK /\ IInv => ReleasedIsDrained
  BY DEF TypeOK, IInv, EndedOnce, OpenedOnce, ReleasedIsDrained
<1>2. QED  BY <1>1, Invariance, PTL

\* Messages reach gRPC in the order in which they were written.
THEOREM WriteOrder == Spec => []WritesInOrder
<1>1. IInv => WritesInOrder
  BY DEF IInv
<1>2. QED  BY <1>1, Invariance, PTL

\* Steps that change nothing the observer sees, and steps after which it hears nothing more.
LEMMA SilentStep ==
  ASSUME UNCHANGED <<opened, got, ended>>,
         quit \in BOOLEAN, observer \in BOOLEAN, quit' \in BOOLEAN, observer' \in BOOLEAN,
         quit \/ ~observer => quit' \/ ~observer'
  PROVE  [Contract!Next]_(Contract!vars)
<1>1. CASE (quit \/ ~observer) = (quit' \/ ~observer')
  BY <1>1 DEF Contract!vars
<1>2. CASE (quit \/ ~observer) # (quit' \/ ~observer')
  BY <1>2 DEF Contract!Next, Contract!Hush
<1>3. QED  BY <1>1, <1>2

\* Every step of the stream is a step of the contract or is not seen by the observer.
LEMMA StepRefines ==
  ASSUME TypeOK, TypeOK', IInv, [Next]_vars
  PROVE  [Contract!Next]_(Contract!vars)
<1> USE DEF TypeOK, Callable, Blocked
<1>1. CASE Start
  <2>1. ~quit /\ observer /\ opened = 0
    BY <1>1 DEF Start, IInv, OpenedOnce, EndedOnce
  <2>2. opened' = 1 /\ UNCHANGED <<got, ended, observer, quit>>
    BY <1>1, <2>1 DEF Start
  <2>3. Contract!TellStart
    BY <2>1, <2>2 DEF Contract!TellStart
  <2>4. QED  BY <2>3 DEF Contract!Next
<1>2. CASE Write
  BY <1>2, SilentStep DEF Write, ownerVars, observerVars
<1>3. CASE FinishImmediately
  BY <1>3, SilentStep DEF FinishImmediately, observerVars
<1>4. CASE WriteAndFinish
  BY <1>4, SilentStep DEF WriteAndFinish, observerVars
<1>5. CASE Release
  BY <1>5, SilentStep DEF Release, observerVars
<1>6. CASE ConnectivityChanged
  BY <1>6, SilentStep DEF ConnectivityChanged, observerVars
<1>7. CASE LastWriteWaited
  BY <1>7, SilentStep DEF LastWriteWaited, observerVars
<1>8. CASE ObserverReturns
  BY <1>8, SilentStep DEF ObserverReturns, ownerVars, observerVars
<1>9. CASE FinishGrpcCall
  BY <1>9, SilentStep DEF FinishGrpcCall, ownerVars, observerVars
<1>10. CASE Closed
  <2>1. CASE notify /\ observer
    <3>1. ~quit /\ opened = 1 /\ ended = 0
      BY <1>10, <2>1 DEF Closed, IInv, EndedOnce
    <3>2. ended' = 1 /\ observer' = FALSE /\ UNCHANGED <<opened, got, quit>>
      BY <1>10, <2>1, <3>1 DEF Closed, ownerVars
    <3>3. Contract!TellFinish
      BY <2>1, <3>1, <3>2 DEF Contract!TellFinish
    <3>4. QED  BY <3>3 DEF Contract!Next
  <2>2. CASE ~(notify /\ observer)
    BY <1>10, <2>2, SilentStep DEF Closed, ownerVars
  <2>3. QED  BY <2>1, <2>2
<1>11. ASSUME NEW c \in completions, OnRead(c) PROVE [Contract!Next]_(Contract!vars)
  <2>1. c.type = "Read" /\ c.n = got + 1 /\ observer /\ opened = 1 /\ ~quit
    BY <1>11 DEF OnRead, IInv, ReadsPending, OpenedOnce, EndedOnce
  <2>2. got' = got + 1 /\ UNCHANGED <<opened, ended, observer, quit>>
    BY <1>11, <2>1 DEF OnRead, ownerVars
  <2>3. Contract!TellRead
    BY <2>1, <2>2 DEF Contract!TellRead
  <2>4. QED  BY <2>3 DEF Contract!Next
<1>12. ASSUME NEW c \in completions, OnWrite(c) PROVE [Contract!Next]_(Contract!vars)
  BY <1>12, SilentStep DEF OnWrite, ownerVars, observerVars
<1>13. ASSUME NEW c \in completions, OnOperationFailed(c) PROVE [Contract!Next]_(Contract!vars)
  BY <1>13, SilentStep DEF OnOperationFailed, ownerVars, observerVars
<1>14. ASSUME NEW c \in completions, OnFinish(c) PROVE [Contract!Next]_(Contract!vars)
  BY <1>14, SilentStep DEF OnFinish, observerVars
<1>15. ASSUME NEW c \in completions, CompleteOk(c) PROVE [Contract!Next]_(Contract!vars)
  BY <1>15, SilentStep DEF CompleteOk, ownerVars, observerVars
<1>16. ASSUME NEW c \in completions, CompleteFailed(c) PROVE [Contract!Next]_(Contract!vars)
  BY <1>16, SilentStep DEF CompleteFailed, ownerVars, observerVars
<1>17. CASE CallBreaks
  BY <1>17, SilentStep DEF CallBreaks, ownerVars, observerVars
<1>18. CASE UNCHANGED vars
  BY <1>18, SilentStep DEF vars, ownerVars, observerVars
<1>19. QED
  BY <1>1, <1>2, <1>3, <1>4, <1>5, <1>6, <1>7, <1>8, <1>9,
     <1>10, <1>11, <1>12, <1>13, <1>14, <1>15, <1>16, <1>17, <1>18 DEF Next, Owner, Worker, Grpc

\* The stream implements the contract of its observer, whatever calls, failures and
\* connectivity changes come together.
THEOREM StreamImplementsContract == Spec => ImplementsContract
<1>1. Init => Contract!Init
  BY DEF Init, Contract!Init
<1>2. TypeOK /\ TypeOK' /\ IInv /\ [Next]_vars => [Contract!Next]_(Contract!vars)
  BY StepRefines
<1>3. QED  BY <1>1, <1>2, TypeCorrect, Invariance, PTL DEF Spec, ImplementsContract, Contract!Spec
===============================================================================
