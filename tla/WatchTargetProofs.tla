------------------------- MODULE WatchTargetProofs -------------------------
(***************************************************************************)
(* Proofs about WatchTarget, for any finite collection, any history of     *)
(* writes and any order of listens, messages, breaks, crashes, resets,     *)
(* filters and rejections.                                                 *)
(*                                                                         *)
(* The inductive invariant is WatchInvariant, below.  Its heart is         *)
(* QueueFits: it looks ahead in the messages under way to each point at    *)
(* which a consistent snapshot will be raised, and says of every document  *)
(* that whoever speaks of it last before that point, a message or else the *)
(* device itself, is right about it at the version of the point, or that   *)
(* the document is dead and a filter on the way will show it.  When a      *)
(* snapshot is taken in, its point is the first message, nobody speaks     *)
(* before it, and the device is right.                                     *)
(***************************************************************************)
EXTENDS WatchTarget, FiniteSetTheorems, WellFoundedInduction, TLAPS

-----------------------------------------------------------------------------
(* Types.                                                                  *)

Log == log \in Seq([doc : Docs, live : BOOLEAN])
Token == Nat \cup {NoToken}
Kinds == {"none", "added", "modified", "removed"}
TargetState == [exists : {TRUE}, outstanding : Int, current : BOOLEAN, token : Token,
                changes : [Docs -> Kinds], pending : BOOLEAN]
AbsentState == [exists : {FALSE}, outstanding : Int]
Requests == [type : {"watch", "unwatch"}, token : Token]
Messages == [type : {"doc", "gone"}, doc : Docs, version : Nat]
              \cup [type : {"added", "removed", "reset", "rejected"}, token : {NoToken}]
              \cup [type : {"current"}, token : Nat]
              \cup [type : {"filter"}, count : Nat]
              \cup [type : {"snapshot"}, version : Nat, token : Token]

ServerTypes == Log /\ watched \in [on : BOOLEAN, sent : Nat]
DeviceTypes == saved \in Token /\ keys \subseteq Docs /\ cache \in [Docs -> Nat]
MemoryTypes == /\ listening \in BOOLEAN /\ local \in Token /\ listen \in Token
               /\ view \in [current : BOOLEAN, at : Nat]
StreamTypes == /\ connected \in BOOLEAN
               /\ toServer \in Seq(Requests) /\ toClient \in Seq(Messages)
               /\ target \in TargetState \cup AbsentState
               /\ updates \in [Docs -> Nat] /\ resets \in BOOLEAN
HistoryTypes == repair \in {"none", "pending", "lost"} /\ crossed \in BOOLEAN
TypeOK == ServerTypes /\ DeviceTypes /\ MemoryTypes /\ StreamTypes /\ HistoryTypes

-----------------------------------------------------------------------------
(* The messages under way: what a target collects is closed by a snapshot  *)
(* before the next answer, a filter counts for the snapshot behind it, and *)
(* no message is ahead of the server.                                      *)

Answers == {"added", "removed"}

(* A snapshot comes at or after place a, and no answer before it.          *)
Flushes(a) ==
  \E j \in 1..Len(toClient) :
    /\ j >= a /\ toClient[j].type = "snapshot"
    /\ \A k \in 1..Len(toClient) : a <= k /\ k < j => toClient[k].type \notin Answers

BatchesEnd ==
  \A k \in 1..Len(toClient) :
    toClient[k].type \in {"doc", "gone", "filter", "current", "reset"} => Flushes(k)
FiltersCount ==
  \A k \in 1..Len(toClient) : toClient[k].type = "filter" =>
    /\ k + 1 \in 1..Len(toClient) /\ toClient[k + 1].type = "snapshot"
    /\ toClient[k].count = Cardinality(Live(toClient[k + 1].version))
ContentsBound ==
  \A k \in 1..Len(toClient) : toClient[k].type \in {"doc", "gone"} =>
    toClient[k].version <= LastWrite(toClient[k].doc, Version)
VersionsBound ==
  /\ watched.sent <= Version
  /\ \A k \in 1..Len(toClient) :
       /\ toClient[k].type = "snapshot" => /\ toClient[k].version <= Version
                                           /\ toClient[k].token <= toClient[k].version
       /\ toClient[k].type = "current" => toClient[k].token <= Version
VersionsGrow ==
  \A k, j \in 1..Len(toClient) : k < j /\ toClient[j].type = "snapshot" =>
    /\ toClient[k].type = "current" => toClient[k].token <= toClient[j].version
    /\ toClient[k].type = "snapshot" => toClient[k].version <= toClient[j].version
QueueOK == BatchesEnd /\ FiltersCount /\ ContentsBound /\ VersionsBound /\ VersionsGrow

-----------------------------------------------------------------------------
(* The device and its stream.                                              *)

(* Without a stream nothing is under way and nothing is collected.         *)
AbsentIsEmpty == ~target.exists => target.outstanding = 0
Disconnected ==
  ~connected => /\ toServer = <<>> /\ toClient = <<>> /\ target = NoTarget /\ updates = NoUpdates
                /\ ~resets /\ ~watched.on

(* What is collected is closed by a snapshot before the next answer; after *)
(* a mismatch it is the next message.                                      *)
PendingFlush == updates # NoUpdates \/ resets => Flushes(1)
Whole == resets => target.exists /\ 1 \in 1..Len(toClient) /\ toClient[1].type = "snapshot"
DeviceOK == AbsentIsEmpty /\ Disconnected /\ PendingFlush /\ Whole

(* No version and no token the device has is ahead of the server, nor of   *)
(* the snapshots under way.                                                *)
TokenKnown(t) ==
  t <= Version /\ \A k \in 1..Len(toClient) : toClient[k].type = "snapshot" => t <= toClient[k].version
TokensKnown ==
  /\ TokenKnown(saved) /\ TokenKnown(local) /\ TokenKnown(listen)
  /\ target.exists => TokenKnown(target.token)
ContentsKnown ==
  /\ \A d \in Docs : cache[d] <= LastWrite(d, Version) /\ updates[d] <= LastWrite(d, Version)
  /\ view.at <= Version
BoundsKept == TokensKnown /\ ContentsKnown

(* The target awaits one answer for every request and answer under way.    *)
AnswerPlaces == {k \in 1..Len(toClient) : toClient[k].type \in Answers}
Answered(a) == \A j \in 1..Len(toClient) : j >= a => toClient[j].type \notin Answers
Counted == ~crossed /\ connected => target.outstanding = Len(toServer) + Cardinality(AnswerPlaces)

(* The query that is listened to was asked for last: its listen is the     *)
(* last request under way, or no answer after the last removal is missing. *)
Superseded(k) == \E j \in 1..Len(toClient) : j > k /\ toClient[j].type \in Answers
NoRemovalLast == \A k \in 1..Len(toClient) : toClient[k].type = "removed" => Superseded(k)
Asked ==
  ~crossed /\ connected /\ listening =>
    /\ toServer # <<>> => toServer[Len(toServer)] = Watch(listen)
    /\ toServer = <<>> => NoRemovalLast
    /\ target.exists

(* What the device will hold after the next snapshot.                      *)
Kind(d) == IF Active /\ target.exists THEN target.changes[d] ELSE "none"
Renewed(d) == Kind(d) \in {"added", "modified"}
Held(d) == Renewed(d) \/ (Kind(d) = "none" /\ d \in keys)

(* The changes of an active target fit the keys, and nothing is left of    *)
(* them when there is nothing to tell; after a mismatch no document is     *)
(* held.                                                                   *)
Recorded ==
  ~crossed /\ Active /\ target.exists =>
    /\ ~target.pending => updates = NoUpdates /\ \A d \in Docs : target.changes[d] = "none"
    /\ \A d \in Docs : /\ target.changes[d] = "added" => d \notin keys
                       /\ target.changes[d] \in {"modified", "removed"} => d \in keys
Emptied ==
  resets /\ ~crossed /\ Active => target.pending /\ target.token = NoToken /\ \A d \in Docs : ~Held(d)

-----------------------------------------------------------------------------
(* What the messages under way will make of the device.                    *)

(* The points are the snapshots after the last answer, and the end, where  *)
(* the server will go on telling; each has a version.                      *)
Point(i) ==
  /\ i \in 1..(Len(toClient) + 1) /\ Answered(i)
  /\ i \in 1..Len(toClient) => toClient[i].type = "snapshot"
At(i) == IF i \in 1..Len(toClient) THEN toClient[i].version ELSE watched.sent

(* Who speaks of a document among the messages after the last answer; a    *)
(* reset speaks of all.                                                    *)
Speaks(k, d) ==
  (toClient[k].type \in {"doc", "gone"} /\ toClient[k].doc = d) \/ toClient[k].type = "reset"
Silent(d, a, b) == \A k \in 1..Len(toClient) : a <= k /\ k < b /\ Answered(k) => ~Speaks(k, d)
Filtered(a, b) ==
  \E k \in 1..Len(toClient) : a <= k /\ k < b /\ Answered(k) /\ toClient[k].type = "filter"
NoReset(a, b) ==
  \A k \in 1..Len(toClient) : a <= k /\ k < b /\ Answered(k) => toClient[k].type # "reset"

(* What is true of a document at a version, and what the device and each   *)
(* message make of it: its contents, or that it is dead.                   *)
Dead == -1
Truth(d, v) == IF Lives(d, v) THEN LastWrite(d, v) ELSE Dead
Known(d) ==
  IF Renewed(d) \/ (updates[d] # 0 /\ updates[d] >= cache[d]) THEN updates[d] ELSE cache[d]
StateClaim(d) == IF Held(d) THEN Known(d) ELSE Dead
Claim(k, d) ==
  IF toClient[k].type = "doc" THEN toClient[k].version
  ELSE IF toClient[k].type = "snapshot" THEN Truth(d, toClient[k].version) ELSE Dead

(* Whoever speaks last before a point is right about it, unless the        *)
(* document is dead and a filter will tell; and by then the target is      *)
(* marked current.                                                         *)
StateFits(i) ==
  \A d \in Docs : Silent(d, 1, i) =>
    StateClaim(d) = Truth(d, At(i)) \/ (Truth(d, At(i)) = Dead /\ Filtered(1, i))
PlaceFits(k, i) ==
  \A d \in Docs : (Speaks(k, d) \/ toClient[k].type = "snapshot") /\ Silent(d, k + 1, i) =>
    Claim(k, d) = Truth(d, At(i)) \/ (Truth(d, At(i)) = Dead /\ Filtered(k + 1, i))
GetsCurrent(i) ==
  \/ Active /\ target.exists /\ target.current /\ target.token # NoToken /\ NoReset(1, i)
  \/ \E k \in 1..Len(toClient) :
       k < i /\ Answered(k) /\ toClient[k].type = "current" /\ NoReset(k + 1, i)
PointFits(i) ==
  /\ StateFits(i) /\ GetsCurrent(i)
  /\ \A k \in 1..Len(toClient) : k < i /\ Answered(k) => PlaceFits(k, i)

Following ==
  listening /\ connected /\ toServer = <<>> /\ ~crossed /\ repair # "lost" /\ ~resets
QueueFits == Following => \A i \in 1..(Len(toClient) + 1) : Point(i) => PointFits(i)

-----------------------------------------------------------------------------
(* The tokens the client may ask with fit what it has.                     *)

Fits(t) ==
  \A d \in Docs : LastWrite(d, Version) <= t =>
    /\ d \in keys <=> Lives(d, Version)
    /\ d \in keys => cache[d] = LastWrite(d, Version)
TokensFit ==
  ~crossed => /\ repair = "none" => Fits(saved) /\ Fits(local)
              /\ repair # "lost" => Fits(listen)

(* A device without a token holds nothing, a repair in progress asks from  *)
(* the start, and a query nobody listens to has no state in memory.        *)
TokenOrNothing ==
  /\ local # NoToken => saved # NoToken
  /\ ~crossed /\ repair # "lost" =>
       /\ saved = NoToken => keys = {}
       /\ listening /\ listen = NoToken => keys = {}
  /\ ~crossed /\ repair = "pending" => listening /\ listen = NoToken
  /\ ~listening => local = NoToken /\ listen = NoToken /\ ~view.current

(* The view, marked current, is the collection at its version, and updates *)
(* that no target records are none.                                        *)
Complete(v) == keys = Live(v) /\ \A d \in keys : cache[d] = LastWrite(d, v)
NothingLoose == ~(Active /\ target.exists) => updates = NoUpdates
ViewFits == Sound /\ listening /\ view.current => Complete(view.at) /\ NothingLoose

-----------------------------------------------------------------------------
(* The inductive invariant.                                                *)

DeviceKnows ==
  /\ TypeOK /\ QueueOK /\ DeviceOK /\ BoundsKept /\ Counted /\ Asked /\ Recorded /\ Emptied
  /\ TokensFit /\ TokenOrNothing
WatchInvariant == DeviceKnows /\ QueueFits /\ ViewFits

-----------------------------------------------------------------------------
(* Numbers and the history of writes.                                      *)

LEMMA LeastExists ==
  ASSUME NEW S, S \subseteq Nat, S # {}
  PROVE  \E x \in S : \A y \in S : x <= y
<1> DEFINE R == OpToRel(<, Nat)
<1>1. \A x, y \in Nat : <<y, x>> \in R <=> y < x
  BY DEF OpToRel
<1>2. IsWellFoundedOn(R, Nat)
  BY NatLessThanWellFounded
<1> HIDE DEF R
<1>3. PICK x \in S : \A y \in S : ~(<<y, x>> \in R)
  BY <1>2, WFMin
<1>4. ASSUME NEW y \in S PROVE x <= y
  <2>1. x \in Nat /\ y \in Nat /\ ~(y < x)
    BY <1>1, <1>3
  <2> QED
    BY <2>1
<1> QED
  BY <1>4

LEMMA GreatestExists ==
  ASSUME NEW S, S \subseteq Nat, S # {}, NEW n \in Nat, \A s \in S : s <= n
  PROVE  Max(S) \in S /\ \A s \in S : s <= Max(S)
<1> DEFINE T == {n - s : s \in S}
<1>1. ASSUME NEW s \in S PROVE s \in Nat /\ n - s \in Nat
  <2>1. s \in Nat /\ s <= n
    OBVIOUS
  <2> QED
    BY <2>1
<1>2. T \subseteq Nat /\ T # {}
  BY <1>1
<1>3. PICK x \in T : \A y \in T : x <= y
  <2> HIDE DEF T
  <2> QED
    BY <1>2, LeastExists
<1>4. PICK s \in S : x = n - s
  OBVIOUS
<1>5. ASSUME NEW y \in S PROVE s >= y
  <2>1. n - s <= n - y
    BY <1>3, <1>4
  <2> QED
    BY <1>1, <2>1
<1>6. \E m \in S : \A y \in S : m >= y
  BY <1>5
<1>7. Max(S) \in S /\ \A y \in S : Max(S) >= y
  BY <1>6 DEF Max
<1>8. ASSUME NEW y \in S PROVE y <= Max(S)
  <2>1. y \in Nat /\ Max(S) \in Nat /\ Max(S) >= y
    BY <1>1, <1>7
  <2> QED
    BY <2>1
<1> QED
  BY <1>7, <1>8

(* LastWrite is the last write to a document, or 0 if there is none.       *)
LEMMA LastWriteIs ==
  ASSUME Log, NEW d, NEW v \in Nat
  PROVE  /\ LastWrite(d, v) \in 0..v
         /\ LastWrite(d, v) # 0 => log[LastWrite(d, v)].doc = d
         /\ \A i \in 1..v : log[i].doc = d => i <= LastWrite(d, v)
<1> DEFINE S == {0} \cup {i \in 1..v : log[i].doc = d}
<1>1. S \subseteq Nat /\ S # {} /\ \A s \in S : s <= v
  OBVIOUS
<1>2. LastWrite(d, v) = Max(S)
  BY DEF LastWrite
<1>3. LastWrite(d, v) \in S /\ \A s \in S : s <= LastWrite(d, v)
  <2> HIDE DEF S
  <2> QED
    BY <1>1, <1>2, GreatestExists
<1> QED
  BY <1>3

(* Only one number is the last write.                                      *)
LEMMA LastWriteUnique ==
  ASSUME Log, NEW d, NEW v \in Nat, NEW w \in 0..v,
         w # 0 => log[w].doc = d, \A i \in 1..v : log[i].doc = d => i <= w
  PROVE  LastWrite(d, v) = w
<1>1. /\ LastWrite(d, v) \in 0..v
      /\ LastWrite(d, v) # 0 => log[LastWrite(d, v)].doc = d
      /\ \A i \in 1..v : log[i].doc = d => i <= LastWrite(d, v)
  BY LastWriteIs
<1>2. w # 0 => w <= LastWrite(d, v)
  BY <1>1
<1>3. LastWrite(d, v) # 0 => LastWrite(d, v) <= w
  BY <1>1
<1> QED
  BY <1>1, <1>2, <1>3

(* Between versions: without a write in between nothing changes.           *)
LEMMA LastWriteBetween ==
  ASSUME Log, NEW d, NEW v \in Nat, NEW w \in Nat, w <= v
  PROVE  /\ LastWrite(d, w) <= LastWrite(d, v)
         /\ LastWrite(d, v) <= w => LastWrite(d, w) = LastWrite(d, v)
<1>1. /\ LastWrite(d, v) \in 0..v
      /\ LastWrite(d, v) # 0 => log[LastWrite(d, v)].doc = d
      /\ \A i \in 1..v : log[i].doc = d => i <= LastWrite(d, v)
  BY LastWriteIs
<1>2. /\ LastWrite(d, w) \in 0..w
      /\ LastWrite(d, w) # 0 => log[LastWrite(d, w)].doc = d
      /\ \A i \in 1..w : log[i].doc = d => i <= LastWrite(d, w)
  BY LastWriteIs
<1>3. LastWrite(d, w) # 0 => LastWrite(d, w) <= LastWrite(d, v)
  BY <1>1, <1>2
<1>4. LastWrite(d, w) <= LastWrite(d, v)
  BY <1>1, <1>2, <1>3
<1>5. LastWrite(d, v) <= w /\ LastWrite(d, v) # 0 => LastWrite(d, v) <= LastWrite(d, w)
  BY <1>1, <1>2
<1> QED
  BY <1>1, <1>2, <1>4, <1>5

(* Nor does whether it lives.                                              *)
LEMMA LivesBetween ==
  ASSUME Log, NEW d, NEW v \in Nat, NEW w \in Nat, w <= v, LastWrite(d, v) <= w
  PROVE  LastWrite(d, w) = LastWrite(d, v) /\ (Lives(d, w) <=> Lives(d, v))
<1>1. LastWrite(d, w) = LastWrite(d, v)
  BY LastWriteBetween
<1> QED
  BY <1>1 DEF Lives

(* One more write.                                                         *)
LEMMA HistoryGrows ==
  ASSUME Log, NEW n \in Nat, Version = n, Version' = n + 1, NEW e,
         \A i \in 1..n : log'[i] = log[i], log'[n + 1] = e
  PROVE  /\ \A d : \A v \in 0..n : LastWrite(d, v)' = LastWrite(d, v) /\ (Lives(d, v)' <=> Lives(d, v))
         /\ \A v \in 0..n : Live(v)' = Live(v)
         /\ \A d : LastWrite(d, Version)' = IF d = e.doc THEN n + 1 ELSE LastWrite(d, n)
         /\ \A d : d # e.doc => (Lives(d, Version)' <=> Lives(d, n))
<1>4. ASSUME NEW d, NEW v, v \in 0..n
      PROVE  LastWrite(d, v)' = LastWrite(d, v) /\ (Lives(d, v)' <=> Lives(d, v))
  <2>1. LastWrite(d, v) \in 0..v
    BY <1>4, LastWriteIs
  <2>2. \A i \in 1..v : log'[i] = log[i]
    BY <1>4
  <2>3. {i \in 1..v : log'[i].doc = d} = {i \in 1..v : log[i].doc = d}
    BY <2>2
  <2>4. LastWrite(d, v)' = LastWrite(d, v)
    BY <2>3 DEF LastWrite
  <2>5. ASSUME NEW w, w \in 0..v, w # 0 PROVE log'[w] = log[w]
    BY <1>4, <2>2, <2>5
  <2>6. LastWrite(d, v) # 0 => log'[LastWrite(d, v)] = log[LastWrite(d, v)]
    BY <2>1, <2>5
  <2> QED
    BY <2>4, <2>6 DEF Lives
<1>5. \A v \in 0..n : Live(v)' = Live(v)
  BY <1>4 DEF Live
<1>6. ASSUME NEW d
      PROVE  /\ LastWrite(d, Version)' = IF d = e.doc THEN n + 1 ELSE LastWrite(d, n)
             /\ d # e.doc => (Lives(d, Version)' <=> Lives(d, n))
  <2>1. LastWrite(d, n) \in 0..n
    BY LastWriteIs
  <2>2. PICK S : S = {0} \cup {i \in 1..(n + 1) : log'[i].doc = d}
    OBVIOUS
  <2>3. LastWrite(d, Version)' = Max(S)
    <3>1. Version' = n + 1
      OBVIOUS
    <3> QED
      BY <2>2, <3>1 DEF LastWrite
  <2>4. CASE d = e.doc
    <3>1. n + 1 \in S
      BY <2>2, <2>4
    <3>2. S \subseteq Nat /\ S # {} /\ \A s \in S : s <= n + 1
      BY <2>2
    <3>3. Max(S) \in S /\ \A s \in S : s <= Max(S)
      <4>1. n + 1 \in Nat
        OBVIOUS
      <4> QED
        BY <3>2, <4>1, GreatestExists
    <3>4. n + 1 <= Max(S) /\ Max(S) <= n + 1 /\ Max(S) \in Nat
      BY <3>1, <3>2, <3>3
    <3>5. Max(S) = n + 1
      BY <3>4
    <3> QED
      BY <2>3, <2>4, <3>5
  <2>5. CASE d # e.doc
    <3>1. ASSUME NEW i \in 1..(n + 1), log'[i].doc = d
          PROVE  i \in 1..n /\ log[i].doc = d
      <4>1. i # n + 1
        BY <2>5, <3>1
      <4> QED
        BY <3>1, <4>1
    <3>2. ASSUME NEW i \in 1..n, log[i].doc = d
          PROVE  i \in 1..(n + 1) /\ log'[i].doc = d
      BY <3>2
    <3>3. S = {0} \cup {i \in 1..n : log[i].doc = d}
      BY <2>2, <3>1, <3>2
    <3>4. LastWrite(d, Version)' = LastWrite(d, n)
      BY <2>3, <3>3 DEF LastWrite
    <3>5. ASSUME NEW w, w \in 0..n, w # 0 PROVE log'[w] = log[w]
      BY <3>5
    <3>6. LastWrite(d, n) # 0 => log'[LastWrite(d, n)] = log[LastWrite(d, n)]
      BY <2>1, <3>5
    <3>7. Lives(d, Version)' <=> Lives(d, n)
      BY <3>4, <3>6 DEF Lives
    <3> QED
      BY <2>5, <3>4, <3>7
  <2> QED
    BY <2>4, <2>5
<1> QED
  BY <1>4, <1>5, <1>6

(* A write leaves the versions before it as they were.                     *)
LEMMA WriteKeepsThePast ==
  ASSUME Log, NEW e \in [doc : Docs, live : BOOLEAN], log' = Append(log, e)
  PROVE  /\ Log' /\ Version' = Version + 1 /\ Version \in Nat
         /\ \A d : \A v \in 0..Version :
              LastWrite(d, v)' = LastWrite(d, v) /\ (Lives(d, v)' <=> Lives(d, v))
         /\ \A v \in 0..Version : Live(v)' = Live(v)
         /\ \A d : LastWrite(d, Version)'
                     = IF d = e.doc THEN Version + 1 ELSE LastWrite(d, Version)
         /\ \A d : d # e.doc => (Lives(d, Version)' <=> Lives(d, Version))
<1>1. Log' /\ Version' = Version + 1 /\ Version \in Nat
  BY DEF Log, Version
<1>2. PICK n \in Nat : n = Version
  BY <1>1
<1>3. (\A i \in 1..n : log'[i] = log[i]) /\ log'[n + 1] = e
  BY <1>2 DEF Log, Version
<1>4. Version' = n + 1
  BY <1>1, <1>2
<1> QED
  BY <1>1, <1>2, <1>3, <1>4, HistoryGrows

-----------------------------------------------------------------------------
(* What has the types.                                                     *)

LEMMA MessageParts ==
  ASSUME NEW m \in Messages
  PROVE  /\ m.type \in {"doc", "gone", "added", "removed", "reset", "rejected", "current", "filter", "snapshot"}
         /\ m.type \in {"doc", "gone"} => m.doc \in Docs /\ m.version \in Nat
         /\ m.type = "current" => m.token \in Nat
         /\ m.type = "filter" => m.count \in Nat
         /\ m.type = "snapshot" => m.version \in Nat /\ m.token \in Token
BY DEF Messages

(* The sequences the queues are made of, place by place.                   *)
LEMMA TailParts ==
  ASSUME NEW S, NEW q \in Seq(S), q # <<>>
  PROVE  /\ Len(q) \in Nat /\ Len(q) >= 1 /\ Head(q) = q[1] /\ q[1] \in S
         /\ Tail(q) \in Seq(S) /\ Len(Tail(q)) = Len(q) - 1
         /\ \A k \in 1..(Len(q) - 1) : Tail(q)[k] = q[k + 1]
OBVIOUS

LEMMA ConcatParts ==
  ASSUME NEW S, NEW q \in Seq(S), NEW w \in Seq(S)
  PROVE  /\ q \o w \in Seq(S) /\ Len(q \o w) = Len(q) + Len(w)
         /\ Len(q) \in Nat /\ Len(w) \in Nat
         /\ \A k \in 1..Len(q) : (q \o w)[k] = q[k]
         /\ \A k \in 1..Len(w) : (q \o w)[Len(q) + k] = w[k]
OBVIOUS

LEMMA AppendParts ==
  ASSUME NEW S, NEW q \in Seq(S), NEW e \in S
  PROVE  /\ Append(q, e) \in Seq(S) /\ Len(Append(q, e)) = Len(q) + 1 /\ Len(q) \in Nat
         /\ \A k \in 1..Len(q) : Append(q, e)[k] = q[k]
         /\ Append(q, e)[Len(q) + 1] = e
OBVIOUS

(* The values of the start.                                                *)
LEMMA NewTargetType ==
  /\ NewTarget \in TargetState /\ NoTarget \in AbsentState
  /\ NoUpdates \in [Docs -> Nat]
BY DEF NewTarget, TargetState, NoTarget, AbsentState, NoToken, Token, Kinds, NoUpdates

(* What the operations on a target make of its fields.                     *)
LEMMA OutstandingParts ==
  ASSUME NEW t \in TargetState, NEW n \in Int, NEW r, r = [t EXCEPT !.outstanding = n]
  PROVE  /\ r \in TargetState /\ r.exists /\ r.outstanding = n
         /\ (r.current <=> t.current) /\ r.token = t.token
         /\ r.changes = t.changes /\ (r.pending <=> t.pending)
BY DEF TargetState

LEMMA RequestParts ==
  ASSUME NEW t \in TargetState \cup AbsentState, NEW n \in Int
  PROVE  /\ Request(t, n) \in TargetState \cup AbsentState
         /\ t \in TargetState => Request(t, n) \in TargetState
         /\ Request(t, n).outstanding = t.outstanding + n
         /\ Request(t, n).exists <=> t.exists
         /\ t.exists => /\ Request(t, n).current <=> t.current
                        /\ Request(t, n).token = t.token
                        /\ Request(t, n).changes = t.changes
                        /\ Request(t, n).pending <=> t.pending
<1>1. PICK m \in Int : m = t.outstanding + n
  <2>1. t \in TargetState => t.outstanding \in Int
    BY DEF TargetState
  <2>2. t \in AbsentState => t.outstanding \in Int
    BY DEF AbsentState
  <2>3. t.outstanding \in Int
    BY <2>1, <2>2
  <2> QED
    BY <2>3
<1>2. PICK r : r = Request(t, n)
  OBVIOUS
<1>3. r = [t EXCEPT !.outstanding = m]
  BY <1>1, <1>2 DEF Request
<1>4. CASE t \in TargetState
  <2>1. t.exists
    BY <1>4 DEF TargetState
  <2>2. /\ r \in TargetState /\ r.exists /\ r.outstanding = m
        /\ (r.current <=> t.current) /\ r.token = t.token
        /\ r.changes = t.changes /\ (r.pending <=> t.pending)
    BY <1>3, <1>4 DEF TargetState
  <2> QED
    BY <1>1, <1>2, <2>1, <2>2
<1>5. CASE t \in AbsentState
  <2>1. ~t.exists /\ t \notin TargetState
    BY <1>5 DEF TargetState, AbsentState
  <2>2. r \in AbsentState /\ ~r.exists /\ r.outstanding = m
    BY <1>3, <1>5 DEF AbsentState
  <2> QED
    BY <1>1, <1>2, <2>1, <2>2
<1> QED
  BY <1>4, <1>5

LEMMA ClearedParts ==
  ASSUME NEW t \in TargetState
  PROVE  /\ Cleared(t) \in TargetState
         /\ Cleared(t).outstanding = t.outstanding /\ Cleared(t).exists
         /\ (Cleared(t).current <=> t.current) /\ Cleared(t).token = t.token
         /\ Cleared(t).changes = [d \in Docs |-> "none"] /\ ~Cleared(t).pending
BY DEF Cleared, TargetState, Kinds

LEMMA WithTokenParts ==
  ASSUME NEW t \in TargetState, NEW token \in Token
  PROVE  /\ WithToken(t, token) \in TargetState
         /\ WithToken(t, token).outstanding = t.outstanding /\ WithToken(t, token).exists
         /\ (WithToken(t, token).current <=> t.current)
         /\ WithToken(t, token).token = IF token = NoToken THEN t.token ELSE token
         /\ WithToken(t, token).changes = t.changes
         /\ t.pending => WithToken(t, token).pending
BY DEF WithToken, TargetState

LEMMA RecordParts ==
  ASSUME NEW t \in TargetState, NEW d \in Docs, NEW kind \in Kinds
  PROVE  /\ Record(t, d, kind) \in TargetState
         /\ Record(t, d, kind).outstanding = t.outstanding /\ Record(t, d, kind).exists
         /\ (Record(t, d, kind).current <=> t.current) /\ Record(t, d, kind).token = t.token
         /\ Record(t, d, kind).pending
         /\ Record(t, d, kind).changes = [t.changes EXCEPT ![d] = kind]
BY DEF Record, TargetState

LEMMA ResetTargetParts ==
  /\ ResetTarget \in TargetState
  /\ ResetTarget.outstanding = 0 /\ ResetTarget.exists /\ ResetTarget.pending
  /\ ~ResetTarget.current /\ ResetTarget.token = NoToken
  /\ \A d \in Docs : ResetTarget.changes[d] = IF d \in keys THEN "removed" ELSE "none"
<1>1. NewTarget.outstanding = 0 /\ NewTarget.exists /\ NewTarget.pending /\ ~NewTarget.current /\ NewTarget.token = NoToken
  BY DEF NewTarget
<1> DEFINE c == [d \in Docs |-> IF d \in keys THEN "removed" ELSE "none"]
<1>2. c \in [Docs -> Kinds] /\ \A d \in Docs : c[d] = IF d \in keys THEN "removed" ELSE "none"
  BY DEF Kinds
<1>3. ResetTarget = [NewTarget EXCEPT !.changes = c]
  BY DEF ResetTarget
<1> HIDE DEF c
<1>4. ResetTarget \in TargetState /\ ResetTarget.changes = c
  BY <1>2, <1>3, NewTargetType DEF TargetState
<1>5. /\ ResetTarget.outstanding = NewTarget.outstanding /\ ResetTarget.token = NewTarget.token
      /\ ResetTarget.exists = NewTarget.exists /\ ResetTarget.pending = NewTarget.pending
      /\ ResetTarget.current = NewTarget.current
  BY <1>3 DEF NewTarget
<1> QED
  BY <1>1, <1>2, <1>4, <1>5

LEMMA EnsuredParts ==
  ASSUME target \in TargetState \cup AbsentState
  PROVE  /\ Ensured \in TargetState /\ Ensured.exists
         /\ target.exists <=> target \in TargetState
         /\ target.exists => Ensured = target
         /\ ~target.exists => /\ Ensured.outstanding = 0 /\ ~Ensured.current /\ Ensured.token = NoToken
                              /\ Ensured.changes = [d \in Docs |-> "none"] /\ Ensured.pending
         /\ Respond \in TargetState /\ Respond.exists /\ Respond.outstanding = Ensured.outstanding - 1
         /\ (Respond.current <=> Ensured.current) /\ Respond.token = Ensured.token
         /\ Respond.changes = Ensured.changes /\ (Respond.pending <=> Ensured.pending)
<1>1. target.exists <=> target \in TargetState
  BY DEF TargetState, AbsentState
<1>2. Ensured \in TargetState /\ Ensured.exists
  BY <1>1, NewTargetType DEF Ensured, TargetState
<1>3. target.exists => Ensured = target
  BY DEF Ensured
<1>4. ~target.exists => Ensured = NewTarget
  BY DEF Ensured
<1>5. /\ Respond \in TargetState /\ Respond.exists /\ Respond.outstanding = Ensured.outstanding - 1
      /\ (Respond.current <=> Ensured.current) /\ Respond.token = Ensured.token
      /\ Respond.changes = Ensured.changes /\ (Respond.pending <=> Ensured.pending)
  <2> DEFINE m == Ensured.outstanding - 1
  <2>1. m \in Int /\ Respond = [Ensured EXCEPT !.outstanding = m]
    BY <1>2 DEF Respond, TargetState
  <2> HIDE DEF m
  <2>2. /\ Respond \in TargetState /\ Respond.exists /\ Respond.outstanding = m
        /\ (Respond.current <=> Ensured.current) /\ Respond.token = Ensured.token
        /\ Respond.changes = Ensured.changes /\ (Respond.pending <=> Ensured.pending)
    BY <1>2, <2>1, OutstandingParts
  <2> QED
    BY <2>2 DEF m
<1> QED
  BY <1>1, <1>2, <1>3, <1>4, <1>5 DEF NewTarget

-----------------------------------------------------------------------------
(* The messages of an update.                                              *)

(* A finite set in some order has each of its elements once.               *)
LEMMA SeqOfSet ==
  ASSUME NEW S, IsFiniteSet(S)
  PROVE  \E n \in Nat : /\ SetToSeq(S) \in [1..n -> S]
                        /\ \A x \in S : \E i \in 1..n : SetToSeq(S)[i] = x
<1>1. PICK n \in Nat : n = Cardinality(S)
  BY FS_CardinalityType
<1>2. PICK g : g \in Bijection(1..n, S)
  BY <1>1, FS_CardinalityType DEF ExistsBijection
<1>3. g \in [1..n -> S] /\ IsInjective(g)
  BY <1>2 DEF Bijection, Injection, IsInjective
<1>4. SetToSeq(S) \in [1..n -> S] /\ IsInjective(SetToSeq(S))
  BY <1>1, <1>3 DEF SetToSeq
<1>5. PICK f : f = SetToSeq(S)
  OBVIOUS
<1>6. f \in Injection(1..n, S)
  BY <1>4, <1>5 DEF Injection, IsInjective
<1>7. Cardinality(1..n) = n
  BY FS_Interval
<1>8. f \in Surjection(1..n, S)
  BY <1>1, <1>6, <1>7, FS_Injection
<1>9. \A x \in S : \E i \in 1..n : f[i] = x
  BY <1>8 DEF Surjection
<1> QED
  BY <1>4, <1>5, <1>9

LEMMA DocumentsParts ==
  ASSUME NEW S, IsFiniteSet(S), \A d \in S : DocumentChange(d) \in Messages
  PROVE  /\ Documents(S) \in Seq(Messages)
         /\ \A d \in S : \E k \in 1..Len(Documents(S)) : Documents(S)[k] = DocumentChange(d)
         /\ \A k \in 1..Len(Documents(S)) : \E d \in S : Documents(S)[k] = DocumentChange(d)
<1>1. PICK n \in Nat : /\ SetToSeq(S) \in [1..n -> S]
                       /\ \A x \in S : \E i \in 1..n : SetToSeq(S)[i] = x
  BY SeqOfSet
<1>2. PICK f : f = SetToSeq(S)
  OBVIOUS
<1>3. f \in [1..n -> S] /\ \A x \in S : \E i \in 1..n : f[i] = x
  BY <1>1, <1>2
<1>4. Documents(S) = [i \in 1..n |-> DocumentChange(f[i])]
  BY <1>2, <1>3 DEF Documents
<1>5. \A i \in 1..n : DocumentChange(f[i]) \in Messages
  BY <1>3
<1>6. PICK q : q = [i \in 1..n |-> DocumentChange(f[i])]
  OBVIOUS
<1>7. q \in Seq(Messages) /\ Len(q) = n /\ \A i \in 1..n : q[i] = DocumentChange(f[i])
  BY <1>5, <1>6
<1> QED
  BY <1>3, <1>4, <1>6, <1>7

(* r, of length l, is q followed by w, of lengths m and n.                 *)
Joined(r, q, m, w, n, l) ==
  /\ q \in Seq(Messages) /\ w \in Seq(Messages) /\ r = q \o w
  /\ m \in Nat /\ m = Len(q) /\ n \in Nat /\ n = Len(w) /\ l = m + n

LEMMA JoinedParts ==
  ASSUME NEW r, NEW q, NEW m, NEW w, NEW n, NEW l, Joined(r, q, m, w, n, l)
  PROVE  /\ r \in Seq(Messages) /\ Len(r) = l
         /\ \A k \in 1..m : r[k] = q[k]
         /\ \A k \in 1..n : r[m + k] = w[k]
BY ConcatParts DEF Joined

First == {<<>>, <<TargetChange("added", NoToken)>>, <<TargetChange("reset", NoToken)>>}
Marks == {<<>>, <<TargetChange("current", Version)>>}

(* What can be said of an update without looking at how it is put together *)
UpdateShape(w, first, S, marks, exact, token) ==
  /\ w \in Seq(Messages) /\ Len(w) \in Nat /\ Len(w) >= 1
  /\ w[Len(w)] = Snapshot(token)
  /\ first # <<>> => Len(w) >= 2 /\ w[1] = first[1]
  /\ \A d \in S : \E k \in 1..Len(w) : w[k] = DocumentChange(d)
  /\ marks # <<>> => \E k \in 1..Len(w) : w[k] = marks[1]
  /\ ~exact => Len(w) >= 2 /\ w[Len(w) - 1] = Filter
  /\ \A k \in 1..Len(w) : \/ k = 1 /\ first # <<>> /\ w[k] = first[1]
                          \/ \E d \in S : w[k] = DocumentChange(d)
                          \/ marks # <<>> /\ w[k] = marks[1]
                          \/ ~exact /\ k = Len(w) - 1 /\ w[k] = Filter
                          \/ k = Len(w) /\ w[k] = Snapshot(token)

LEMMA MessageTypes ==
  ASSUME Log
  PROVE  /\ Version \in Nat
         /\ \A d \in Docs : DocumentChange(d) \in Messages
         /\ Filter \in Messages
         /\ \A token \in Token : Snapshot(token) \in Messages
         /\ TargetChange("current", Version) \in Messages
         /\ \A type \in {"added", "removed", "reset", "rejected"} : TargetChange(type, NoToken) \in Messages
<1>1. Version \in Nat
  BY DEF Log, Version
<1>2. ASSUME NEW d \in Docs PROVE DocumentChange(d) \in Messages
  <2>1. LastWrite(d, Version) \in Nat
    BY <1>1, LastWriteIs
  <2> QED
    BY <2>1 DEF DocumentChange, Messages
<1>3. Filter \in Messages
  <2>1. IsFiniteSet(Live(Version))
    BY BoundsOK, FS_Subset DEF Live
  <2>2. Cardinality(Live(Version)) \in Nat
    BY <2>1, FS_CardinalityType
  <2> QED
    BY <2>2 DEF Filter, Messages
<1>4. \A token \in Token : Snapshot(token) \in Messages
  BY <1>1 DEF Snapshot, Messages
<1>5. TargetChange("current", Version) \in Messages
  BY <1>1 DEF TargetChange, Messages
<1>6. \A type \in {"added", "removed", "reset", "rejected"} : TargetChange(type, NoToken) \in Messages
  BY DEF TargetChange, Messages
<1> QED
  BY <1>1, <1>2, <1>3, <1>4, <1>5, <1>6

LEMMA OneMessage ==
  ASSUME NEW m \in Messages
  PROVE  <<m>> \in Seq(Messages) /\ Len(<<m>>) = 1 /\ <<m>>[1] = m
OBVIOUS

LEMMA AtMostOneMessage ==
  ASSUME NEW q, q = <<>> \/ \E m \in Messages : q = <<m>>
  PROVE  q \in Seq(Messages) /\ Len(q) \in {0, 1} /\ (q = <<>> <=> Len(q) = 0)
<1>1. CASE q = <<>>
  BY <1>1
<1>2. CASE \E m \in Messages : q = <<m>>
  <2>1. PICK m \in Messages : q = <<m>>
    BY <1>2
  <2>2. q \in Seq(Messages) /\ Len(q) = 1
    BY <2>1
  <2>3. Len(<<>>) = 0
    OBVIOUS
  <2>4. q # <<>>
    BY <2>1
  <2> QED
    BY <2>2, <2>4
<1> QED
  BY <1>1, <1>2

(* What an update of the server is made of, whatever the order of its      *)
(* documents.                                                              *)
LEMMA UpdateHasShape ==
  ASSUME Log, NEW first \in First, NEW S, S \subseteq Docs, NEW marks \in Marks,
         NEW exact \in BOOLEAN, NEW token \in Token
  PROVE  UpdateShape(Update(first, S, marks, exact, token), first, S, marks, exact, token)
<1>1. /\ \A d \in S : DocumentChange(d) \in Messages
      /\ Filter \in Messages /\ Snapshot(token) \in Messages
      /\ TargetChange("current", Version) \in Messages
      /\ TargetChange("added", NoToken) \in Messages
      /\ TargetChange("reset", NoToken) \in Messages
  BY MessageTypes
<1>2. /\ first \in Seq(Messages) /\ Len(first) \in {0, 1}
      /\ first = <<>> <=> Len(first) = 0
  <2>1. first = <<>> \/ \E m \in Messages : first = <<m>>
    BY <1>1 DEF First
  <2> QED
    BY <2>1, AtMostOneMessage
<1>3. /\ marks \in Seq(Messages) /\ Len(marks) \in {0, 1}
      /\ marks = <<>> <=> Len(marks) = 0
  <2>1. marks = <<>> \/ \E m \in Messages : marks = <<m>>
    BY <1>1 DEF Marks
  <2> QED
    BY <2>1, AtMostOneMessage
<1>4. IsFiniteSet(S)
  BY BoundsOK, FS_Subset
<1>5. PICK docs : docs = Documents(S)
  OBVIOUS
<1>6. /\ docs \in Seq(Messages)
      /\ \A d \in S : \E k \in 1..Len(docs) : docs[k] = DocumentChange(d)
      /\ \A k \in 1..Len(docs) : \E d \in S : docs[k] = DocumentChange(d)
  BY <1>1, <1>4, <1>5, DocumentsParts
<1>7. PICK rest : rest = FilterUnless(exact)
  OBVIOUS
<1>8. /\ rest \in Seq(Messages)
      /\ exact => Len(rest) = 0
      /\ ~exact => Len(rest) = 1 /\ rest[1] = Filter
  BY <1>1, <1>7, OneMessage DEF FilterUnless
<1>9. PICK last : last = <<Snapshot(token)>>
  OBVIOUS
<1>10. last \in Seq(Messages) /\ Len(last) = 1 /\ last[1] = Snapshot(token)
  BY <1>1, <1>9, OneMessage
<1>11. PICK a : a = first \o docs
  OBVIOUS
<1>12. PICK b : b = a \o marks
  OBVIOUS
<1>13. PICK c : c = b \o rest
  OBVIOUS
<1>14. PICK w : w = c \o last
  OBVIOUS
<1>15. w = Update(first, S, marks, exact, token)
  BY <1>5, <1>7, <1>9, <1>11, <1>12, <1>13, <1>14 DEF Update
<1>16. PICK f \in Nat, nd \in Nat, nm \in Nat, nr \in Nat :
         f = Len(first) /\ nd = Len(docs) /\ nm = Len(marks) /\ nr = Len(rest)
  BY <1>2, <1>3, <1>6, <1>8
<1>17. PICK p2 \in Nat, p3 \in Nat, p4 \in Nat, n \in Nat :
         p2 = f + nd /\ p3 = p2 + nm /\ p4 = p3 + nr /\ n = p4 + 1
  OBVIOUS
<1>18. /\ a \in Seq(Messages) /\ Len(a) = p2
       /\ \A k \in 1..f : a[k] = first[k]
       /\ \A k \in 1..nd : a[f + k] = docs[k]
  <2>1. Joined(a, first, f, docs, nd, p2)
    BY <1>2, <1>6, <1>11, <1>16, <1>17 DEF Joined
  <2> QED
    BY <2>1, JoinedParts
<1>19. /\ b \in Seq(Messages) /\ Len(b) = p3
       /\ \A k \in 1..p2 : b[k] = a[k]
       /\ \A k \in 1..nm : b[p2 + k] = marks[k]
  <2>1. Joined(b, a, p2, marks, nm, p3)
    BY <1>3, <1>12, <1>16, <1>17, <1>18 DEF Joined
  <2> QED
    BY <2>1, JoinedParts
<1>20. /\ c \in Seq(Messages) /\ Len(c) = p4
       /\ \A k \in 1..p3 : c[k] = b[k]
       /\ \A k \in 1..nr : c[p3 + k] = rest[k]
  <2>1. Joined(c, b, p3, rest, nr, p4)
    BY <1>8, <1>13, <1>16, <1>17, <1>19 DEF Joined
  <2> QED
    BY <2>1, JoinedParts
<1>21. /\ w \in Seq(Messages) /\ Len(w) = n
       /\ \A k \in 1..p4 : w[k] = c[k]
       /\ w[n] = Snapshot(token)
  <2>1. /\ w \in Seq(Messages) /\ Len(w) = n
        /\ \A k \in 1..p4 : w[k] = c[k]
        /\ \A k \in 1..1 : w[p4 + k] = last[k]
    <3>1. Joined(w, c, p4, last, 1, n)
      BY <1>10, <1>14, <1>17, <1>20 DEF Joined
    <3> QED
      BY <3>1, JoinedParts
  <2>2. 1 \in 1..1
    OBVIOUS
  <2>3. w[p4 + 1] = Snapshot(token)
    BY <1>10, <2>1, <2>2
  <2> QED
    BY <1>17, <2>1, <2>3
<1>22. /\ \A k \in 1..f : k \in 1..n /\ w[k] = first[k]
       /\ \A k \in 1..nd : f + k \in 1..n /\ w[f + k] = docs[k]
       /\ \A k \in 1..nm : p2 + k \in 1..n /\ w[p2 + k] = marks[k]
       /\ \A k \in 1..nr : p3 + k \in 1..n /\ w[p3 + k] = rest[k]
  <2>1. ASSUME NEW k \in 1..f PROVE k \in 1..n /\ w[k] = first[k]
    <3>1. k \in 1..p2 /\ k \in 1..p3 /\ k \in 1..p4 /\ k \in 1..n
      BY <1>17
    <3> QED
      BY <1>18, <1>19, <1>20, <1>21, <3>1
  <2>2. ASSUME NEW k \in 1..nd PROVE f + k \in 1..n /\ w[f + k] = docs[k]
    <3>1. f + k \in 1..p2 /\ f + k \in 1..p3 /\ f + k \in 1..p4 /\ f + k \in 1..n
      BY <1>17
    <3> QED
      BY <1>18, <1>19, <1>20, <1>21, <3>1
  <2>3. ASSUME NEW k \in 1..nm PROVE p2 + k \in 1..n /\ w[p2 + k] = marks[k]
    <3>1. p2 + k \in 1..p3 /\ p2 + k \in 1..p4 /\ p2 + k \in 1..n
      BY <1>17
    <3> QED
      BY <1>19, <1>20, <1>21, <3>1
  <2>4. ASSUME NEW k \in 1..nr PROVE p3 + k \in 1..n /\ w[p3 + k] = rest[k]
    <3>1. p3 + k \in 1..p4 /\ p3 + k \in 1..n
      BY <1>17
    <3> QED
      BY <1>20, <1>21, <3>1
  <2> QED
    BY <2>1, <2>2, <2>3, <2>4
<1>23. ASSUME NEW k \in 1..n
       PROVE  \/ k \in 1..f /\ w[k] = first[k]
              \/ \E i \in 1..nd : w[k] = docs[i]
              \/ \E i \in 1..nm : w[k] = marks[i]
              \/ \E i \in 1..nr : k = p3 + i /\ w[k] = rest[i]
              \/ k = n /\ w[k] = Snapshot(token)
  <2>1. CASE k \in 1..p2
    <3>1. k \in 1..p3 /\ k \in 1..p4
      BY <1>17, <2>1
    <3>2. w[k] = a[k]
      BY <1>19, <1>20, <1>21, <2>1, <3>1
    <3>3. CASE k \in 1..f
      BY <1>18, <3>2, <3>3
    <3>4. CASE k \notin 1..f
      <4>1. k - f \in 1..nd /\ k = f + (k - f)
        BY <1>17, <2>1, <3>4
      <4> QED
        BY <1>18, <3>2, <4>1
    <3> QED
      BY <3>3, <3>4
  <2>2. CASE k \in 1..p3 /\ k \notin 1..p2
    <3>1. k \in 1..p4
      BY <1>17, <2>2
    <3>2. w[k] = b[k]
      BY <1>20, <1>21, <2>2, <3>1
    <3>3. k - p2 \in 1..nm /\ k = p2 + (k - p2)
      BY <1>17, <2>2
    <3> QED
      BY <1>19, <3>2, <3>3
  <2>3. CASE k \in 1..p4 /\ k \notin 1..p3
    <3>1. w[k] = c[k]
      BY <1>21, <2>3
    <3>2. k - p3 \in 1..nr /\ k = p3 + (k - p3)
      BY <1>17, <2>3
    <3> QED
      BY <1>20, <3>1, <3>2
  <2>4. CASE k = n
    BY <1>21, <2>4
  <2>5. k \in 1..p4 \/ k = n
    BY <1>17
  <2> QED
    BY <2>1, <2>2, <2>3, <2>4, <2>5
<1>24. w \in Seq(Messages) /\ Len(w) = n /\ n >= 1 /\ w[n] = Snapshot(token)
  BY <1>17, <1>21
<1>25. first # <<>> => n >= 2 /\ w[1] = first[1]
  <2>1. first # <<>> => f = 1
    BY <1>2, <1>16
  <2>2. f = 1 => 1 \in 1..f /\ n >= 2
    BY <1>17
  <2> QED
    BY <1>22, <2>1, <2>2
<1>26. \A d \in S : \E k \in 1..n : w[k] = DocumentChange(d)
  <2>1. ASSUME NEW d \in S PROVE \E k \in 1..n : w[k] = DocumentChange(d)
    <3>1. PICK i \in 1..nd : docs[i] = DocumentChange(d)
      BY <1>6, <1>16
    <3> QED
      BY <1>22, <3>1
  <2> QED
    BY <2>1
<1>27. marks # <<>> => \E k \in 1..n : w[k] = marks[1]
  <2>1. marks # <<>> => nm = 1
    BY <1>3, <1>16
  <2>2. nm = 1 => 1 \in 1..nm
    OBVIOUS
  <2> QED
    BY <1>22, <2>1, <2>2
<1>28. ~exact => n >= 2 /\ w[n - 1] = Filter
  <2>1. ~exact => nr = 1 /\ rest[1] = Filter
    BY <1>8, <1>16
  <2>2. nr = 1 => n >= 2 /\ n - 1 = p3 + 1 /\ 1 \in 1..nr
    BY <1>17
  <2> QED
    BY <1>22, <2>1, <2>2
<1>29. ASSUME NEW k \in 1..n
       PROVE  \/ k = 1 /\ first # <<>> /\ w[k] = first[1]
              \/ \E d \in S : w[k] = DocumentChange(d)
              \/ marks # <<>> /\ w[k] = marks[1]
              \/ ~exact /\ k = n - 1 /\ w[k] = Filter
              \/ k = n /\ w[k] = Snapshot(token)
  <2>1. CASE k \in 1..f /\ w[k] = first[k]
    <3>1. k = 1 /\ f # 0
      BY <1>2, <1>16, <2>1
    <3> QED
      BY <1>2, <1>16, <2>1, <3>1
  <2>2. CASE \E i \in 1..nd : w[k] = docs[i]
    BY <1>6, <1>16, <2>2
  <2>3. CASE \E i \in 1..nm : w[k] = marks[i]
    <3>1. PICK i \in 1..nm : w[k] = marks[i]
      BY <2>3
    <3>2. i = 1 /\ nm # 0
      BY <1>3, <1>16
    <3> QED
      BY <1>3, <1>16, <3>1, <3>2
  <2>4. CASE \E i \in 1..nr : k = p3 + i /\ w[k] = rest[i]
    <3>1. PICK i \in 1..nr : k = p3 + i /\ w[k] = rest[i]
      BY <2>4
    <3>2. ~exact /\ i = 1 /\ nr = 1
      BY <1>8, <1>16
    <3>3. k = n - 1
      BY <1>17, <3>1, <3>2
    <3> QED
      BY <1>8, <3>1, <3>2, <3>3
  <2>5. CASE k = n /\ w[k] = Snapshot(token)
    BY <2>5
  <2> QED
    BY <1>23, <2>1, <2>2, <2>3, <2>4, <2>5
<1> QED
  BY <1>15, <1>24, <1>25, <1>26, <1>27, <1>28, <1>29 DEF UpdateShape

(* The two actions of the server and the reset that tell what there is.    *)
Told(w, first, S, marks, exact, token) ==
  /\ UpdateShape(w, first, S, marks, exact, token)
  /\ toClient' = toClient \o w /\ toClient' \in Seq(Messages)
  /\ watched' = [on |-> TRUE, sent |-> Version]
  /\ UNCHANGED <<log, deviceVars, memoryVars, connected, target, updates, resets, historyVars>>

(* The server tells an update: the messages stay, and the update follows.  *)
LEMMA UpdateIsTold ==
  ASSUME TypeOK, NEW first \in First, NEW S, S \subseteq Docs, NEW marks \in Marks,
         NEW exact \in BOOLEAN, NEW token \in Token, Tell(Update(first, S, marks, exact, token))
  PROVE  \E w : Told(w, first, S, marks, exact, token)
<1>1. Log /\ toClient \in Seq(Messages)
  BY DEF TypeOK, ServerTypes, StreamTypes
<1>2. PICK w : w = Update(first, S, marks, exact, token)
  OBVIOUS
<1>3. UpdateShape(w, first, S, marks, exact, token)
  BY <1>1, <1>2, UpdateHasShape
<1>4. w \in Seq(Messages)
  BY <1>3 DEF UpdateShape
<1>5. toClient' = toClient \o w
  BY <1>2 DEF Tell
<1>6. toClient' \in Seq(Messages)
  BY <1>1, <1>4, <1>5, ConcatParts
<1> QED
  BY <1>2, <1>3, <1>5, <1>6 DEF Tell, Told

Added == <<TargetChange("added", NoToken)>>
Reset == <<TargetChange("reset", NoToken)>>
Current == <<TargetChange("current", Version)>>

LEMMA TokensOfUpdates == ASSUME TypeOK PROVE NoToken \in Token /\ Version \in Token
<1>1. Log
  BY DEF TypeOK, ServerTypes
<1> QED
  BY <1>1, MessageTypes DEF Token, NoToken

LEMMA AnswerWatchTells ==
  ASSUME TypeOK, NEW exact \in BOOLEAN, AnswerWatch(exact)
  PROVE  /\ toServer # <<>> /\ Head(toServer).type = "watch" /\ toServer' = Tail(toServer)
         /\ exact \in Exactness(Head(toServer).token)
         /\ \E w : Told(w, Added, Named(Head(toServer).token, exact), Current, exact, NoToken)
<1>1. NoToken \in Token
  BY TokensOfUpdates
<1>2. Named(Head(toServer).token, exact) \subseteq Docs
  BY DEF Named, Changed, Died
<1>3. Tell(Update(Added, Named(Head(toServer).token, exact), Current, exact, NoToken))
  BY DEF AnswerWatch, Added, Current
<1>4. Added \in First /\ Current \in Marks
  BY DEF Added, Current, First, Marks
<1>5. \E w : Told(w, Added, Named(Head(toServer).token, exact), Current, exact, NoToken)
  BY <1>1, <1>2, <1>3, <1>4, UpdateIsTold
<1> QED
  BY <1>5 DEF AnswerWatch

LEMMA PushTells ==
  ASSUME TypeOK, NEW exact \in BOOLEAN, NEW token \in {NoToken, Version}, Push(exact, token)
  PROVE  /\ watched.on /\ watched.sent < Version /\ exact \in Exactness(watched.sent)
         /\ toServer' = toServer
         /\ \E w : Told(w, <<>>, Named(watched.sent, exact), <<>>, exact, token)
<1>1. token \in Token
  BY TokensOfUpdates
<1>2. Named(watched.sent, exact) \subseteq Docs
  BY DEF Named, Changed, Died
<1>3. Tell(Update(<<>>, Named(watched.sent, exact), <<>>, exact, token))
  BY DEF Push
<1>4. <<>> \in First /\ <<>> \in Marks
  BY DEF First, Marks
<1>5. \E w : Told(w, <<>>, Named(watched.sent, exact), <<>>, exact, token)
  BY <1>1, <1>2, <1>3, <1>4, UpdateIsTold
<1> QED
  BY <1>5 DEF Push

LEMMA ResetTells ==
  ASSUME TypeOK, ResetByServer
  PROVE  /\ watched.on /\ toServer' = toServer
         /\ \E w : Told(w, Reset, Live(Version), Current, TRUE, NoToken)
<1>1. NoToken \in Token
  BY TokensOfUpdates
<1>2. Live(Version) \subseteq Docs
  BY DEF Live
<1>3. Tell(Update(Reset, Live(Version), Current, TRUE, NoToken))
  BY DEF ResetByServer, Reset, Current
<1>4. Reset \in First /\ Current \in Marks /\ TRUE \in BOOLEAN
  BY DEF Reset, Current, First, Marks
<1>5. \E w : Told(w, Reset, Live(Version), Current, TRUE, NoToken)
  BY <1>1, <1>2, <1>3, <1>4, UpdateIsTold
<1> QED
  BY <1>5 DEF ResetByServer

LEMMA AddRemovedOrRejected ==
  ASSUME TypeOK, NEW type \in {"removed", "rejected"}
  PROVE  Append(toClient, TargetChange(type, NoToken)) \in Seq(Messages)
<1>1. TargetChange(type, NoToken) \in Messages
  BY MessageTypes DEF TypeOK, ServerTypes
<1> QED
  BY <1>1 DEF TypeOK, StreamTypes

(* Taking a message in: the others move up by one.                         *)
LEMMA Taken ==
  ASSUME TypeOK, NEW type, Take(type)
  PROVE  /\ toClient # <<>> /\ Head(toClient) = toClient[1] /\ toClient[1].type = type
         /\ toClient[1] \in Messages
         /\ Len(toClient) \in Nat /\ Len(toClient) >= 1 /\ Len(toClient') = Len(toClient) - 1
         /\ toClient' \in Seq(Messages)
         /\ \A k \in 1..(Len(toClient) - 1) : toClient'[k] = toClient[k + 1]
<1>1. toClient \in Seq(Messages) /\ toClient # <<>> /\ toClient' = Tail(toClient) /\ Head(toClient).type = type
  BY DEF TypeOK, StreamTypes, Take
<1> QED
  BY <1>1, TailParts

(* Requests of the client.                                                 *)
LEMMA Sent ==
  ASSUME TypeOK, NEW token \in Token
  PROVE  /\ Append(toServer, Watch(token)) \in Seq(Requests)
         /\ Append(toServer, Unwatch) \in Seq(Requests)
         /\ toServer \o <<Unwatch, Watch(token)>> \in Seq(Requests)
         /\ <<Watch(token)>> \in Seq(Requests)
         /\ toServer # <<>> => Tail(toServer) \in Seq(Requests)
<1>1. toServer \in Seq(Requests)
  BY DEF TypeOK, StreamTypes
<1>2. Watch(token) \in Requests /\ Unwatch \in Requests
  BY DEF Watch, Unwatch, Requests, Token
<1>3. <<Unwatch, Watch(token)>> \in Seq(Requests)
  BY <1>2
<1> QED
  BY <1>1, <1>2, <1>3

LEMMA EmptySequence == ASSUME NEW S PROVE <<>> \in Seq(S)
OBVIOUS

(* Every step keeps the types.                                             *)
LEMMA TypeStep == TypeOK /\ [Next]_vars => TypeOK'
<1> SUFFICES ASSUME TypeOK, [Next]_vars PROVE TypeOK'
  OBVIOUS
<1> USE DEF TypeOK
<1>1. ASSUME NEW d \in Docs, NEW live \in BOOLEAN, Write(d, live) PROVE TypeOK'
  BY <1>1 DEF Write, ServerTypes, DeviceTypes, MemoryTypes, StreamTypes, HistoryTypes, Log,
     deviceVars, memoryVars, streamVars, historyVars
<1>2. ASSUME NEW w, NEW first, NEW S, NEW marks, NEW exact, NEW token,
             Told(w, first, S, marks, exact, token), toServer' \in Seq(Requests)
      PROVE  TypeOK'
  <2>1. Version \in Nat
    BY MessageTypes DEF ServerTypes
  <2> QED
    BY <1>2, <2>1 DEF Told, ServerTypes, DeviceTypes, MemoryTypes, StreamTypes, HistoryTypes, Log,
       deviceVars, memoryVars, historyVars
<1>3. ASSUME NEW exact \in BOOLEAN, AnswerWatch(exact) PROVE TypeOK'
  BY <1>2, <1>3, AnswerWatchTells, Sent, TokensOfUpdates
<1>4. ASSUME NEW exact \in BOOLEAN, NEW token \in {NoToken, Version}, Push(exact, token) PROVE TypeOK'
  BY <1>2, <1>4, PushTells DEF StreamTypes
<1>5. CASE ResetByServer
  BY <1>2, <1>5, ResetTells DEF StreamTypes
<1>6. CASE AnswerUnwatch
  <2>1. Tail(toServer) \in Seq(Requests)
    BY <1>6, Sent, TokensOfUpdates DEF AnswerUnwatch
  <2>2. Append(toClient, TargetChange("removed", NoToken)) \in Seq(Messages)
    BY AddRemovedOrRejected
  <2> QED
    BY <1>6, <2>1, <2>2 DEF AnswerUnwatch, ServerTypes, DeviceTypes, MemoryTypes, StreamTypes, HistoryTypes, Log,
       deviceVars, memoryVars, historyVars
<1>7. CASE RejectByServer
  <2>1. Append(toClient, TargetChange("rejected", NoToken)) \in Seq(Messages)
    BY AddRemovedOrRejected
  <2> QED
    BY <1>7, <2>1 DEF RejectByServer, ServerTypes, DeviceTypes, MemoryTypes, StreamTypes, HistoryTypes, Log,
       deviceVars, memoryVars, historyVars
<1>8. ASSUME NEW type, Collect(type), target' \in TargetState \cup AbsentState,
             updates' \in [Docs -> Nat], resets' \in BOOLEAN
      PROVE  TypeOK'
  <2>1. toClient' \in Seq(Messages)
    BY <1>8, Taken DEF Collect
  <2> QED
    BY <1>8, <2>1 DEF Collect, ServerTypes, DeviceTypes, MemoryTypes, StreamTypes, HistoryTypes, Log,
       serverVars, deviceVars, memoryVars, historyVars
<1>9. /\ Ensured \in TargetState /\ Respond \in TargetState /\ Cleared(Respond) \in TargetState
      /\ NoTarget \in AbsentState /\ ResetTarget \in TargetState
      /\ target \in TargetState \cup AbsentState /\ (target.exists => target \in TargetState)
      /\ updates \in [Docs -> Nat] /\ resets \in BOOLEAN
  BY EnsuredParts, ClearedParts, NewTargetType, ResetTargetParts DEF StreamTypes
<1>10. CASE TargetAdded
  BY <1>8, <1>9, <1>10 DEF TargetAdded
<1>11. CASE TargetRemoved
  BY <1>8, <1>9, <1>11 DEF TargetRemoved
<1>12. CASE TargetCurrent
  <2> DEFINE t == [Ensured EXCEPT !.current = TRUE, !.pending = TRUE]
  <2>1. t \in TargetState
    BY <1>9 DEF TargetState
  <2>2. Head(toClient).token \in Token
    <3>1. toClient[1] \in Messages /\ Head(toClient) = toClient[1] /\ toClient[1].type = "current"
      BY <1>12, Taken DEF TargetCurrent, Collect
    <3> QED
      BY <3>1, MessageParts DEF Token
  <2>3. WithToken(t, Head(toClient).token) \in TargetState
    <3> HIDE DEF t
    <3> QED
      BY <2>1, <2>2, WithTokenParts
  <2>4. target' \in TargetState
    BY <1>9, <1>12, <2>3 DEF TargetCurrent
  <2> QED
    BY <1>8, <1>9, <1>12, <2>4 DEF TargetCurrent
<1>13. CASE TargetReset
  BY <1>8, <1>9, <1>13 DEF TargetReset
<1>14. ASSUME NEW type \in {"doc", "gone"}, NEW kinds \in [Docs -> Kinds], HandleDocument(type, kinds)
       PROVE  TypeOK'
  <2>1. Head(toClient).doc \in Docs /\ Head(toClient).version \in Nat
    <3>1. toClient[1] \in Messages /\ Head(toClient) = toClient[1] /\ toClient[1].type = type
      BY <1>14, Taken DEF HandleDocument, Collect
    <3> QED
      BY <3>1, MessageParts
  <2>2. PICK d \in Docs : d = Head(toClient).doc
    BY <2>1
  <2>3. kinds[d] \in Kinds
    OBVIOUS
  <2>4. Record(Ensured, d, kinds[d]) \in TargetState
    BY <1>9, <2>3, RecordParts
  <2>5. target' \in TargetState \cup AbsentState
    BY <1>9, <1>14, <2>2, <2>4 DEF HandleDocument
  <2>6. updates' \in [Docs -> Nat]
    BY <1>9, <1>14, <2>1 DEF HandleDocument
  <2> QED
    BY <1>8, <1>9, <1>14, <2>5, <2>6 DEF HandleDocument
<1>15. CASE AddDocument
  <2>1. [d \in Docs |-> IF d \in keys THEN "modified" ELSE "added"] \in [Docs -> Kinds]
    BY DEF Kinds
  <2> QED
    BY <1>14, <1>15, <2>1 DEF AddDocument
<1>16. CASE RemoveDocument
  <2>1. [d \in Docs |-> IF d \in keys THEN "removed" ELSE "none"] \in [Docs -> Kinds]
    BY DEF Kinds
  <2> QED
    BY <1>14, <1>16, <2>1 DEF RemoveDocument
<1>17. CASE HandleExistenceFilter
  <2>1. target' \in TargetState \cup AbsentState
    BY <1>9, <1>17 DEF HandleExistenceFilter
  <2>2. resets' \in BOOLEAN
    BY <1>17 DEF HandleExistenceFilter
  <2> QED
    BY <1>8, <1>9, <1>17, <2>1, <2>2 DEF HandleExistenceFilter
<1>18. CASE RaiseSnapshot
  <2>1. PICK m : m = Head(toClient)
    OBVIOUS
  <2>2. m.version \in Nat /\ m.token \in Token /\ toClient' \in Seq(Messages)
    <3>1. Take("snapshot")
      BY <1>18 DEF RaiseSnapshot
    <3>2. toClient[1] \in Messages /\ Head(toClient) = toClient[1] /\ toClient[1].type = "snapshot"
      BY <3>1, Taken
    <3> QED
      BY <2>1, <3>1, <3>2, Taken, MessageParts
  <2>3. PICK t : t = IF Active /\ target.exists THEN WithToken(target, m.token) ELSE target
    OBVIOUS
  <2>4. t \in TargetState \cup AbsentState /\ (t.exists => t \in TargetState)
    <3>1. Active /\ target.exists => t \in TargetState
      BY <1>9, <2>2, <2>3, WithTokenParts
    <3>2. ~(Active /\ target.exists) => t = target
      BY <2>3
    <3> QED
      BY <1>9, <3>1, <3>2
  <2>5. PICK included : included = (Active /\ t.exists /\ t.pending)
    OBVIOUS
  <2>6. PICK mismatch : mismatch = (resets /\ listening)
    OBVIOUS
  <2>7. PICK cleared : cleared = IF included THEN Cleared(t) ELSE t
    OBVIOUS
  <2>8. /\ IF included
           THEN ApplyToDevice(t, m.version) /\ ApplyUpdates(Sort(t, "added") \cup Sort(t, "modified"))
           ELSE ApplyUpdates({}) /\ UNCHANGED <<keys, saved, local, view>>
        /\ listen' = IF mismatch THEN NoToken ELSE IF included /\ t.token # NoToken THEN t.token ELSE listen
        /\ target' = IF mismatch THEN Request(cleared, 2) ELSE cleared
        /\ toServer' = IF mismatch THEN toServer \o <<Unwatch, Watch(NoToken)>> ELSE toServer
        /\ repair' = CASE mismatch -> IF included THEN "pending" ELSE "lost"
                       [] ~mismatch /\ repair = "pending" /\ included /\ t.current -> "none"
                       [] OTHER -> repair
    BY <1>18, <2>1, <2>3, <2>5, <2>6, <2>7 DEF RaiseSnapshot
  <2>9. /\ updates' = NoUpdates /\ resets' = FALSE
        /\ UNCHANGED <<serverVars, listening, connected, crossed, spent>>
    BY <1>18 DEF RaiseSnapshot
  <2>10. cleared \in TargetState \cup AbsentState
    BY <2>4, <2>5, <2>7, ClearedParts
  <2>11. target' \in TargetState \cup AbsentState
    <3>1. Request(cleared, 2) \in TargetState \cup AbsentState
      BY <2>10, RequestParts
    <3> QED
      BY <2>8, <2>10, <3>1
  <2>12. toServer' \in Seq(Requests)
    <3>1. toServer \o <<Unwatch, Watch(NoToken)>> \in Seq(Requests) /\ toServer \in Seq(Requests)
      BY Sent, TokensOfUpdates DEF StreamTypes
    <3> QED
      BY <2>8, <3>1
  <2>13. repair' \in {"none", "pending", "lost"}
    BY <2>8 DEF HistoryTypes
  <2>14. cache' \in [Docs -> Nat]
    <3>1. \E a : ApplyUpdates(a)
      BY <2>8
    <3> QED
      BY <1>9, <3>1 DEF ApplyUpdates, DeviceTypes
  <2>15. included => t.token \in Token /\ t.current \in BOOLEAN
    BY <2>4, <2>5 DEF TargetState
  <2>16. DeviceTypes' /\ MemoryTypes'
    <3>1. CASE included
      <4>1. saved' \in Token
        BY <2>8, <2>15, <3>1 DEF ApplyToDevice, SavedTokens, DeviceTypes
      <4>2. keys' \subseteq Docs
        BY <2>8, <3>1 DEF ApplyToDevice, Sort, DeviceTypes
      <4>3. local' \in Token
        BY <2>8, <2>15, <3>1 DEF ApplyToDevice, MemoryTypes
      <4>4. view' \in [current : BOOLEAN, at : Nat]
        BY <2>2, <2>8, <2>15, <3>1 DEF ApplyToDevice
      <4>5. listen' \in Token
        BY <2>8, <2>15, <3>1, TokensOfUpdates DEF MemoryTypes
      <4> QED
        BY <2>9, <2>14, <4>1, <4>2, <4>3, <4>4, <4>5 DEF DeviceTypes, MemoryTypes
    <3>2. CASE ~included
      <4>1. listen' \in Token
        BY <2>8, <3>2, TokensOfUpdates DEF MemoryTypes
      <4> QED
        BY <2>8, <2>9, <2>14, <3>2, <4>1 DEF DeviceTypes, MemoryTypes
    <3> QED
      BY <3>1, <3>2
  <2> QED
    BY <2>2, <2>9, <2>11, <2>12, <2>13, <2>16, NewTargetType
       DEF ServerTypes, StreamTypes, HistoryTypes, Log, serverVars
<1>19. TypeOK => (ReleaseQuery => DeviceTypes' /\ MemoryTypes' /\ repair' \in {"none", "pending", "lost"})
  <2> SUFFICES ASSUME ReleaseQuery
               PROVE  DeviceTypes' /\ MemoryTypes' /\ repair' \in {"none", "pending", "lost"}
    OBVIOUS
  <2>1. NoToken \in Token
    BY TokensOfUpdates
  <2>2. DeviceTypes'
    BY DEF ReleaseQuery, DeviceTypes, MemoryTypes
  <2>3. MemoryTypes'
    BY <2>1 DEF ReleaseQuery, MemoryTypes
  <2>4. repair' \in {"none", "pending", "lost"}
    BY DEF ReleaseQuery, BrokenOff, HistoryTypes
  <2> QED
    BY <2>2, <2>3, <2>4
<1>20. Request(Ensured, 1) \in TargetState /\ Request(NewTarget, 1) \in TargetState
  BY <1>9, RequestParts, NewTargetType
<1>21. CASE Listen
  <2>1. target' \in TargetState \cup AbsentState /\ toServer' \in Seq(Requests)
    <3>1. Append(toServer, Watch(saved)) \in Seq(Requests) /\ toServer \in Seq(Requests)
      BY Sent DEF DeviceTypes, StreamTypes
    <3> QED
      BY <1>9, <1>20, <1>21, <3>1 DEF Listen
  <2> QED
    BY <1>21, <2>1 DEF Listen, ServerTypes, DeviceTypes, MemoryTypes, StreamTypes, HistoryTypes, Log,
       serverVars, deviceVars, historyVars
<1>22. CASE StopListening
  <2>1. target' \in TargetState \cup AbsentState /\ toServer' \in Seq(Requests)
    <3>1. Append(toServer, Unwatch) \in Seq(Requests) /\ toServer \in Seq(Requests)
      BY Sent, TokensOfUpdates DEF StreamTypes
    <3> QED
      BY <1>9, <1>20, <1>22, <3>1 DEF StopListening
  <2>2. DeviceTypes' /\ MemoryTypes' /\ repair' \in {"none", "pending", "lost"}
    BY <1>19, <1>22 DEF StopListening
  <2> QED
    BY <1>22, <2>1, <2>2 DEF StopListening, ServerTypes, StreamTypes, HistoryTypes, Log, serverVars
<1>23. CASE ProcessTargetError
  <2>1. toClient' \in Seq(Messages)
    BY <1>23, Taken DEF ProcessTargetError
  <2>2. DeviceTypes' /\ MemoryTypes' /\ HistoryTypes' /\ target' \in TargetState \cup AbsentState
    <3>1. CASE listening
      <4>1. DeviceTypes' /\ MemoryTypes' /\ repair' \in {"none", "pending", "lost"}
        BY <1>19, <1>23, <3>1 DEF ProcessTargetError
      <4>2. target' = NoTarget /\ crossed' \in BOOLEAN
        BY <1>23, <3>1 DEF ProcessTargetError
      <4> QED
        BY <1>9, <4>1, <4>2 DEF HistoryTypes
    <3>2. CASE ~listening
      BY <1>9, <1>23, <3>2 DEF ProcessTargetError, DeviceTypes, MemoryTypes, HistoryTypes,
         deviceVars, memoryVars, historyVars
    <3> QED
      BY <3>1, <3>2
  <2> QED
    BY <1>23, <2>1, <2>2 DEF ProcessTargetError, ServerTypes, StreamTypes, Log, serverVars
<1>24. CleanUpWatchStreamState /\ log' = log => ServerTypes' /\ StreamTypes'
  <2> SUFFICES ASSUME CleanUpWatchStreamState, log' = log PROVE ServerTypes' /\ StreamTypes'
    OBVIOUS
  <2>1. ServerTypes'
    BY DEF CleanUpWatchStreamState, ServerTypes, Log
  <2>2. StreamTypes'
    <3>1. toServer' \in Seq(Requests) /\ toClient' \in Seq(Messages)
      BY EmptySequence DEF CleanUpWatchStreamState
    <3> QED
      BY <3>1, NewTargetType DEF CleanUpWatchStreamState, StreamTypes
  <2> QED
    BY <2>1, <2>2
<1>25. CASE Break
  BY <1>24, <1>25 DEF Break, DeviceTypes, MemoryTypes, HistoryTypes, deviceVars, memoryVars, historyVars
<1>26. CASE WatchStreamDidOpen
  <2>1. target' \in TargetState \cup AbsentState /\ toServer' \in Seq(Requests)
    <3>1. <<Watch(listen)>> \in Seq(Requests) /\ toServer \in Seq(Requests)
      BY Sent DEF MemoryTypes, StreamTypes
    <3> QED
      BY <1>9, <1>20, <1>26, <3>1 DEF WatchStreamDidOpen
  <2> QED
    BY <1>26, <2>1 DEF WatchStreamDidOpen, ServerTypes, DeviceTypes, MemoryTypes, StreamTypes, HistoryTypes, Log,
       serverVars, deviceVars, memoryVars, historyVars
<1>27. CASE WentOffline
  BY <1>27 DEF WentOffline, ServerTypes, DeviceTypes, MemoryTypes, StreamTypes, HistoryTypes, Log,
     serverVars, deviceVars, streamVars, historyVars
<1>28. CASE Crash
  <2>1. DeviceTypes' /\ MemoryTypes' /\ HistoryTypes'
    BY <1>28, TokensOfUpdates DEF Crash, BrokenOff, DeviceTypes, MemoryTypes, HistoryTypes, deviceVars
  <2> QED
    BY <1>24, <1>28, <2>1 DEF Crash
<1>29. CASE UNCHANGED vars
  BY <1>29 DEF vars, ServerTypes, DeviceTypes, MemoryTypes, StreamTypes, HistoryTypes, Log,
     serverVars, deviceVars, memoryVars, streamVars, historyVars
<1> QED
  BY <1>1, <1>3, <1>4, <1>5, <1>6, <1>7, <1>10, <1>11, <1>12, <1>13, <1>15, <1>16, <1>17, <1>18,
     <1>21, <1>22, <1>23, <1>25, <1>26, <1>27, <1>28, <1>29 DEF Next, Serve, Receive


(* How the queue of messages changes.                                      *)
Shifts ==
  /\ Len(toClient) \in Nat /\ Len(toClient) >= 1 /\ Len(toClient') \in Nat
  /\ Len(toClient) = Len(toClient') + 1
  /\ \A k \in 1..Len(toClient') : toClient'[k] = toClient[k + 1]
Adds(type) ==
  /\ Len(toClient) \in Nat /\ Len(toClient') \in Nat
  /\ Len(toClient') = Len(toClient) + 1
  /\ \A k \in 1..Len(toClient) : toClient'[k] = toClient[k]
  /\ toClient'[Len(toClient')].type = type
Tells(first, S, marks, exact, token) ==
  LET n == Len(toClient)
      l == Len(toClient')
  IN  /\ n \in Nat /\ l \in Nat /\ n < l
      /\ \A k \in 1..n : toClient'[k] = toClient[k]
      /\ toClient'[l] = Snapshot(token)
      /\ first # <<>> => n + 2 <= l /\ toClient'[n + 1] = first[1]
      /\ \A d \in S : \E k \in (n + 1)..l : toClient'[k] = DocumentChange(d)
      /\ marks # <<>> => \E k \in (n + 1)..l : toClient'[k] = marks[1]
      /\ ~exact => n + 2 <= l /\ toClient'[l - 1] = Filter
      /\ \A k \in (n + 1)..l : \/ k = n + 1 /\ first # <<>> /\ toClient'[k] = first[1]
                               \/ \E d \in S : toClient'[k] = DocumentChange(d)
                               \/ marks # <<>> /\ toClient'[k] = marks[1]
                               \/ ~exact /\ k = l - 1 /\ toClient'[k] = Filter
                               \/ k = l /\ toClient'[k] = Snapshot(token)

(* The same, place by place in the queue.                                  *)
LEMMA ToldTells ==
  ASSUME TypeOK, NEW w, NEW first, NEW S, NEW marks, NEW exact, NEW token,
         Told(w, first, S, marks, exact, token)
  PROVE  Tells(first, S, marks, exact, token)
<1>1. PICK n \in Nat : n = Len(toClient)
  BY DEF TypeOK, StreamTypes
<1>2. PICK m \in Nat : m = Len(w)
  BY DEF Told, UpdateShape
<1>3. PICK q : q = toClient'
  OBVIOUS
<1>4. PICK l \in Nat : l = n + m
  OBVIOUS
<1>5. Joined(q, toClient, n, w, m, l)
  BY <1>1, <1>2, <1>3, <1>4 DEF Told, UpdateShape, Joined, TypeOK, StreamTypes
<1>6. /\ Len(q) = l
      /\ \A k \in 1..n : q[k] = toClient[k]
      /\ \A k \in 1..m : q[n + k] = w[k]
  BY <1>5, JoinedParts
<1>7. /\ m >= 1 /\ w[m] = Snapshot(token)
      /\ first # <<>> => m >= 2 /\ w[1] = first[1]
      /\ \A d \in S : \E k \in 1..m : w[k] = DocumentChange(d)
      /\ marks # <<>> => \E k \in 1..m : w[k] = marks[1]
      /\ ~exact => m >= 2 /\ w[m - 1] = Filter
      /\ \A k \in 1..m : \/ k = 1 /\ first # <<>> /\ w[k] = first[1]
                         \/ \E d \in S : w[k] = DocumentChange(d)
                         \/ marks # <<>> /\ w[k] = marks[1]
                         \/ ~exact /\ k = m - 1 /\ w[k] = Filter
                         \/ k = m /\ w[k] = Snapshot(token)
  BY <1>2 DEF Told, UpdateShape
<1>8. n < l /\ q[l] = Snapshot(token)
  <2>1. m \in 1..m
    BY <1>7
  <2> QED
    BY <1>4, <1>6, <1>7, <2>1
<1>9. first # <<>> => n + 2 <= l /\ q[n + 1] = first[1]
  <2>1. m >= 2 => 1 \in 1..m /\ n + 2 <= l
    BY <1>4
  <2> QED
    BY <1>6, <1>7, <2>1
<1>10. \A d \in S : \E k \in (n + 1)..l : q[k] = DocumentChange(d)
  <2>1. ASSUME NEW d \in S PROVE \E k \in (n + 1)..l : q[k] = DocumentChange(d)
    <3>1. PICK k \in 1..m : w[k] = DocumentChange(d)
      BY <1>7
    <3>2. n + k \in (n + 1)..l
      BY <1>4
    <3> QED
      BY <1>6, <3>1, <3>2
  <2> QED
    BY <2>1
<1>11. marks # <<>> => \E k \in (n + 1)..l : q[k] = marks[1]
  <2>1. ASSUME marks # <<>> PROVE \E k \in (n + 1)..l : q[k] = marks[1]
    <3>1. PICK k \in 1..m : w[k] = marks[1]
      BY <1>7, <2>1
    <3>2. n + k \in (n + 1)..l
      BY <1>4
    <3> QED
      BY <1>6, <3>1, <3>2
  <2> QED
    BY <2>1
<1>12. ~exact => n + 2 <= l /\ q[l - 1] = Filter
  <2>1. m >= 2 => m - 1 \in 1..m /\ n + 2 <= l /\ n + (m - 1) = l - 1
    BY <1>4
  <2> QED
    BY <1>6, <1>7, <2>1
<1>13. ASSUME NEW k \in (n + 1)..l
       PROVE  \/ k = n + 1 /\ first # <<>> /\ q[k] = first[1]
              \/ \E d \in S : q[k] = DocumentChange(d)
              \/ marks # <<>> /\ q[k] = marks[1]
              \/ ~exact /\ k = l - 1 /\ q[k] = Filter
              \/ k = l /\ q[k] = Snapshot(token)
  <2>1. PICK i \in 1..m : k = n + i
    <3>1. k - n \in 1..m /\ k = n + (k - n)
      BY <1>4
    <3> QED
      BY <3>1
  <2>2. q[k] = w[i]
    BY <1>6, <2>1
  <2>3. (i = 1 => k = n + 1) /\ (i = m - 1 => k = l - 1) /\ (i = m => k = l)
    BY <1>4, <2>1
  <2> QED
    BY <1>7, <2>2, <2>3
<1> QED
  BY <1>1, <1>3, <1>4, <1>6, <1>8, <1>9, <1>10, <1>11, <1>12, <1>13 DEF Tells

(* The messages an update is made of.                                      *)
LEMMA PieceTypes ==
  ASSUME Log
  PROVE  /\ \A d : /\ DocumentChange(d).type \in {"doc", "gone"} /\ DocumentChange(d).doc = d
                   /\ DocumentChange(d).version = LastWrite(d, Version)
                   /\ DocumentChange(d).type = "doc" <=> Lives(d, Version)
         /\ Filter.type = "filter" /\ Filter.count = Cardinality(Live(Version))
         /\ \A token : /\ Snapshot(token).type = "snapshot" /\ Snapshot(token).version = Version
                       /\ Snapshot(token).token = token
         /\ Added # <<>> /\ Added[1].type = "added"
         /\ Reset # <<>> /\ Reset[1].type = "reset"
         /\ Current # <<>> /\ Current[1].type = "current" /\ Current[1].token = Version
<1>1. \A d : /\ DocumentChange(d).type \in {"doc", "gone"} /\ DocumentChange(d).doc = d
             /\ DocumentChange(d).version = LastWrite(d, Version)
             /\ DocumentChange(d).type = "doc" <=> Lives(d, Version)
  BY DEF DocumentChange
<1>2. Filter.type = "filter" /\ Filter.count = Cardinality(Live(Version))
  BY DEF Filter
<1>3. \A token : /\ Snapshot(token).type = "snapshot" /\ Snapshot(token).version = Version
                 /\ Snapshot(token).token = token
  BY DEF Snapshot
<1>4. Added # <<>> /\ Added[1].type = "added"
  BY DEF Added, TargetChange
<1>5. Reset # <<>> /\ Reset[1].type = "reset"
  BY DEF Reset, TargetChange
<1>6. Current # <<>> /\ Current[1].type = "current" /\ Current[1].token = Version
  BY DEF Current, TargetChange
<1> QED
  BY <1>1, <1>2, <1>3, <1>4, <1>5, <1>6

(* Each step takes a message in, adds one, tells an update, drops the      *)
(* queue or leaves it.                                                     *)
LEMMA TakeShifts ==
  ASSUME TypeOK, NEW type, Take(type)
  PROVE  Shifts /\ toClient[1].type = type /\ Head(toClient) = toClient[1]
<1>1. /\ toClient[1].type = type /\ Head(toClient) = toClient[1]
      /\ Len(toClient) \in Nat /\ Len(toClient) >= 1 /\ Len(toClient') = Len(toClient) - 1
      /\ \A k \in 1..(Len(toClient) - 1) : toClient'[k] = toClient[k + 1]
  BY Taken
<1> QED
  BY <1>1 DEF Shifts

LEMMA AppendAdds ==
  ASSUME TypeOK, NEW type \in {"removed", "rejected"},
         toClient' = Append(toClient, TargetChange(type, NoToken))
  PROVE  Adds(type)
<1>1. TargetChange(type, NoToken) \in Messages /\ TargetChange(type, NoToken).type = type
  BY MessageTypes DEF TypeOK, ServerTypes, TargetChange
<1>2. toClient \in Seq(Messages)
  BY DEF TypeOK, StreamTypes
<1> QED
  BY <1>1, <1>2, AppendParts DEF Adds

(* The queue keeps what it holds and may get more.                         *)
Grows ==
  /\ Len(toClient) \in Nat /\ Len(toClient') \in Nat /\ Len(toClient) <= Len(toClient')
  /\ \A k \in 1..Len(toClient) : toClient'[k] = toClient[k]

LEMMA AddsGrows == ASSUME NEW type, Adds(type) PROVE Grows
BY DEF Adds, Grows

LEMMA TellsGrows ==
  ASSUME NEW first, NEW S, NEW marks, NEW exact, NEW token, Tells(first, S, marks, exact, token)
  PROVE  Grows
BY DEF Tells, Grows

LEMMA KeptGrows == ASSUME TypeOK, toClient' = toClient PROVE Grows
BY DEF Grows, TypeOK, StreamTypes

SomethingTold ==
  \E first \in {<<>>, Added, Reset}, S \in SUBSET Docs, marks \in {<<>>, Current},
     exact \in BOOLEAN, token \in {NoToken, Version} : Tells(first, S, marks, exact, token)

(* All that can happen to the queue of messages.                           *)
LEMMA QueueSteps ==
  ASSUME TypeOK, [Next]_vars
  PROVE  \/ toClient' = toClient /\ watched' = watched /\ log' = log
         \/ /\ toClient' = toClient /\ watched' = watched
            /\ \E e \in [doc : Docs, live : BOOLEAN] : log' = Append(log, e)
         \/ toClient' = <<>> /\ watched'.sent = watched.sent /\ log' = log
         \/ Shifts /\ watched' = watched /\ log' = log
         \/ (Adds("removed") \/ Adds("rejected")) /\ watched'.sent = watched.sent /\ log' = log
         \/ SomethingTold /\ watched'.sent = Version /\ log' = log
<1>1. ASSUME NEW d \in Docs, NEW live \in BOOLEAN, Write(d, live)
      PROVE  /\ toClient' = toClient /\ watched' = watched
             /\ \E e \in [doc : Docs, live : BOOLEAN] : log' = Append(log, e)
  BY <1>1 DEF Write, streamVars
<1>2. ASSUME NEW w, NEW first \in {<<>>, Added, Reset}, NEW S \in SUBSET Docs, NEW marks \in {<<>>, Current},
             NEW exact \in BOOLEAN, NEW token \in {NoToken, Version}, Told(w, first, S, marks, exact, token)
      PROVE  SomethingTold /\ watched'.sent = Version /\ log' = log
  <2>1. Tells(first, S, marks, exact, token)
    BY <1>2, ToldTells
  <2> QED
    BY <1>2, <2>1 DEF SomethingTold, Told
<1>3. ASSUME NEW exact \in BOOLEAN, AnswerWatch(exact)
      PROVE  SomethingTold /\ watched'.sent = Version /\ log' = log
  <2>1. Named(Head(toServer).token, exact) \in SUBSET Docs
    BY DEF Named, Changed, Died
  <2> QED
    BY <1>2, <1>3, <2>1, AnswerWatchTells
<1>4. ASSUME NEW exact \in BOOLEAN, NEW token \in {NoToken, Version}, Push(exact, token)
      PROVE  SomethingTold /\ watched'.sent = Version /\ log' = log
  <2>1. Named(watched.sent, exact) \in SUBSET Docs
    BY DEF Named, Changed, Died
  <2> QED
    BY <1>2, <1>4, <2>1, PushTells
<1>5. CASE ResetByServer
  <2>1. Live(Version) \in SUBSET Docs /\ TRUE \in BOOLEAN
    BY DEF Live
  <2>2. SomethingTold /\ watched'.sent = Version /\ log' = log
    BY <1>2, <1>5, <2>1, ResetTells
  <2> QED
    BY <2>2
<1>6. CASE AnswerUnwatch
  <2>1. Adds("removed")
    BY <1>6, AppendAdds DEF AnswerUnwatch
  <2> QED
    BY <1>6, <2>1 DEF AnswerUnwatch, TypeOK, ServerTypes
<1>7. CASE RejectByServer
  <2>1. Adds("rejected")
    BY <1>7, AppendAdds DEF RejectByServer
  <2> QED
    BY <1>7, <2>1 DEF RejectByServer, TypeOK, ServerTypes
<1>8. ASSUME NEW type, Take(type), UNCHANGED serverVars
      PROVE  Shifts /\ watched' = watched /\ log' = log
  BY <1>8, TakeShifts DEF serverVars
<1>9. ASSUME NEW type, Collect(type) PROVE Shifts /\ watched' = watched /\ log' = log
  BY <1>8, <1>9 DEF Collect
<1>10. CASE Receive
  BY <1>8, <1>9, <1>10 DEF Receive, TargetAdded, TargetRemoved, TargetCurrent, TargetReset, AddDocument, RemoveDocument,
     HandleDocument, HandleExistenceFilter, RaiseSnapshot, ProcessTargetError
<1>11. CASE Break \/ Crash
  BY <1>11 DEF Break, Crash, CleanUpWatchStreamState, TypeOK, ServerTypes
<1>12. CASE Listen \/ StopListening \/ WatchStreamDidOpen \/ WentOffline
  BY <1>12 DEF Listen, StopListening, WatchStreamDidOpen, WentOffline, serverVars, streamVars
<1>13. CASE UNCHANGED vars
  BY <1>13 DEF vars, serverVars, streamVars
<1> QED
  BY <1>1, <1>3, <1>4, <1>5, <1>6, <1>7, <1>10, <1>11, <1>12, <1>13 DEF Next, Serve

-----------------------------------------------------------------------------
(* The messages under way.                                                 *)

(* A snapshot to come stays to come.                                       *)
LEMMA FlushesStays ==
  ASSUME Grows, NEW a, Flushes(a)
  PROVE  Flushes(a)'
<1>1. PICK j \in 1..Len(toClient) :
        /\ j >= a /\ toClient[j].type = "snapshot"
        /\ \A k \in 1..Len(toClient) : a <= k /\ k < j => toClient[k].type \notin Answers
  BY DEF Flushes
<1>2. j \in 1..Len(toClient') /\ toClient'[j].type = "snapshot"
  BY <1>1 DEF Grows
<1>3. ASSUME NEW k \in 1..Len(toClient'), a <= k, k < j PROVE toClient'[k].type \notin Answers
  <2>1. k \in 1..Len(toClient)
    BY <1>1, <1>3 DEF Grows
  <2> QED
    BY <1>1, <1>3, <2>1 DEF Grows
<1> QED
  BY <1>1, <1>2, <1>3 DEF Flushes

LEMMA FlushesShift ==
  ASSUME Shifts, NEW a \in Nat, a >= 1, NEW b \in Nat, b = a + 1, Flushes(b)
  PROVE  Flushes(a)'
<1>1. PICK j \in 1..Len(toClient) :
        /\ j >= b /\ toClient[j].type = "snapshot"
        /\ \A k \in 1..Len(toClient) : b <= k /\ k < j => toClient[k].type \notin Answers
  BY DEF Flushes
<1>2. j - 1 \in 1..Len(toClient') /\ j - 1 >= a /\ (j - 1) + 1 = j
  BY <1>1 DEF Shifts
<1>3. toClient'[j - 1].type = "snapshot"
  BY <1>1, <1>2 DEF Shifts
<1>4. ASSUME NEW k \in 1..Len(toClient'), a <= k, k < j - 1 PROVE toClient'[k].type \notin Answers
  <2>1. k + 1 \in 1..Len(toClient) /\ b <= k + 1 /\ k + 1 < j
    BY <1>1, <1>4 DEF Shifts
  <2> QED
    BY <1>1, <2>1 DEF Shifts
<1> QED
  BY <1>2, <1>3, <1>4 DEF Flushes

LEMMA FlushesAfterTake ==
  ASSUME Shifts, Flushes(1), toClient[1].type # "snapshot"
  PROVE  Flushes(1)' /\ toClient[1].type \notin Answers
<1>1. PICK j \in 1..Len(toClient) :
        /\ j >= 1 /\ toClient[j].type = "snapshot"
        /\ \A k \in 1..Len(toClient) : 1 <= k /\ k < j => toClient[k].type \notin Answers
  BY DEF Flushes
<1>2. j >= 2 /\ 1 \in 1..Len(toClient) /\ \A k \in 1..Len(toClient) : 2 <= k => 1 <= k
  BY <1>1 DEF Shifts
<1>3. Flushes(2)
  BY <1>1, <1>2 DEF Flushes
<1>4. Flushes(1)'
  BY <1>3, FlushesShift
<1> QED
  BY <1>1, <1>2, <1>4

HistoryKept ==
  /\ Version \in Nat /\ Version' \in Nat /\ Version <= Version'
  /\ \A d : \A v \in 0..Version : LastWrite(d, v)' = LastWrite(d, v) /\ (Lives(d, v)' <=> Lives(d, v))
  /\ \A v \in 0..Version : Live(v)' = Live(v)
  /\ \A d : LastWrite(d, Version) \in Nat /\ LastWrite(d, Version)' \in Nat
  /\ \A d : LastWrite(d, Version) <= LastWrite(d, Version)'

LEMMA SameHistory ==
  ASSUME log' = log
  PROVE  /\ Version' = Version
         /\ \A d : \A v : LastWrite(d, v)' = LastWrite(d, v) /\ (Lives(d, v)' <=> Lives(d, v))
         /\ \A v : Live(v)' = Live(v)
         /\ \A d : LastWrite(d, Version)' = LastWrite(d, Version) /\ (Lives(d, Version)' <=> Lives(d, Version))
         /\ Live(Version)' = Live(Version)
BY DEF Version, LastWrite, Lives, Live

(* The versions up to now are not changed by a write.                      *)
LEMMA HistoryIsKept ==
  ASSUME Log, log' = log \/ \E e \in [doc : Docs, live : BOOLEAN] : log' = Append(log, e)
  PROVE  HistoryKept
<1>1. Version \in Nat /\ \A d : LastWrite(d, Version) \in 0..Version
  BY LastWriteIs, MessageTypes
<1>2. CASE log' = log
  BY <1>1, <1>2, SameHistory DEF HistoryKept
<1>3. CASE \E e \in [doc : Docs, live : BOOLEAN] : log' = Append(log, e)
  <2>1. PICK e \in [doc : Docs, live : BOOLEAN] : log' = Append(log, e)
    BY <1>3
  <2>2. /\ Version' = Version + 1
        /\ \A d : \A v \in 0..Version :
             LastWrite(d, v)' = LastWrite(d, v) /\ (Lives(d, v)' <=> Lives(d, v))
        /\ \A v \in 0..Version : Live(v)' = Live(v)
        /\ \A d : LastWrite(d, Version)' = IF d = e.doc THEN Version + 1 ELSE LastWrite(d, Version)
    BY <2>1, WriteKeepsThePast
  <2>3. ASSUME NEW d PROVE LastWrite(d, Version)' \in Nat /\ LastWrite(d, Version) <= LastWrite(d, Version)'
    BY <1>1, <2>2
  <2> QED
    BY <1>1, <2>2, <2>3 DEF HistoryKept
<1> QED
  BY <1>2, <1>3

(* The new messages of an update, at the places n + 1 to l.                *)
ToldTypes(n, l, first, S, exact, token) ==
  /\ n \in Nat /\ l \in Nat /\ n < l /\ n = Len(toClient) /\ l = Len(toClient')
  /\ toClient'[l].type = "snapshot"
  /\ \A k \in (n + 1)..l :
       /\ toClient'[k].type \in {"added", "reset"} =>
            k = n + 1 /\ first # <<>> /\ toClient'[k].type = first[1].type
       /\ toClient'[k].type \in {"added", "reset", "doc", "gone", "current", "filter", "snapshot"}
       /\ toClient'[k].type = "snapshot" =>
            k = l /\ toClient'[k].version = Version /\ toClient'[k].token = token
       /\ toClient'[k].type \in {"doc", "gone"} =>
            /\ toClient'[k].doc \in S /\ toClient'[k].version = LastWrite(toClient'[k].doc, Version)
            /\ toClient'[k].type = "doc" <=> Lives(toClient'[k].doc, Version)
       /\ toClient'[k].type = "filter" =>
            ~exact /\ k + 1 = l /\ toClient'[k].count = Cardinality(Live(Version))
       /\ toClient'[k].type = "current" => toClient'[k].token = Version

(* The types of the messages told, from place n + 1 to the snapshot at     *)
(* place l.                                                                *)
LEMMA ToldPieces ==
  ASSUME Log, NEW first \in {<<>>, Added, Reset}, NEW S \in SUBSET Docs, NEW marks \in {<<>>, Current},
         NEW exact, NEW token, Tells(first, S, marks, exact, token)
  PROVE  \E n, l \in Nat : ToldTypes(n, l, first, S, exact, token)
<1>1. PICK n \in Nat : n = Len(toClient)
  BY DEF Tells
<1>2. PICK l \in Nat : l = Len(toClient') /\ n < l
  BY <1>1 DEF Tells
<1>3. toClient'[l].type = "snapshot" /\ toClient'[l].version = Version /\ toClient'[l].token = token
  BY <1>2, PieceTypes DEF Tells
<1>4. ASSUME NEW k \in (n + 1)..l, NEW m, m = toClient'[k]
      PROVE  /\ m.type \in {"added", "reset"} => k = n + 1 /\ first # <<>> /\ m.type = first[1].type
             /\ m.type \in {"added", "reset", "doc", "gone", "current", "filter", "snapshot"}
             /\ m.type = "snapshot" => k = l /\ m.version = Version /\ m.token = token
             /\ m.type \in {"doc", "gone"} => /\ m.doc \in S /\ m.version = LastWrite(m.doc, Version)
                                              /\ m.type = "doc" <=> Lives(m.doc, Version)
             /\ m.type = "filter" => ~exact /\ k + 1 = l /\ m.count = Cardinality(Live(Version))
             /\ m.type = "current" => m.token = Version
  <2>1. \/ k = n + 1 /\ first # <<>> /\ m = first[1]
        \/ \E d \in S : m = DocumentChange(d)
        \/ marks # <<>> /\ m = marks[1]
        \/ ~exact /\ k = l - 1 /\ m = Filter
        \/ k = l /\ m = Snapshot(token)
    BY <1>1, <1>2, <1>4 DEF Tells
  <2>2. CASE k = n + 1 /\ first # <<>> /\ m = first[1]
    <3>1. first[1].type \in {"added", "reset"}
      BY <2>2, PieceTypes
    <3> QED
      BY <2>2, <3>1
  <2>3. CASE \E d \in S : m = DocumentChange(d)
    BY <2>3, PieceTypes
  <2>4. CASE marks # <<>> /\ m = marks[1]
    <3>1. m.type = "current" /\ m.token = Version
      BY <2>4, PieceTypes
    <3> QED
      BY <3>1
  <2>5. CASE ~exact /\ k = l - 1 /\ m = Filter
    <3>1. m.type = "filter" /\ m.count = Cardinality(Live(Version))
      BY <2>5, PieceTypes
    <3>2. k + 1 = l
      BY <2>5
    <3> QED
      BY <2>5, <3>1, <3>2
  <2>6. CASE k = l /\ m = Snapshot(token)
    BY <1>3, <1>4, <2>6
  <2> QED
    BY <2>1, <2>2, <2>3, <2>4, <2>5, <2>6
<1> QED
  BY <1>1, <1>2, <1>3, <1>4 DEF ToldTypes

(* Every batch is closed by its snapshot.                                  *)
LEMMA BatchesStay ==
  ASSUME TypeOK, QueueOK, [Next]_vars
  PROVE  BatchesEnd'
<1> SUFFICES ASSUME NEW k \in 1..Len(toClient'),
                    toClient'[k].type \in {"doc", "gone", "filter", "current", "reset"}
             PROVE  Flushes(k)'
  BY DEF BatchesEnd
<1>1. ASSUME Grows, k \in 1..Len(toClient) PROVE Flushes(k)'
  <2>1. toClient'[k] = toClient[k]
    BY <1>1 DEF Grows
  <2> QED
    BY <1>1, <2>1, FlushesStays DEF QueueOK, BatchesEnd
<1>2. CASE toClient' = toClient
  BY <1>1, <1>2, KeptGrows
<1>3. CASE toClient' = <<>>
  <2>1. Len(toClient') = 0
    BY <1>3
  <2>2. 1..0 = {}
    OBVIOUS
  <2> QED
    BY <2>1, <2>2
<1>4. CASE Shifts
  <2>1. PICK b \in Nat : b = k + 1
    BY <1>4 DEF Shifts
  <2>2. k \in Nat /\ k >= 1 /\ b \in 1..Len(toClient) /\ toClient'[k] = toClient[b]
    BY <1>4, <2>1 DEF Shifts
  <2>3. Flushes(b)
    BY <2>2 DEF QueueOK, BatchesEnd
  <2> QED
    BY <1>4, <2>1, <2>2, <2>3, FlushesShift
<1>5. ASSUME NEW type \in {"removed", "rejected"}, Adds(type) PROVE Flushes(k)'
  <2>1. k \in 1..Len(toClient) \/ k = Len(toClient')
    BY <1>5 DEF Adds
  <2>2. k # Len(toClient')
    BY <1>5 DEF Adds
  <2> QED
    BY <1>1, <1>5, <2>1, <2>2, AddsGrows
<1>6. CASE SomethingTold
  <2>1. PICK first \in {<<>>, Added, Reset}, S \in SUBSET Docs, marks \in {<<>>, Current},
             exact \in BOOLEAN, token \in {NoToken, Version} : Tells(first, S, marks, exact, token)
    BY <1>6 DEF SomethingTold
  <2>2. CASE k \in 1..Len(toClient)
    BY <1>1, <2>1, <2>2, TellsGrows
  <2>3. CASE k \notin 1..Len(toClient)
    <3>1. Log
      BY DEF TypeOK, ServerTypes
    <3>2. PICK n \in Nat, l \in Nat : ToldTypes(n, l, first, S, exact, token)
      BY <2>1, <3>1, ToldPieces
    <3>3. n = Len(toClient) /\ l = Len(toClient') /\ n < l
      BY <3>2 DEF ToldTypes
    <3>4. k \in (n + 1)..l /\ l \in 1..l
      BY <2>3, <3>3
    <3>5. ASSUME NEW i \in 1..l, k <= i, i < l PROVE toClient'[i].type \notin Answers
      <4>1. CASE i = k
        BY <4>1 DEF Answers
      <4>2. CASE i # k
        <5>1. i \in (n + 1)..l /\ i # n + 1
          BY <3>4, <3>5, <4>2
        <5> QED
          BY <3>2, <5>1 DEF ToldTypes, Answers
      <4> QED
        BY <4>1, <4>2
    <3>6. l >= k
      BY <3>4
    <3>7. toClient'[l].type = "snapshot"
      BY <3>2 DEF ToldTypes
    <3> QED
      BY <3>3, <3>4, <3>5, <3>6, <3>7 DEF Flushes
  <2> QED
    BY <2>2, <2>3
<1> QED
  BY <1>2, <1>3, <1>4, <1>5, <1>6, QueueSteps

(* Of the messages after a step, the first are those of before, without    *)
(* the first s of them, ...                                                *)
Carries(s) ==
  /\ Len(toClient) \in Nat /\ Len(toClient') \in Nat
  /\ \A k \in 1..Len(toClient') : k + s <= Len(toClient) => toClient'[k] = toClient[k + s]
  /\ Len(toClient) <= Len(toClient') + s

(* ... and the others tell what the server knows now.                      *)
Fresh(k) ==
  \/ toClient'[k].type \in {"removed", "rejected"}
  \/ /\ toClient'[k].type \in {"added", "reset", "doc", "gone", "current", "filter", "snapshot"}
     /\ toClient'[k].type = "snapshot" => /\ k = Len(toClient') /\ toClient'[k].version = Version
                                          /\ toClient'[k].token \in {NoToken, Version}
     /\ toClient'[k].type \in {"doc", "gone"} => toClient'[k].version = LastWrite(toClient'[k].doc, Version)
     /\ toClient'[k].type = "filter" =>
          /\ k + 1 = Len(toClient') /\ toClient'[k + 1].type = "snapshot"
          /\ toClient'[k + 1].version = Version /\ toClient'[k].count = Cardinality(Live(Version))
     /\ toClient'[k].type = "current" => toClient'[k].token = Version

Carried == \E s \in {0, 1} : Carries(s) /\ \A k \in 1..Len(toClient') : k + s > Len(toClient) => Fresh(k)

(* A step carries the messages over and tells only what the server knows   *)
(* now.                                                                    *)
LEMMA QueueIsCarried ==
  ASSUME TypeOK, [Next]_vars
  PROVE  /\ HistoryKept /\ watched'.sent \in {watched.sent, Version}
         /\ toClient' = <<>> \/ Carried
<1>1. Log
  BY DEF TypeOK, ServerTypes
<1>2. HistoryKept
  BY <1>1, QueueSteps, HistoryIsKept
<1>3. watched'.sent \in {watched.sent, Version}
  BY QueueSteps
<1>4. CASE toClient' = toClient
  <2>1. Len(toClient) \in Nat
    BY DEF TypeOK, StreamTypes
  <2>2. Carries(0) /\ \A k \in 1..Len(toClient') : ~(k + 0 > Len(toClient))
    BY <1>4, <2>1 DEF Carries
  <2> QED
    BY <1>2, <1>3, <2>2 DEF Carried
<1>5. CASE Shifts
  <2>1. Carries(1) /\ \A k \in 1..Len(toClient') : ~(k + 1 > Len(toClient))
    BY <1>5 DEF Shifts, Carries
  <2> QED
    BY <1>2, <1>3, <2>1 DEF Carried
<1>6. ASSUME NEW type \in {"removed", "rejected"}, Adds(type) PROVE Carried
  <2>1. Carries(0)
    BY <1>6 DEF Adds, Carries
  <2>2. ASSUME NEW k \in 1..Len(toClient'), k + 0 > Len(toClient) PROVE Fresh(k)
    <3>1. k = Len(toClient')
      BY <1>6, <2>2 DEF Adds
    <3> QED
      BY <1>6, <3>1 DEF Adds, Fresh
  <2> QED
    BY <2>1, <2>2 DEF Carried
<1>7. CASE SomethingTold
  <2>1. PICK first \in {<<>>, Added, Reset}, S \in SUBSET Docs, marks \in {<<>>, Current},
             exact \in BOOLEAN, token \in {NoToken, Version} : Tells(first, S, marks, exact, token)
    BY <1>7 DEF SomethingTold
  <2>2. PICK n \in Nat, l \in Nat : ToldTypes(n, l, first, S, exact, token)
    BY <1>1, <2>1, ToldPieces
  <2>3. n = Len(toClient) /\ l = Len(toClient') /\ n < l /\ \A k \in 1..n : toClient'[k] = toClient[k]
    BY <2>1, <2>2 DEF ToldTypes, Tells
  <2>4. Carries(0)
    BY <2>3 DEF Carries
  <2>5. ASSUME NEW k \in 1..Len(toClient'), k + 0 > Len(toClient) PROVE Fresh(k)
    <3>1. k \in (n + 1)..l /\ l \in (n + 1)..l
      BY <2>3, <2>5
    <3>2. toClient'[l].type = "snapshot" /\ toClient'[l].version = Version
      BY <2>2, <3>1 DEF ToldTypes
    <3>3. /\ toClient'[k].type \in {"added", "reset", "doc", "gone", "current", "filter", "snapshot"}
          /\ toClient'[k].type = "snapshot" =>
               k = l /\ toClient'[k].version = Version /\ toClient'[k].token = token
          /\ toClient'[k].type \in {"doc", "gone"} => toClient'[k].version = LastWrite(toClient'[k].doc, Version)
          /\ toClient'[k].type = "filter" => k + 1 = l /\ toClient'[k].count = Cardinality(Live(Version))
          /\ toClient'[k].type = "current" => toClient'[k].token = Version
      BY <2>2, <3>1 DEF ToldTypes
    <3> QED
      BY <2>3, <3>2, <3>3 DEF Fresh
  <2> QED
    BY <1>2, <1>3, <2>4, <2>5 DEF Carried
<1> QED
  BY <1>2, <1>3, <1>4, <1>5, <1>6, <1>7, QueueSteps

LEMMA NoMessages == Len(<<>>) = 0 /\ 1..0 = {}
OBVIOUS

(* What is known of a place of the queue by its type.                      *)
LEMMA PlaceTypes ==
  ASSUME TypeOK, NEW k \in 1..Len(toClient)
  PROVE  /\ toClient[k] \in Messages
         /\ toClient[k].type \in {"doc", "gone"} => toClient[k].doc \in Docs /\ toClient[k].version \in Nat
         /\ toClient[k].type = "current" => toClient[k].token \in Nat
         /\ toClient[k].type = "snapshot" => toClient[k].version \in Nat /\ toClient[k].token \in Token
<1>1. toClient[k] \in Messages
  BY DEF TypeOK, StreamTypes
<1> QED
  BY <1>1, MessageParts

LEMMA FiltersStay ==
  ASSUME TypeOK, QueueOK, [Next]_vars
  PROVE  FiltersCount'
<1> SUFFICES ASSUME NEW k \in 1..Len(toClient'), toClient'[k].type = "filter"
             PROVE  /\ k + 1 \in 1..Len(toClient') /\ toClient'[k + 1].type = "snapshot"
                    /\ toClient'[k].count = Cardinality(Live(toClient[k + 1].version)')
  BY DEF FiltersCount
<1>1. HistoryKept /\ Carried
  <2>1. toClient' # <<>>
    BY NoMessages
  <2> QED
    BY <2>1, QueueIsCarried
<1>2. PICK s \in {0, 1} : Carries(s) /\ \A i \in 1..Len(toClient') : i + s > Len(toClient) => Fresh(i)
  BY <1>1 DEF Carried
<1>3. CASE k + s <= Len(toClient)
  <2>1. k + s \in 1..Len(toClient) /\ toClient'[k] = toClient[k + s]
    BY <1>2, <1>3 DEF Carries
  <2>2. /\ k + s + 1 \in 1..Len(toClient) /\ toClient[k + s + 1].type = "snapshot"
        /\ toClient[k + s].count = Cardinality(Live(toClient[k + s + 1].version))
    BY <2>1 DEF QueueOK, FiltersCount
  <2>3. k + 1 \in 1..Len(toClient') /\ (k + 1) + s = k + s + 1 /\ (k + 1) + s <= Len(toClient)
    BY <1>2, <2>2 DEF Carries
  <2>4. toClient'[k + 1] = toClient[k + s + 1]
    BY <1>2, <2>3 DEF Carries
  <2>5. PICK v : v = toClient[k + s + 1].version
    OBVIOUS
  <2>6. v \in 0..Version
    <3>1. v \in Nat
      BY <2>2, <2>5, PlaceTypes
    <3>2. v <= Version
      BY <2>2, <2>5 DEF QueueOK, VersionsBound
    <3> QED
      BY <1>1, <3>1, <3>2 DEF HistoryKept
  <2>7. Live(v)' = Live(v)
    BY <1>1, <2>6 DEF HistoryKept
  <2>8. Live(toClient[k + 1].version)' = Live(v)
    BY <2>4, <2>5, <2>7
  <2> QED
    BY <2>1, <2>2, <2>3, <2>4, <2>5, <2>8
<1>4. CASE k + s > Len(toClient)
  <2>1. /\ k + 1 = Len(toClient') /\ toClient'[k + 1].type = "snapshot"
        /\ toClient'[k + 1].version = Version /\ toClient'[k].count = Cardinality(Live(Version))
    BY <1>2, <1>4 DEF Fresh
  <2>2. PICK v : v = Version
    OBVIOUS
  <2>3. v \in 0..Version /\ Live(v)' = Live(v)
    BY <1>1, <2>2 DEF HistoryKept
  <2>4. Live(toClient[k + 1].version)' = Live(v)
    BY <2>1, <2>2, <2>3
  <2>5. k + 1 \in 1..Len(toClient')
    BY <1>2, <2>1 DEF Carries
  <2> QED
    BY <2>1, <2>2, <2>4, <2>5
<1> QED
  BY <1>2, <1>3, <1>4 DEF Carries

LEMMA ContentsStayBound ==
  ASSUME TypeOK, QueueOK, [Next]_vars
  PROVE  ContentsBound'
<1> SUFFICES ASSUME NEW k \in 1..Len(toClient'), toClient'[k].type \in {"doc", "gone"}, NEW d, d = toClient'[k].doc
             PROVE  toClient'[k].version <= LastWrite(d, Version)'
  BY DEF ContentsBound
<1>1. HistoryKept /\ Carried
  <2>1. toClient' # <<>>
    BY NoMessages
  <2> QED
    BY <2>1, QueueIsCarried
<1>2. PICK s \in {0, 1} : Carries(s) /\ \A i \in 1..Len(toClient') : i + s > Len(toClient) => Fresh(i)
  BY <1>1 DEF Carried
<1>3. toClient'[k].version \in Nat /\ toClient'[k].version <= LastWrite(d, Version)
  <2>1. CASE k + s <= Len(toClient)
    <3>1. k + s \in 1..Len(toClient) /\ toClient'[k] = toClient[k + s]
      BY <1>2, <2>1 DEF Carries
    <3> QED
      BY <3>1, PlaceTypes DEF QueueOK, ContentsBound
  <2>2. CASE k + s > Len(toClient)
    <3>1. toClient'[k].version = LastWrite(d, Version)
      BY <1>2, <2>2 DEF Fresh
    <3> QED
      BY <1>1, <3>1 DEF HistoryKept
  <2> QED
    BY <1>2, <2>1, <2>2 DEF Carries
<1> QED
  BY <1>1, <1>3 DEF HistoryKept

LEMMA VersionsStayBound ==
  ASSUME TypeOK, QueueOK, [Next]_vars
  PROVE  VersionsBound'
<1>1. HistoryKept /\ watched'.sent \in {watched.sent, Version} /\ (toClient' = <<>> \/ Carried)
  BY QueueIsCarried
<1>2. watched'.sent <= Version'
  <2>1. watched.sent \in Nat /\ watched.sent <= Version
    BY DEF TypeOK, ServerTypes, QueueOK, VersionsBound
  <2> QED
    BY <1>1, <2>1 DEF HistoryKept
<1>3. ASSUME NEW k \in 1..Len(toClient')
      PROVE  /\ toClient'[k].type = "snapshot" => /\ toClient'[k].version <= Version'
                                                  /\ toClient'[k].token <= toClient'[k].version
             /\ toClient'[k].type = "current" => toClient'[k].token <= Version'
  <2>1. toClient' # <<>>
    BY NoMessages
  <2>2. PICK s \in {0, 1} : Carries(s) /\ \A i \in 1..Len(toClient') : i + s > Len(toClient) => Fresh(i)
    BY <1>1, <2>1 DEF Carried
  <2>3. Version \in Nat /\ Version' \in Nat /\ Version <= Version'
    BY <1>1 DEF HistoryKept
  <2>4. CASE k + s <= Len(toClient)
    <3>1. k + s \in 1..Len(toClient) /\ toClient'[k] = toClient[k + s]
      BY <2>2, <2>4 DEF Carries
    <3>2. PICK m : m = toClient[k + s]
      OBVIOUS
    <3>3. /\ m.type = "snapshot" => m.version \in Nat /\ m.version <= Version /\ m.token <= m.version
          /\ m.type = "current" => m.token \in Nat /\ m.token <= Version
      BY <3>1, <3>2, PlaceTypes DEF QueueOK, VersionsBound
    <3>4. /\ m.type = "snapshot" => m.version <= Version'
          /\ m.type = "current" => m.token <= Version'
      BY <2>3, <3>3
    <3> QED
      BY <3>1, <3>2, <3>3, <3>4
  <2>5. CASE k + s > Len(toClient)
    <3>1. /\ toClient'[k].type = "snapshot" =>
               toClient'[k].version = Version /\ toClient'[k].token \in {NoToken, Version}
          /\ toClient'[k].type = "current" => toClient'[k].token = Version
      BY <2>2, <2>5 DEF Fresh
    <3> QED
      BY <2>3, <3>1 DEF NoToken
  <2> QED
    BY <2>2, <2>4, <2>5 DEF Carries
<1> QED
  BY <1>2, <1>3 DEF VersionsBound

LEMMA VersionsStillGrow ==
  ASSUME TypeOK, QueueOK, [Next]_vars
  PROVE  VersionsGrow'
<1> SUFFICES ASSUME NEW k \in 1..Len(toClient'), NEW j \in 1..Len(toClient'), k < j, toClient'[j].type = "snapshot"
             PROVE  /\ toClient'[k].type = "current" => toClient'[k].token <= toClient'[j].version
                    /\ toClient'[k].type = "snapshot" => toClient'[k].version <= toClient'[j].version
  BY DEF VersionsGrow
<1>1. HistoryKept /\ Carried
  <2>1. toClient' # <<>>
    BY NoMessages
  <2> QED
    BY <2>1, QueueIsCarried
<1>2. PICK s \in {0, 1} : Carries(s) /\ \A i \in 1..Len(toClient') : i + s > Len(toClient) => Fresh(i)
  BY <1>1 DEF Carried
<1>3. ASSUME NEW i \in 1..Len(toClient'), i + s <= Len(toClient)
      PROVE  i + s \in 1..Len(toClient) /\ toClient'[i] = toClient[i + s]
  BY <1>2, <1>3 DEF Carries
<1>4. CASE j + s <= Len(toClient)
  <2>1. k + s <= Len(toClient) /\ k + s < j + s
    BY <1>2, <1>4 DEF Carries
  <2> QED
    BY <1>3, <1>4, <2>1 DEF QueueOK, VersionsGrow
<1>5. CASE j + s > Len(toClient) /\ k + s <= Len(toClient)
  <2>1. toClient'[j].version = Version
    BY <1>2, <1>5 DEF Fresh
  <2>2. k + s \in 1..Len(toClient) /\ toClient'[k] = toClient[k + s]
    BY <1>3, <1>5
  <2>3. /\ toClient[k + s].type = "current" => toClient[k + s].token <= Version
        /\ toClient[k + s].type = "snapshot" => toClient[k + s].version <= Version
    BY <2>2 DEF QueueOK, VersionsBound
  <2> QED
    BY <2>1, <2>2, <2>3
<1>6. CASE j + s > Len(toClient) /\ k + s > Len(toClient)
  <2>1. toClient'[j].version = Version /\ j = Len(toClient')
    BY <1>2, <1>6 DEF Fresh
  <2>2. toClient'[k].type = "current" => toClient'[k].token = Version
    BY <1>2, <1>6 DEF Fresh
  <2>3. toClient'[k].type = "snapshot" => k = Len(toClient')
    BY <1>2, <1>6 DEF Fresh
  <2>4. k # j /\ Version \in Nat
    BY <1>1, <1>2 DEF Carries, HistoryKept
  <2> QED
    BY <2>1, <2>2, <2>3, <2>4
<1> QED
  BY <1>2, <1>4, <1>5, <1>6 DEF Carries

(* The messages under way stay in order.                                   *)
LEMMA QueueStaysOK == TypeOK /\ QueueOK /\ [Next]_vars => QueueOK'
<1> SUFFICES ASSUME TypeOK, QueueOK, [Next]_vars PROVE QueueOK'
  OBVIOUS
<1>1. BatchesEnd'
  BY BatchesStay
<1>2. FiltersCount'
  BY FiltersStay
<1>3. ContentsBound'
  BY ContentsStayBound
<1>4. VersionsBound' /\ VersionsGrow'
  BY VersionsStayBound, VersionsStillGrow
<1> QED
  BY <1>1, <1>2, <1>3, <1>4 DEF QueueOK

(* The device and the aggregator, as the messages of the server find them. *)
ClientKept ==
  /\ UNCHANGED <<deviceVars, listening, local, listen, connected, target, updates, resets, historyVars>>
  /\ view'.at = view.at /\ (view'.current => view.current)

(* The steps, as far as the client is concerned.                           *)
LEMMA Classified ==
  ASSUME TypeOK, [Next]_vars
  PROVE  \/ ClientKept /\ Grows
         \/ TargetAdded \/ TargetRemoved \/ TargetCurrent \/ TargetReset
         \/ AddDocument \/ RemoveDocument \/ HandleExistenceFilter
         \/ RaiseSnapshot \/ ProcessTargetError
         \/ Listen \/ StopListening \/ WatchStreamDidOpen \/ Break \/ Crash
<1>1. view \in [current : BOOLEAN, at : Nat]
  BY DEF TypeOK, MemoryTypes
<1>2. ASSUME NEW d \in Docs, NEW live \in BOOLEAN, Write(d, live) PROVE ClientKept /\ Grows
  <2>1. toClient' = toClient
    BY <1>2 DEF Write, streamVars
  <2> QED
    BY <1>2, <2>1, KeptGrows DEF Write, ClientKept, streamVars, memoryVars
<1>3. ASSUME NEW w, NEW first, NEW S, NEW marks, NEW exact, NEW token, Told(w, first, S, marks, exact, token)
      PROVE  ClientKept /\ Grows
  <2>1. Grows
    BY <1>3, ToldTells, TellsGrows
  <2> QED
    BY <1>3, <2>1 DEF Told, ClientKept, memoryVars
<1>4. ASSUME NEW exact \in BOOLEAN, AnswerWatch(exact) PROVE ClientKept /\ Grows
  BY <1>3, <1>4, AnswerWatchTells
<1>5. ASSUME NEW exact \in BOOLEAN, NEW token \in {NoToken, Version}, Push(exact, token) PROVE ClientKept /\ Grows
  BY <1>3, <1>5, PushTells
<1>6. ResetByServer => ClientKept /\ Grows
  BY <1>3, ResetTells
<1>7. AnswerUnwatch => ClientKept /\ Grows
  <2> SUFFICES ASSUME AnswerUnwatch PROVE ClientKept /\ Grows
    OBVIOUS
  <2>1. Grows
    BY AppendAdds, AddsGrows DEF AnswerUnwatch
  <2> QED
    BY <2>1 DEF AnswerUnwatch, ClientKept, memoryVars
<1>8. RejectByServer => ClientKept /\ Grows
  <2> SUFFICES ASSUME RejectByServer PROVE ClientKept /\ Grows
    OBVIOUS
  <2>1. Grows
    BY AppendAdds, AddsGrows DEF RejectByServer
  <2> QED
    BY <2>1 DEF RejectByServer, ClientKept, memoryVars
<1>9. WentOffline => ClientKept /\ Grows
  <2> SUFFICES ASSUME WentOffline PROVE ClientKept /\ Grows
    OBVIOUS
  <2>1. toClient' = toClient /\ view' = [view EXCEPT !.current = FALSE]
    BY DEF WentOffline, streamVars
  <2>2. Grows
    BY <2>1, KeptGrows
  <2> QED
    BY <1>1, <2>1, <2>2 DEF WentOffline, ClientKept, streamVars
<1>10. UNCHANGED vars => ClientKept /\ Grows
  <2> SUFFICES ASSUME UNCHANGED vars PROVE ClientKept /\ Grows
    OBVIOUS
  <2>1. toClient' = toClient /\ view' = view
    BY DEF vars, streamVars, memoryVars
  <2>2. Grows
    BY <2>1, KeptGrows
  <2> QED
    BY <2>1, <2>2 DEF ClientKept, vars, streamVars, memoryVars
<1> QED
  BY <1>2, <1>4, <1>5, <1>6, <1>7, <1>8, <1>9, <1>10 DEF Next, Serve, Receive

-----------------------------------------------------------------------------
(* What the operations of the queue do to the target, field by field.      *)

Collected(type) ==
  /\ Shifts /\ toClient[1].type = type /\ toClient[1] \in Messages
  /\ UNCHANGED <<serverVars, deviceVars, memoryVars, connected, toServer, historyVars>>

(* The target there is, or the one made for it.                            *)
Base ==
  /\ target.outstanding \in Int
  /\ Ensured \in TargetState /\ Ensured.exists /\ Ensured.outstanding = target.outstanding
  /\ target.exists => /\ target \in TargetState
                      /\ (Ensured.current <=> target.current) /\ Ensured.token = target.token
                      /\ Ensured.changes = target.changes /\ (Ensured.pending <=> target.pending)
  /\ ~target.exists => /\ ~Ensured.current /\ Ensured.token = NoToken /\ Ensured.pending
                       /\ \A d \in Docs : Ensured.changes[d] = "none"

(* The target there is, or the one made for it.                            *)
LEMMA BaseParts == ASSUME TypeOK, AbsentIsEmpty PROVE Base
<1>1. target \in TargetState \cup AbsentState
  BY DEF TypeOK, StreamTypes
<1>2. target.outstanding \in Int
  BY <1>1 DEF TargetState, AbsentState
<1>3. ~target.exists => \A d \in Docs : Ensured.changes[d] = "none"
  BY <1>1, EnsuredParts
<1> QED
  BY <1>1, <1>2, <1>3, EnsuredParts DEF Base, AbsentIsEmpty

LEMMA CollectParts ==
  ASSUME TypeOK, NEW type, Collect(type)
  PROVE  Collected(type)
<1>1. Take(type)
  BY DEF Collect
<1> QED
  BY <1>1, TakeShifts, Taken DEF Collect, Collected

(* Operation by operation: what it takes in, and the target after it.      *)
LEMMA TargetAddedParts ==
  ASSUME TypeOK, Base, TargetAdded
  PROVE  /\ Collected("added") /\ UNCHANGED <<updates, resets>>
         /\ target' \in TargetState /\ target'.exists
         /\ target'.outstanding = target.outstanding - 1
         /\ (target'.current <=> Ensured.current) /\ target'.token = Ensured.token
         /\ target'.outstanding = 0 => ~target'.pending /\ \A d \in Docs : target'.changes[d] = "none"
<1>1. target \in TargetState \cup AbsentState
  BY DEF TypeOK, StreamTypes
<1>2. /\ Respond \in TargetState /\ Respond.exists /\ Respond.outstanding = target.outstanding - 1
      /\ (Respond.current <=> Ensured.current) /\ Respond.token = Ensured.token
  BY <1>1, EnsuredParts DEF Base
<1>3. PICK r \in TargetState : r = Respond
  BY <1>2
<1>4. target' = IF r.outstanding = 0 THEN Cleared(r) ELSE r
  BY <1>3 DEF TargetAdded
<1>5. /\ Cleared(r) \in TargetState
      /\ Cleared(r).outstanding = r.outstanding /\ Cleared(r).exists
      /\ (Cleared(r).current <=> r.current) /\ Cleared(r).token = r.token
      /\ (\A d \in Docs : Cleared(r).changes[d] = "none") /\ ~Cleared(r).pending
  BY ClearedParts
<1>6. Collected("added") /\ UNCHANGED <<updates, resets>>
  BY CollectParts DEF TargetAdded
<1>7. CASE r.outstanding = 0
  BY <1>2, <1>3, <1>4, <1>5, <1>6, <1>7
<1>8. CASE r.outstanding # 0
  BY <1>2, <1>3, <1>4, <1>6, <1>8
<1> QED
  BY <1>7, <1>8

LEMMA TargetRemovedParts ==
  ASSUME TypeOK, Base, TargetRemoved
  PROVE  /\ Collected("removed") /\ UNCHANGED <<updates, resets>>
         /\ target'.outstanding = target.outstanding - 1
         /\ target'.outstanding = 0 => target' = NoTarget
         /\ target'.outstanding # 0 => /\ target' \in TargetState /\ target'.exists
                                       /\ (target'.current <=> Ensured.current) /\ target'.token = Ensured.token
<1>1. target \in TargetState \cup AbsentState
  BY DEF TypeOK, StreamTypes
<1>2. /\ Respond \in TargetState /\ Respond.exists /\ Respond.outstanding = target.outstanding - 1
      /\ (Respond.current <=> Ensured.current) /\ Respond.token = Ensured.token
  BY <1>1, EnsuredParts DEF Base
<1>3. PICK r \in TargetState : r = Respond
  BY <1>2
<1>4. target' = IF r.outstanding = 0 THEN NoTarget ELSE r
  BY <1>3 DEF TargetRemoved
<1>5. NoTarget.outstanding = 0
  BY DEF NoTarget
<1>6. Collected("removed") /\ UNCHANGED <<updates, resets>>
  BY CollectParts DEF TargetRemoved
<1> QED
  BY <1>2, <1>3, <1>4, <1>5, <1>6

LEMMA TargetCurrentParts ==
  ASSUME TypeOK, Base, TargetCurrent
  PROVE  /\ Collected("current") /\ UNCHANGED <<updates, resets>>
         /\ target' \in TargetState /\ target'.exists /\ target'.outstanding = target.outstanding
         /\ target'.changes = Ensured.changes
         /\ Active => target'.current /\ target'.token = toClient[1].token /\ target'.pending
         /\ ~Active => target' = Ensured
<1>1. Collected("current") /\ UNCHANGED <<updates, resets>>
  BY CollectParts DEF TargetCurrent
<1>2. Head(toClient) = toClient[1] /\ toClient[1].token \in Nat
  <2>1. Take("current")
    BY DEF TargetCurrent, Collect
  <2> QED
    BY <2>1, Taken, MessageParts
<1>3. PICK t : t = [Ensured EXCEPT !.current = TRUE, !.pending = TRUE]
  OBVIOUS
<1>4. /\ t \in TargetState /\ t.current /\ t.pending
      /\ t.outstanding = Ensured.outstanding /\ t.changes = Ensured.changes
  BY <1>3 DEF Base, TargetState
<1>5. target' = IF Active THEN WithToken(t, toClient[1].token) ELSE Ensured
  BY <1>2, <1>3 DEF TargetCurrent
<1>6. CASE Active
  <2>1. toClient[1].token \in Token /\ toClient[1].token # NoToken
    BY <1>2 DEF Token, NoToken
  <2>2. PICK k \in Token : k = toClient[1].token /\ k # NoToken
    BY <2>1
  <2>3. /\ WithToken(t, k) \in TargetState
        /\ WithToken(t, k).outstanding = t.outstanding /\ WithToken(t, k).exists
        /\ (WithToken(t, k).current <=> t.current)
        /\ WithToken(t, k).token = k
        /\ WithToken(t, k).changes = t.changes
        /\ t.pending => WithToken(t, k).pending
    BY <1>4, <2>2, WithTokenParts
  <2> QED
    BY <1>1, <1>4, <1>5, <1>6, <2>2, <2>3 DEF Base
<1>7. CASE ~Active
  BY <1>1, <1>5, <1>7 DEF Base
<1> QED
  BY <1>6, <1>7

LEMMA TargetResetParts ==
  ASSUME TypeOK, Base, TargetReset
  PROVE  /\ Collected("reset") /\ UNCHANGED <<updates, resets>>
         /\ target' = IF Active THEN ResetTarget ELSE Ensured
BY CollectParts DEF TargetReset

LEMMA HandleDocumentParts ==
  ASSUME TypeOK, Base, NEW type \in {"doc", "gone"}, NEW kinds \in [Docs -> Kinds], HandleDocument(type, kinds)
  PROVE  /\ Collected(type) /\ resets' = resets
         /\ ~Active => target' = target /\ updates' = updates
         /\ \E d \in Docs :
              /\ d = toClient[1].doc
              /\ Active =>
                   /\ target' \in TargetState /\ target'.exists /\ target'.pending
                   /\ target'.outstanding = target.outstanding
                   /\ (target'.current <=> Ensured.current) /\ target'.token = Ensured.token
                   /\ target'.changes[d] = kinds[d]
                   /\ \A e \in Docs \ {d} : target'.changes[e] = Ensured.changes[e]
                   /\ updates' = [updates EXCEPT ![d] = toClient[1].version]
<1>1. Collected(type) /\ resets' = resets
  BY CollectParts DEF HandleDocument
<1>2. Head(toClient) = toClient[1] /\ toClient[1].doc \in Docs
  <2>1. Take(type)
    BY DEF HandleDocument, Collect
  <2> QED
    BY <2>1, Taken, MessageParts
<1>3. PICK d \in Docs : d = toClient[1].doc
  BY <1>2
<1>4. kinds[d] \in Kinds
  OBVIOUS
<1>5. IF Active
      THEN /\ target' = Record(Ensured, d, kinds[d])
           /\ updates' = [updates EXCEPT ![d] = toClient[1].version]
      ELSE UNCHANGED <<target, updates>>
  BY <1>2, <1>3 DEF HandleDocument
<1>6. CASE Active
  <2>1. PICK k \in Kinds : k = kinds[d]
    BY <1>4
  <2>2. /\ Record(Ensured, d, k) \in TargetState
        /\ Record(Ensured, d, k).outstanding = Ensured.outstanding /\ Record(Ensured, d, k).exists
        /\ (Record(Ensured, d, k).current <=> Ensured.current) /\ Record(Ensured, d, k).token = Ensured.token
        /\ Record(Ensured, d, k).pending
        /\ Record(Ensured, d, k).changes = [Ensured.changes EXCEPT ![d] = k]
    BY RecordParts DEF Base
  <2>3. Ensured.changes \in [Docs -> Kinds]
    BY DEF Base, TargetState
  <2>4. target'.changes = [Ensured.changes EXCEPT ![d] = k]
    BY <1>5, <1>6, <2>1, <2>2
  <2>5. target'.changes[d] = kinds[d] /\ \A e \in Docs \ {d} : target'.changes[e] = Ensured.changes[e]
    BY <2>1, <2>3, <2>4
  <2> QED
    BY <1>1, <1>3, <1>5, <1>6, <2>1, <2>2, <2>5 DEF Base
<1>7. CASE ~Active
  BY <1>1, <1>3, <1>5, <1>7
<1> QED
  BY <1>6, <1>7

LEMMA DocumentParts ==
  ASSUME TypeOK, Base, AddDocument \/ RemoveDocument
  PROVE  \E type \in {"doc", "gone"}, kinds \in [Docs -> Kinds] :
            /\ HandleDocument(type, kinds)
            /\ \A d \in Docs : /\ type = "doc" => kinds[d] = IF d \in keys THEN "modified" ELSE "added"
                               /\ type = "gone" => kinds[d] = IF d \in keys THEN "removed" ELSE "none"
<1>1. CASE AddDocument
  <2>1. [d \in Docs |-> IF d \in keys THEN "modified" ELSE "added"] \in [Docs -> Kinds]
    BY DEF Kinds
  <2> QED
    BY <1>1, <2>1 DEF AddDocument
<1>2. CASE RemoveDocument
  <2>1. [d \in Docs |-> IF d \in keys THEN "removed" ELSE "none"] \in [Docs -> Kinds]
    BY DEF Kinds
  <2> QED
    BY <1>2, <2>1 DEF RemoveDocument
<1> QED
  BY <1>1, <1>2

LEMMA FilterParts ==
  ASSUME TypeOK, Base, HandleExistenceFilter
  PROVE  /\ Collected("filter") /\ updates' = updates
         /\ ~Active => target' = target /\ resets' = resets
         /\ Active => \/ /\ CurrentCount(Ensured) = toClient[1].count
                         /\ target' = Ensured /\ resets' = resets
                      \/ target' = ResetTarget /\ resets'
<1>1. Collected("filter") /\ updates' = updates
  BY CollectParts DEF HandleExistenceFilter
<1>2. Head(toClient) = toClient[1]
  <2>1. Take("filter")
    BY DEF HandleExistenceFilter, Collect
  <2> QED
    BY <2>1, Taken
<1>3. resets \in BOOLEAN
  BY DEF TypeOK, StreamTypes
<1>4. PICK mismatch \in BOOLEAN : mismatch <=> Active /\ CurrentCount(Ensured) # Head(toClient).count
  OBVIOUS
<1>5. /\ target' = IF mismatch THEN ResetTarget ELSE IF Active THEN Ensured ELSE target
      /\ resets' = (resets \/ mismatch)
  BY <1>4 DEF HandleExistenceFilter
<1> QED
  BY <1>1, <1>2, <1>3, <1>4, <1>5

(* What a snapshot does: to the target, to the device, to the requests.    *)
Seen(t) ==
  /\ t.outstanding = target.outstanding /\ (t.exists <=> target.exists)
  /\ ~t.exists => t = target
  /\ t.exists => /\ t \in TargetState /\ (t.current <=> target.current) /\ t.changes = target.changes
                 /\ target.pending => t.pending
                 /\ t.token = IF Active /\ toClient[1].token # NoToken THEN toClient[1].token ELSE target.token

RaisedTarget(t, included, mismatch) ==
  /\ target'.outstanding = target.outstanding + (IF mismatch THEN 2 ELSE 0)
  /\ (target'.exists <=> target.exists)
  /\ target.exists => /\ target' \in TargetState /\ (target'.current <=> t.current) /\ target'.token = t.token
                      /\ included => ~target'.pending /\ \A d \in Docs : target'.changes[d] = "none"
                      /\ ~included => (target'.pending <=> t.pending) /\ target'.changes = t.changes
  /\ ~target.exists /\ ~mismatch => target' = target

RaisedDevice(t, included) ==
  /\ included => /\ keys' = (keys \ Sort(t, "removed")) \cup Sort(t, "added")
                 /\ saved' \in SavedTokens(t)
                 /\ local' = IF t.token = NoToken THEN local ELSE t.token
                 /\ (view'.current <=> t.current) /\ view'.at = toClient[1].version
                 /\ cache' = [d \in Docs |-> IF updates[d] # 0 /\ (t.changes[d] \in {"added", "modified"} \/ updates[d] >= cache[d])
                                             THEN updates[d] ELSE cache[d]]
  /\ ~included => /\ UNCHANGED <<keys, saved, local, view>>
                  /\ cache' = [d \in Docs |-> IF updates[d] # 0 /\ updates[d] >= cache[d] THEN updates[d] ELSE cache[d]]

Raised(t, included, mismatch) ==
  /\ Shifts /\ toClient[1].type = "snapshot" /\ toClient[1] \in Messages
  /\ toClient[1].version \in Nat /\ toClient[1].token \in Token
  /\ (included <=> Active /\ t.exists /\ t.pending) /\ (mismatch <=> resets /\ listening)
  /\ updates' = NoUpdates /\ resets' = FALSE
  /\ UNCHANGED <<log, watched, listening, connected, crossed>>
  /\ listen' = IF mismatch THEN NoToken ELSE IF included /\ t.token # NoToken THEN t.token ELSE listen
  /\ mismatch => /\ toServer' = toServer \o <<Unwatch, Watch(NoToken)>>
                 /\ repair' = IF included THEN "pending" ELSE "lost"
  /\ ~mismatch => /\ toServer' = toServer
                  /\ repair' = IF repair = "pending" /\ included /\ t.current THEN "none" ELSE repair

(* A snapshot, in parts: the target it sees, the target after it, and the  *)
(* device.                                                                 *)
LEMMA RaiseParts ==
  ASSUME TypeOK, Base, RaiseSnapshot
  PROVE  \E t, included, mismatch : Seen(t) /\ Raised(t, included, mismatch)
                                    /\ RaisedTarget(t, included, mismatch) /\ RaisedDevice(t, included)
<1>1. Take("snapshot")
  BY DEF RaiseSnapshot
<1>2. /\ Shifts /\ toClient[1].type = "snapshot" /\ toClient[1] \in Messages /\ Head(toClient) = toClient[1]
      /\ toClient[1].version \in Nat /\ toClient[1].token \in Token
  BY <1>1, TakeShifts, Taken, MessageParts
<1>3. PICK m : m = toClient[1]
  OBVIOUS
<1>4. PICK t : t = IF Active /\ target.exists THEN WithToken(target, m.token) ELSE target
  OBVIOUS
<1>5. PICK included \in BOOLEAN : included <=> (Active /\ t.exists /\ t.pending)
  OBVIOUS
<1>6. PICK mismatch \in BOOLEAN : mismatch <=> (resets /\ listening)
  OBVIOUS
<1>7. PICK cleared : cleared = IF included THEN Cleared(t) ELSE t
  OBVIOUS
<1>8. /\ IF included
         THEN ApplyToDevice(t, m.version) /\ ApplyUpdates(Sort(t, "added") \cup Sort(t, "modified"))
         ELSE ApplyUpdates({}) /\ UNCHANGED <<keys, saved, local, view>>
      /\ listen' = IF mismatch THEN NoToken ELSE IF included /\ t.token # NoToken THEN t.token ELSE listen
      /\ target' = IF mismatch THEN Request(cleared, 2) ELSE cleared
      /\ toServer' = IF mismatch THEN toServer \o <<Unwatch, Watch(NoToken)>> ELSE toServer
      /\ repair' = CASE mismatch -> IF included THEN "pending" ELSE "lost"
                     [] ~mismatch /\ repair = "pending" /\ included /\ t.current -> "none"
                     [] OTHER -> repair
      /\ updates' = NoUpdates /\ resets' = FALSE
      /\ UNCHANGED <<serverVars, listening, connected, crossed>>
  BY <1>2, <1>3, <1>4, <1>5, <1>6, <1>7 DEF RaiseSnapshot
<1>9. Seen(t)
  <2>1. CASE Active /\ target.exists
    <3>1. /\ WithToken(target, m.token) \in TargetState
          /\ WithToken(target, m.token).outstanding = target.outstanding /\ WithToken(target, m.token).exists
          /\ (WithToken(target, m.token).current <=> target.current)
          /\ WithToken(target, m.token).token = IF m.token = NoToken THEN target.token ELSE m.token
          /\ WithToken(target, m.token).changes = target.changes
          /\ target.pending => WithToken(target, m.token).pending
      BY <1>2, <1>3, <2>1, WithTokenParts DEF Base
    <3>2. t = WithToken(target, m.token)
      BY <1>4, <2>1
    <3> QED
      BY <1>3, <2>1, <3>1, <3>2 DEF Seen
  <2>2. CASE ~(Active /\ target.exists)
    BY <1>4, <2>2 DEF Seen, Base
  <2> QED
    BY <2>1, <2>2
<1>10. Raised(t, included, mismatch)
  <2>1. repair' = IF mismatch THEN (IF included THEN "pending" ELSE "lost")
                  ELSE IF repair = "pending" /\ included /\ t.current THEN "none" ELSE repair
    BY <1>8
  <2> QED
    BY <1>2, <1>5, <1>6, <1>8, <2>1 DEF Raised, serverVars
<1>11. /\ target.exists <=> cleared.exists
       /\ cleared.outstanding = target.outstanding
       /\ target.exists => /\ cleared \in TargetState /\ (cleared.current <=> t.current) /\ cleared.token = t.token
                           /\ included => ~cleared.pending /\ \A d \in Docs : cleared.changes[d] = "none"
                           /\ ~included => (cleared.pending <=> t.pending) /\ cleared.changes = t.changes
       /\ ~target.exists => cleared = target
  <2>1. CASE included
    <3>1. t \in TargetState /\ t.exists
      BY <1>5, <1>9, <2>1 DEF Seen
    <3>2. /\ Cleared(t) \in TargetState
          /\ Cleared(t).outstanding = t.outstanding /\ Cleared(t).exists
          /\ (Cleared(t).current <=> t.current) /\ Cleared(t).token = t.token
          /\ (\A d \in Docs : Cleared(t).changes[d] = "none") /\ ~Cleared(t).pending
      BY <3>1, ClearedParts
    <3>3. cleared = Cleared(t)
      BY <1>7, <2>1
    <3> QED
      BY <1>9, <2>1, <3>1, <3>2, <3>3 DEF Seen
  <2>2. CASE ~included
    BY <1>7, <1>9, <2>2 DEF Seen
  <2> QED
    BY <2>1, <2>2
<1>12. RaisedTarget(t, included, mismatch)
  <2>1. cleared \in TargetState \cup AbsentState
    BY <1>11 DEF TypeOK, StreamTypes, TargetState
  <2>2. CASE mismatch
    <3>1. PICK r : r = Request(cleared, 2)
      OBVIOUS
    <3>2. /\ cleared \in TargetState => r \in TargetState
          /\ r.outstanding = cleared.outstanding + 2
          /\ r.exists <=> cleared.exists
          /\ cleared.exists => /\ r.current <=> cleared.current
                               /\ r.token = cleared.token
                               /\ r.changes = cleared.changes
                               /\ r.pending <=> cleared.pending
      BY <2>1, <3>1, RequestParts
    <3>3. target' = r
      BY <1>8, <2>2, <3>1
    <3> QED
      BY <1>11, <2>2, <3>2, <3>3 DEF RaisedTarget
  <2>3. CASE ~mismatch
    <3>1. target' = cleared /\ target.outstanding = target.outstanding + 0
      BY <1>8, <2>3 DEF Base
    <3> QED
      BY <1>11, <2>3, <3>1 DEF RaisedTarget
  <2> QED
    BY <2>2, <2>3
<1>13. RaisedDevice(t, included)
  <2>1. CASE included
    <3>1. ApplyToDevice(t, toClient[1].version) /\ ApplyUpdates(Sort(t, "added") \cup Sort(t, "modified"))
      BY <1>3, <1>8, <2>1
    <3>2. \A d \in Docs : d \in Sort(t, "added") \cup Sort(t, "modified") <=> t.changes[d] \in {"added", "modified"}
      BY DEF Sort
    <3>3. cache' = [d \in Docs |-> IF updates[d] # 0 /\ (t.changes[d] \in {"added", "modified"} \/ updates[d] >= cache[d])
                                   THEN updates[d] ELSE cache[d]]
      BY <3>1, <3>2 DEF ApplyUpdates
    <3> QED
      BY <2>1, <3>1, <3>3 DEF ApplyToDevice, RaisedDevice
  <2>2. CASE ~included
    BY <1>8, <2>2 DEF RaisedDevice, ApplyUpdates
  <2> QED
    BY <2>1, <2>2
<1> QED
  BY <1>9, <1>10, <1>12, <1>13

-----------------------------------------------------------------------------
(* What listens and the stream do.                                         *)

LEMMA ListenParts ==
  ASSUME TypeOK, Base, Listen
  PROVE  /\ ~listening /\ listening' /\ local' = saved /\ listen' = saved /\ ~view'.current /\ view'.at = 0
         /\ UNCHANGED <<serverVars, deviceVars, connected, toClient, updates, resets, historyVars>>
         /\ connected => /\ target' \in TargetState /\ target'.exists /\ target'.outstanding = target.outstanding + 1
                         /\ target'.token = Ensured.token
                         /\ toServer' = Append(toServer, Watch(saved))
         /\ ~connected => UNCHANGED <<target, toServer>>
<1>1. PICK e \in TargetState : e = Ensured /\ e.exists /\ e.outstanding = target.outstanding
  BY DEF Base
<1>2. /\ Request(e, 1) \in TargetState /\ Request(e, 1).exists
      /\ Request(e, 1).outstanding = target.outstanding + 1 /\ Request(e, 1).token = Ensured.token
  BY <1>1, RequestParts
<1> QED
  BY <1>1, <1>2 DEF Listen

LEMMA StopListeningParts ==
  ASSUME TypeOK, Base, StopListening
  PROVE  /\ ReleaseQuery
         /\ UNCHANGED <<serverVars, connected, toClient, updates, resets, crossed>>
         /\ connected => /\ target' \in TargetState /\ target'.exists /\ target'.outstanding = target.outstanding + 1
                         /\ target'.token = Ensured.token
                         /\ toServer' = Append(toServer, Unwatch)
         /\ ~connected => UNCHANGED <<target, toServer>>
<1>1. PICK e \in TargetState : e = Ensured /\ e.exists /\ e.outstanding = target.outstanding
  BY DEF Base
<1>2. /\ Request(e, 1) \in TargetState /\ Request(e, 1).exists
      /\ Request(e, 1).outstanding = target.outstanding + 1 /\ Request(e, 1).token = Ensured.token
  BY <1>1, RequestParts
<1> QED
  BY <1>1, <1>2 DEF StopListening

LEMMA OpenParts ==
  ASSUME TypeOK, WatchStreamDidOpen
  PROVE  /\ ~connected /\ connected'
         /\ UNCHANGED <<serverVars, deviceVars, memoryVars, toClient, updates, resets, historyVars>>
         /\ listening => /\ target' \in TargetState /\ target'.exists /\ target'.outstanding = 1
                         /\ target'.token = NoToken
                         /\ toServer' = <<Watch(listen)>>
         /\ ~listening => UNCHANGED <<target, toServer>>
<1>1. PICK e \in TargetState : e = NewTarget
  BY NewTargetType
<1>2. e.exists /\ e.outstanding = 0 /\ e.token = NoToken
  BY <1>1 DEF NewTarget
<1>3. PICK r : r = Request(e, 1)
  OBVIOUS
<1>4. r \in TargetState /\ r.outstanding = e.outstanding + 1 /\ (e.exists => r.token = e.token) /\ (r.exists <=> e.exists)
  BY <1>3, RequestParts
<1> QED
  BY <1>1, <1>2, <1>3, <1>4 DEF WatchStreamDidOpen

LEMMA ErrorParts ==
  ASSUME TypeOK, ProcessTargetError
  PROVE  /\ Shifts /\ toClient[1].type = "rejected"
         /\ UNCHANGED <<serverVars, connected, toServer, updates, resets>>
         /\ listening => ReleaseQuery /\ target' = NoTarget /\ crossed' = (crossed \/ target.outstanding # 0)
         /\ ~listening => UNCHANGED <<deviceVars, memoryVars, target, historyVars>>
<1>1. Take("rejected")
  BY DEF ProcessTargetError
<1> QED
  BY <1>1, TakeShifts DEF ProcessTargetError

LEMMA LostParts ==
  ASSUME Break \/ Crash
  PROVE  /\ ~connected' /\ toServer' = <<>> /\ toClient' = <<>> /\ target' = NoTarget
         /\ updates' = NoUpdates /\ ~resets' /\ log' = log
         /\ UNCHANGED <<deviceVars, crossed>>
         /\ \/ UNCHANGED <<memoryVars, repair>>
            \/ /\ ~listening' /\ local' = NoToken /\ listen' = NoToken /\ repair' = BrokenOff
               /\ ~view'.current /\ view'.at = 0
BY DEF Break, Crash, CleanUpWatchStreamState, memoryVars, historyVars

-----------------------------------------------------------------------------
(* The device and its stream.                                              *)

(* Without a stream there is nothing.                                      *)
LEMMA DisconnectedStays == TypeOK /\ Disconnected /\ [Next]_vars => Disconnected'
<1> SUFFICES ASSUME TypeOK, Disconnected, [Next]_vars PROVE Disconnected'
  OBVIOUS
<1>1. CASE Break \/ Crash
  BY <1>1 DEF Break, Crash, CleanUpWatchStreamState, TypeOK, ServerTypes, Disconnected
<1>2. CASE WatchStreamDidOpen
  BY <1>2 DEF WatchStreamDidOpen, Disconnected
<1>3. CASE connected /\ connected' = connected
  BY <1>3 DEF Disconnected
<1>4. CASE UNCHANGED <<toServer, toClient, target, updates, resets, watched, connected>>
  BY <1>4 DEF Disconnected
<1>5. ASSUME NEW exact \in BOOLEAN, AnswerWatch(exact) PROVE Disconnected'
  <2>1. connected /\ connected' = connected
    BY <1>5 DEF AnswerWatch, Tell, Disconnected
  <2> QED
    BY <1>3, <2>1
<1>6. ASSUME NEW exact \in BOOLEAN, NEW token, Push(exact, token) PROVE Disconnected'
  <2>1. connected /\ connected' = connected
    BY <1>6 DEF Push, Tell, Disconnected
  <2> QED
    BY <1>3, <2>1
<1>7. CASE ResetByServer \/ RejectByServer \/ AnswerUnwatch
  <2>1. connected /\ connected' = connected
    BY <1>7 DEF ResetByServer, RejectByServer, AnswerUnwatch, Tell, Disconnected
  <2> QED
    BY <1>3, <2>1
<1>8. ASSUME NEW type, Take(type), connected' = connected PROVE Disconnected'
  <2>1. connected /\ connected' = connected
    BY <1>8 DEF Take, Disconnected
  <2> QED
    BY <1>3, <2>1
<1>9. CASE Receive
  BY <1>8, <1>9 DEF Receive, Collect, TargetAdded, TargetRemoved, TargetCurrent, TargetReset, AddDocument, RemoveDocument,
     HandleDocument, HandleExistenceFilter, RaiseSnapshot, ProcessTargetError
<1>10. CASE Listen
  BY <1>3, <1>4, <1>10 DEF Listen, serverVars
<1>11. CASE StopListening
  BY <1>3, <1>4, <1>11 DEF StopListening, serverVars
<1>12. CASE WentOffline
  BY <1>4, <1>12 DEF WentOffline, serverVars, streamVars
<1>13. ASSUME NEW d, NEW live, Write(d, live) PROVE Disconnected'
  BY <1>4, <1>13 DEF Write, streamVars
<1>14. CASE UNCHANGED vars
  BY <1>4, <1>14 DEF vars, streamVars, serverVars
<1> QED
  BY <1>1, <1>2, <1>5, <1>6, <1>7, <1>9, <1>10, <1>11, <1>12, <1>13, <1>14 DEF Next, Serve

LEMMA NoTargetParts == ~NoTarget.exists /\ NoTarget.outstanding = 0
BY DEF NoTarget

(* Without operation on the target's presence, requests and resets.        *)
LEMMA DeviceStays == TypeOK /\ QueueOK /\ DeviceOK /\ [Next]_vars => DeviceOK'
<1> SUFFICES ASSUME TypeOK, QueueOK, DeviceOK, [Next]_vars
             PROVE  AbsentIsEmpty' /\ PendingFlush' /\ Whole'
  BY DisconnectedStays DEF DeviceOK
<1>1. Base /\ AbsentIsEmpty /\ Disconnected /\ PendingFlush /\ Whole
  BY BaseParts DEF DeviceOK
<1>2. resets \in BOOLEAN /\ resets' \in BOOLEAN /\ updates \in [Docs -> Nat]
  BY TypeStep DEF TypeOK, StreamTypes
<1>3. ASSUME Shifts, 1 \in 1..Len(toClient),
             updates' # NoUpdates \/ resets' => Flushes(1), toClient[1].type # "snapshot"
      PROVE  PendingFlush'
  <2>1. updates' # NoUpdates \/ resets' => Flushes(1)'
    BY <1>3, FlushesAfterTake
  <2> QED
    BY <2>1 DEF PendingFlush, NoUpdates
<1>4. Shifts => 1 \in 1..Len(toClient)
  BY DEF Shifts
<1>5. CASE ClientKept /\ Grows
  <2>1. target' = target /\ updates' = updates /\ resets' = resets
    BY <1>5 DEF ClientKept
  <2>2. PendingFlush'
    <3>1. Flushes(1) => Flushes(1)'
      BY <1>5, FlushesStays
    <3> QED
      BY <1>1, <2>1, <3>1 DEF PendingFlush, NoUpdates
  <2>3. Whole'
    BY <1>1, <1>5, <2>1 DEF Whole, Grows
  <2> QED
    BY <1>1, <2>1, <2>2, <2>3 DEF AbsentIsEmpty
<1>6. ASSUME NEW type, Collected(type), type # "snapshot", updates' = updates, resets' = resets
      PROVE  PendingFlush' /\ Whole'
  <2>1. ~resets
    BY <1>1, <1>6 DEF Whole, Collected
  <2> QED
    BY <1>1, <1>3, <1>4, <1>6, <2>1 DEF Collected, Whole, PendingFlush
<1>7. CASE TargetAdded
  BY <1>1, <1>6, <1>7, TargetAddedParts DEF AbsentIsEmpty
<1>8. CASE TargetRemoved
  BY <1>1, <1>6, <1>8, TargetRemovedParts, NoTargetParts DEF AbsentIsEmpty
<1>9. CASE TargetCurrent
  BY <1>1, <1>6, <1>9, TargetCurrentParts DEF AbsentIsEmpty
<1>10. CASE TargetReset
  BY <1>1, <1>6, <1>10, TargetResetParts, ResetTargetParts DEF AbsentIsEmpty, Base
<1>11. CASE AddDocument \/ RemoveDocument
  <2>1. PICK type \in {"doc", "gone"}, kinds \in [Docs -> Kinds] : HandleDocument(type, kinds)
    BY <1>1, <1>11, DocumentParts
  <2>2. /\ Collected(type) /\ resets' = resets
        /\ ~Active => target' = target
        /\ Active => target'.exists
    BY <1>1, <2>1, HandleDocumentParts
  <2>3. 1 \in 1..Len(toClient) /\ Shifts /\ toClient[1].type = type
    BY <1>4, <2>2 DEF Collected
  <2>4. Flushes(1)
    BY <2>3 DEF QueueOK, BatchesEnd
  <2>5. PendingFlush'
    BY <1>3, <2>3, <2>4
  <2>6. Whole'
    <3>1. ~resets
      BY <1>1, <2>3 DEF Whole
    <3> QED
      BY <2>2, <3>1 DEF Whole
  <2>7. AbsentIsEmpty'
    BY <1>1, <2>2 DEF AbsentIsEmpty
  <2> QED
    BY <2>5, <2>6, <2>7
<1>12. CASE HandleExistenceFilter
  <2>1. /\ Collected("filter") /\ updates' = updates
        /\ ~Active => target' = target /\ resets' = resets
        /\ Active => \/ target' = Ensured /\ resets' = resets
                     \/ target' = ResetTarget /\ resets'
    BY <1>1, <1>12, FilterParts
  <2>2. 1 \in 1..Len(toClient) /\ Shifts /\ toClient[1].type = "filter"
    BY <1>4, <2>1 DEF Collected
  <2>3. Flushes(1) /\ 1 + 1 \in 1..Len(toClient) /\ toClient[1 + 1].type = "snapshot"
    BY <2>2 DEF QueueOK, BatchesEnd, FiltersCount
  <2>4. PendingFlush'
    BY <1>3, <2>2, <2>3
  <2>5. 1 \in 1..Len(toClient') /\ toClient'[1].type = "snapshot"
    BY <2>2, <2>3 DEF Shifts
  <2>6. ~resets
    BY <1>1, <2>2 DEF Whole
  <2>7. Whole'
    BY <2>1, <2>5, <2>6, ResetTargetParts DEF Whole
  <2>8. AbsentIsEmpty'
    BY <1>1, <2>1, ResetTargetParts DEF AbsentIsEmpty, Base
  <2> QED
    BY <2>4, <2>7, <2>8
<1>13. CASE RaiseSnapshot
  <2>1. PICK t, included, mismatch : Raised(t, included, mismatch) /\ RaisedTarget(t, included, mismatch)
    BY <1>1, <1>13, RaiseParts
  <2>2. updates' = NoUpdates /\ ~resets'
    BY <2>1 DEF Raised
  <2>3. PendingFlush' /\ Whole'
    BY <2>2 DEF PendingFlush, Whole, NoUpdates
  <2>4. CASE mismatch
    <3>1. target.exists
      BY <1>1, <2>1, <2>4 DEF Raised, Whole
    <3> QED
      BY <2>1, <2>3, <3>1 DEF RaisedTarget, AbsentIsEmpty
  <2>5. CASE ~mismatch
    BY <1>1, <2>1, <2>3, <2>5 DEF RaisedTarget, AbsentIsEmpty
  <2> QED
    BY <2>4, <2>5
<1>14. CASE ProcessTargetError
  <2>1. /\ Shifts /\ toClient[1].type = "rejected"
        /\ UNCHANGED <<updates, resets>>
        /\ listening => target' = NoTarget
        /\ ~listening => target' = target
    BY <1>14, ErrorParts
  <2>2. ~resets
    BY <1>1, <2>1 DEF Whole
  <2>3. PendingFlush'
    BY <1>1, <1>3, <1>4, <2>1, <2>2 DEF PendingFlush
  <2>4. AbsentIsEmpty'
    BY <1>1, <2>1, NoTargetParts DEF AbsentIsEmpty
  <2> QED
    BY <2>1, <2>2, <2>3, <2>4 DEF Whole
<1>15. ASSUME toClient' = toClient, updates' = updates, resets' = resets,
              target' = target \/ target'.exists
       PROVE  AbsentIsEmpty' /\ PendingFlush' /\ Whole'
  <2>1. Grows
    BY <1>15, KeptGrows
  <2>2. PendingFlush'
    <3>1. Flushes(1) => Flushes(1)'
      BY <2>1, FlushesStays
    <3> QED
      BY <1>1, <1>15, <3>1 DEF PendingFlush, NoUpdates
  <2> QED
    BY <1>1, <1>15, <2>2 DEF AbsentIsEmpty, Whole
<1>16. CASE Listen
  BY <1>1, <1>15, <1>16, ListenParts
<1>17. CASE StopListening
  BY <1>1, <1>15, <1>17, StopListeningParts
<1>18. CASE WatchStreamDidOpen
  BY <1>1, <1>15, <1>18, OpenParts
<1>19. CASE Break \/ Crash
  <2>1. target' = NoTarget /\ updates' = NoUpdates /\ ~resets'
    BY <1>19, LostParts
  <2> QED
    BY <2>1, NoTargetParts DEF AbsentIsEmpty, PendingFlush, Whole, NoUpdates
<1> QED
  BY <1>5, <1>7, <1>8, <1>9, <1>10, <1>11, <1>12, <1>13, <1>14, <1>16, <1>17, <1>18, <1>19, Classified

LEMMA TokenStaysKnown ==
  ASSUME TypeOK, QueueOK, [Next]_vars, NEW t \in Token, TokenKnown(t)
  PROVE  TokenKnown(t)'
<1>1. HistoryKept /\ (toClient' = <<>> \/ Carried)
  BY QueueIsCarried
<1>2. t \in Int /\ t <= Version /\ t <= Version'
  BY <1>1 DEF Token, NoToken, TokenKnown, HistoryKept
<1>3. ASSUME NEW k \in 1..Len(toClient'), toClient'[k].type = "snapshot" PROVE t <= toClient'[k].version
  <2>1. toClient' # <<>>
    BY NoMessages
  <2>2. PICK s \in {0, 1} : Carries(s) /\ \A i \in 1..Len(toClient') : i + s > Len(toClient) => Fresh(i)
    BY <1>1, <2>1 DEF Carried
  <2>3. CASE k + s <= Len(toClient)
    <3>1. k + s \in 1..Len(toClient) /\ toClient'[k] = toClient[k + s]
      BY <2>2, <2>3 DEF Carries
    <3> QED
      BY <1>3, <3>1 DEF TokenKnown
  <2>4. CASE k + s > Len(toClient)
    BY <1>2, <1>3, <2>2, <2>4 DEF Fresh
  <2> QED
    BY <2>2, <2>3, <2>4 DEF Carries
<1> QED
  BY <1>2, <1>3 DEF TokenKnown

LEMMA NoTokenIsKnown == ASSUME TypeOK, [Next]_vars PROVE TokenKnown(NoToken)'
<1>1. TypeOK'
  BY TypeStep
<1>2. Log' /\ Version' \in Nat
  BY <1>1 DEF TypeOK, ServerTypes, Log, Version
<1>3. toClient' \in Seq(Messages)
  BY <1>1 DEF TypeOK, StreamTypes
<1>4. ASSUME NEW k \in 1..Len(toClient'), toClient'[k].type = "snapshot" PROVE NoToken <= toClient'[k].version
  <2>1. toClient'[k] \in Messages
    BY <1>3
  <2> QED
    BY <1>4, <2>1, MessageParts DEF NoToken
<1> QED
  BY <1>2, <1>4 DEF TokenKnown, NoToken

(* The token a message brings.                                             *)
LEMMA HeadIsKnown ==
  ASSUME TypeOK, QueueOK, Shifts, log' = log, toClient[1].type \in {"current", "snapshot"},
         NEW t, t = toClient[1].token
  PROVE  TokenKnown(t)'
<1>1. 1 \in 1..Len(toClient)
  BY DEF Shifts
<1>2. PICK m : m = toClient[1]
  OBVIOUS
<1>3. /\ Version \in Nat
      /\ m.type = "current" => m.token \in Nat
      /\ m.type = "snapshot" => m.version \in Nat /\ m.token \in Token
  BY <1>1, <1>2, PlaceTypes, MessageTypes DEF TypeOK, ServerTypes
<1>4. m.token \in Int /\ m.token <= Version
  <2>1. /\ m.type = "snapshot" => m.version <= Version /\ m.token <= m.version
        /\ m.type = "current" => m.token <= Version
    BY <1>1, <1>2 DEF QueueOK, VersionsBound
  <2> QED
    BY <1>2, <1>3, <2>1 DEF Token, NoToken
<1>5. ASSUME NEW k \in 1..Len(toClient'), toClient'[k].type = "snapshot" PROVE m.token <= toClient'[k].version
  <2>1. k + 1 \in 1..Len(toClient) /\ toClient'[k] = toClient[k + 1] /\ 1 < k + 1
    BY <1>5 DEF Shifts
  <2>2. toClient[k + 1].version \in Nat
    BY <1>5, <2>1, PlaceTypes
  <2>3. /\ m.type = "current" => m.token <= toClient[k + 1].version
        /\ m.type = "snapshot" => m.version <= toClient[k + 1].version /\ m.token <= m.version
    BY <1>1, <1>2, <1>5, <2>1 DEF QueueOK, VersionsGrow, VersionsBound
  <2> QED
    BY <1>2, <1>3, <1>4, <2>1, <2>2, <2>3
<1>6. Version' = Version
  BY SameHistory
<1> QED
  BY <1>2, <1>4, <1>5, <1>6 DEF TokenKnown

(* The device is never ahead.                                              *)
LEMMA BoundsStay == TypeOK /\ QueueOK /\ DeviceOK /\ BoundsKept /\ [Next]_vars => BoundsKept'
<1> SUFFICES ASSUME TypeOK, QueueOK, DeviceOK, BoundsKept, [Next]_vars PROVE BoundsKept'
  OBVIOUS
<1>1. Base /\ TokensKnown /\ ContentsKnown
  BY BaseParts DEF DeviceOK, BoundsKept
<1>2. ASSUME NEW t \in Token, TokenKnown(t) PROVE TokenKnown(t)'
  BY <1>2, TokenStaysKnown
<1>3. TokenKnown(NoToken)'
  BY NoTokenIsKnown
<1>4. HistoryKept
  BY QueueIsCarried
<1>5. /\ saved \in Token /\ local \in Token /\ listen \in Token
      /\ (target.exists => target.token \in Token)
  BY <1>1 DEF TypeOK, DeviceTypes, MemoryTypes, Base, TargetState
<1>6. TokenKnown(saved) /\ TokenKnown(local) /\ TokenKnown(listen) /\ (target.exists => TokenKnown(target.token))
  BY <1>1 DEF TokensKnown
<1>7. \E T : /\ \A t \in T : TokenKnown(t)'
             /\ saved \in T /\ local \in T /\ listen \in T /\ NoToken \in T
             /\ (target.exists => target.token \in T) /\ Ensured.token \in T
             /\ (Shifts /\ log' = log /\ toClient[1].type \in {"current", "snapshot"} => toClient[1].token \in T)
  <2>1. PICK T : T = {saved, local, listen, NoToken}
                       \cup (IF target.exists THEN {target.token} ELSE {})
                       \cup (IF Shifts /\ log' = log /\ toClient[1].type \in {"current", "snapshot"}
                             THEN {toClient[1].token} ELSE {})
    OBVIOUS
  <2>2. ASSUME NEW t \in T PROVE TokenKnown(t)'
    <3>1. CASE t = NoToken
      BY <1>3, <3>1
    <3>2. CASE t \in {saved, local, listen} \/ (target.exists /\ t = target.token)
      BY <1>2, <1>5, <1>6, <3>2
    <3>3. CASE Shifts /\ log' = log /\ toClient[1].type \in {"current", "snapshot"} /\ t = toClient[1].token
      BY <3>3, HeadIsKnown
    <3> QED
      BY <2>1, <2>2, <3>1, <3>2, <3>3
  <2>3. Ensured.token \in T
    BY <1>1, <2>1 DEF Base
  <2>4. /\ saved \in T /\ local \in T /\ listen \in T /\ NoToken \in T
        /\ (target.exists => target.token \in T)
        /\ (Shifts /\ log' = log /\ toClient[1].type \in {"current", "snapshot"} => toClient[1].token \in T)
    BY <2>1
  <2> QED
    BY <2>2, <2>3, <2>4
<1>8. PICK T : /\ \A t \in T : TokenKnown(t)'
               /\ saved \in T /\ local \in T /\ listen \in T /\ NoToken \in T
               /\ (target.exists => target.token \in T) /\ Ensured.token \in T
               /\ (Shifts /\ log' = log /\ toClient[1].type \in {"current", "snapshot"} => toClient[1].token \in T)
  BY <1>7
<1>9. ASSUME saved' \in T, local' \in T, listen' \in T, target'.exists => target'.token \in T PROVE TokensKnown'
  <2>1. TokenKnown(saved)' /\ TokenKnown(local)' /\ TokenKnown(listen)' /\ (target'.exists => TokenKnown(target.token)')
    BY <1>8, <1>9 DEF TokenKnown
  <2> QED
    BY <2>1 DEF TokensKnown
<1>10. /\ cache \in [Docs -> Nat] /\ updates \in [Docs -> Nat] /\ view.at \in Nat
       /\ cache' \in [Docs -> Nat] /\ updates' \in [Docs -> Nat]
  BY TypeStep DEF TypeOK, DeviceTypes, StreamTypes, MemoryTypes
<1>11. /\ \A d \in Docs : cache[d] <= LastWrite(d, Version)' /\ updates[d] <= LastWrite(d, Version)'
       /\ view.at <= Version' /\ 0 <= Version' /\ \A d \in Docs : 0 <= LastWrite(d, Version)'
  BY <1>1, <1>4, <1>10 DEF ContentsKnown, HistoryKept
<1>12. ASSUME \A d \in Docs : cache'[d] \in {cache[d], updates[d]} /\ updates'[d] \in {updates[d], 0},
              view'.at \in {view.at, 0}
       PROVE  ContentsKnown'
  BY <1>11, <1>12 DEF ContentsKnown
<1>13. cache' = cache => \A d \in Docs : cache'[d] \in {cache[d], updates[d]}
  OBVIOUS
<1>14. updates' = updates \/ updates' = NoUpdates => \A d \in Docs : updates'[d] \in {updates[d], 0}
  BY DEF NoUpdates
<1>15. ~NoTarget.exists
  BY NoTargetParts
<1>16. CASE ClientKept /\ Grows
  BY <1>8, <1>9, <1>12, <1>13, <1>14, <1>16 DEF ClientKept, deviceVars, BoundsKept
<1>17. ASSUME NEW type, Collected(type), updates' = updates,
              target'.exists => target'.token \in T
       PROVE  BoundsKept'
  BY <1>8, <1>9, <1>12, <1>13, <1>14, <1>17 DEF Collected, deviceVars, memoryVars, BoundsKept
<1>18. CASE TargetAdded
  BY <1>1, <1>8, <1>17, <1>18, TargetAddedParts
<1>19. CASE TargetRemoved
  BY <1>1, <1>8, <1>15, <1>17, <1>19, TargetRemovedParts
<1>20. CASE TargetCurrent
  <2>1. Collected("current") /\ updates' = updates
    BY <1>1, <1>20, TargetCurrentParts
  <2>2. toClient[1].token \in T
    BY <1>8, <2>1 DEF Collected, serverVars
  <2>3. target'.token \in T
    BY <1>1, <1>8, <1>20, <2>2, TargetCurrentParts
  <2> QED
    BY <1>17, <2>1, <2>3
<1>21. CASE TargetReset
  BY <1>1, <1>8, <1>17, <1>21, TargetResetParts, ResetTargetParts
<1>22. CASE AddDocument \/ RemoveDocument
  <2>1. PICK type \in {"doc", "gone"}, kinds \in [Docs -> Kinds] : HandleDocument(type, kinds)
    BY <1>1, <1>22, DocumentParts
  <2>2. /\ Collected(type)
        /\ ~Active => target' = target /\ updates' = updates
    BY <1>1, <2>1, HandleDocumentParts
  <2>3. CASE ~Active
    BY <1>8, <1>17, <2>2, <2>3
  <2>4. CASE Active
    <3>1. PICK d \in Docs :
             /\ d = toClient[1].doc /\ target'.token = Ensured.token
             /\ updates' = [updates EXCEPT ![d] = toClient[1].version]
      BY <1>1, <2>1, <2>4, HandleDocumentParts
    <3>2. TokensKnown'
      BY <1>8, <1>9, <2>2, <3>1 DEF Collected, deviceVars, memoryVars
    <3>3. 1 \in 1..Len(toClient) /\ toClient[1].type \in {"doc", "gone"}
      BY <2>2 DEF Collected, Shifts
    <3>4. toClient[1].version \in Nat /\ toClient[1].version <= LastWrite(d, Version)
      BY <3>1, <3>3, PlaceTypes DEF QueueOK, ContentsBound
    <3>5. toClient[1].version <= LastWrite(d, Version)'
      BY <1>4, <3>4 DEF HistoryKept
    <3>6. \A e \in Docs : updates'[e] <= LastWrite(e, Version)'
      BY <1>10, <1>11, <3>1, <3>5
    <3>7. cache' = cache /\ view' = view
      BY <2>2 DEF Collected, deviceVars, memoryVars
    <3>8. ContentsKnown'
      BY <1>11, <3>6, <3>7 DEF ContentsKnown
    <3> QED
      BY <3>2, <3>8 DEF BoundsKept
  <2> QED
    BY <2>3, <2>4
<1>23. CASE HandleExistenceFilter
  <2>1. /\ Collected("filter") /\ updates' = updates
        /\ target' = target \/ target' = Ensured \/ target' = ResetTarget
    BY <1>1, <1>23, FilterParts
  <2> QED
    BY <1>1, <1>8, <1>17, <2>1, ResetTargetParts
<1>24. CASE RaiseSnapshot
  <2>1. PICK t, included, mismatch : Seen(t) /\ Raised(t, included, mismatch)
                                     /\ RaisedTarget(t, included, mismatch) /\ RaisedDevice(t, included)
    BY <1>1, <1>24, RaiseParts
  <2>2. toClient[1].token \in T
    BY <1>8, <2>1 DEF Raised
  <2>3. target.exists => t.token \in T
    BY <1>8, <2>1, <2>2 DEF Seen
  <2>4. included => target.exists
    BY <2>1 DEF Raised, Seen
  <2>5. saved' \in T /\ local' \in T /\ listen' \in T
    <3>1. CASE included
      BY <1>8, <2>1, <2>3, <2>4, <3>1 DEF Raised, RaisedDevice, SavedTokens
    <3>2. CASE ~included
      BY <1>8, <2>1, <3>2 DEF Raised, RaisedDevice
    <3> QED
      BY <3>1, <3>2
  <2>6. target'.exists => target'.token \in T
    BY <2>1, <2>3 DEF RaisedTarget
  <2>7. \A d \in Docs : cache'[d] \in {cache[d], updates[d]}
    BY <2>1 DEF RaisedDevice
  <2>8. updates' = NoUpdates
    BY <2>1 DEF Raised
  <2>9. view'.at <= Version'
    <3>1. 1 \in 1..Len(toClient) /\ toClient[1].type = "snapshot" /\ toClient[1].version \in Nat /\ log' = log
      BY <2>1 DEF Raised, Shifts
    <3>2. toClient[1].version <= Version /\ Version' = Version
      BY <3>1, SameHistory DEF QueueOK, VersionsBound
    <3> QED
      BY <1>11, <2>1, <3>2 DEF RaisedDevice
  <2>10. ContentsKnown'
    BY <1>11, <1>14, <2>7, <2>8, <2>9 DEF ContentsKnown
  <2> QED
    BY <1>9, <2>5, <2>6, <2>10 DEF BoundsKept
<1>25. ReleaseQuery => /\ saved' \in T /\ local' \in T /\ listen' \in T /\ cache' = cache /\ view'.at = 0
  BY <1>8 DEF ReleaseQuery
<1>26. CASE ProcessTargetError
  <2>1. /\ updates' = updates
        /\ listening => ReleaseQuery /\ target' = NoTarget
        /\ ~listening => UNCHANGED <<deviceVars, memoryVars, target>>
    BY <1>26, ErrorParts
  <2>2. CASE listening
    BY <1>9, <1>12, <1>13, <1>14, <1>15, <1>25, <2>1, <2>2 DEF BoundsKept
  <2>3. CASE ~listening
    BY <1>8, <1>9, <1>12, <1>13, <1>14, <2>1, <2>3 DEF BoundsKept, deviceVars, memoryVars
  <2> QED
    BY <2>2, <2>3
<1>27. CASE Listen
  BY <1>1, <1>8, <1>9, <1>12, <1>13, <1>14, <1>27, ListenParts DEF BoundsKept, deviceVars
<1>28. CASE StopListening
  BY <1>1, <1>8, <1>9, <1>12, <1>13, <1>14, <1>25, <1>28, StopListeningParts DEF BoundsKept
<1>29. CASE WatchStreamDidOpen
  BY <1>1, <1>8, <1>9, <1>12, <1>13, <1>14, <1>29, OpenParts DEF BoundsKept, deviceVars, memoryVars
<1>30. CASE Break \/ Crash
  <2>1. /\ target' = NoTarget /\ updates' = NoUpdates /\ UNCHANGED deviceVars
        /\ \/ UNCHANGED memoryVars
           \/ local' = NoToken /\ listen' = NoToken /\ view'.at = 0
    BY <1>30, LostParts
  <2> QED
    BY <1>8, <1>9, <1>12, <1>13, <1>14, <1>15, <2>1 DEF BoundsKept, deviceVars, memoryVars
<1> QED
  BY <1>16, <1>18, <1>19, <1>20, <1>21, <1>22, <1>23, <1>24, <1>26, <1>27, <1>28, <1>29, <1>30, Classified
     DEF BoundsKept

-----------------------------------------------------------------------------
(* The answers under way are counted.                                      *)

LEMMA AnswersAreFinite ==
  ASSUME TypeOK
  PROVE  /\ IsFiniteSet(AnswerPlaces) /\ Cardinality(AnswerPlaces) \in Nat
         /\ Cardinality(AnswerPlaces) = 0 <=> Answered(1)
<1>1. Len(toClient) \in Nat
  BY DEF TypeOK, StreamTypes
<1>2. IsFiniteSet(1..Len(toClient))
  BY <1>1, FS_Interval
<1>3. AnswerPlaces \in SUBSET (1..Len(toClient))
  BY DEF AnswerPlaces
<1>4. IsFiniteSet(AnswerPlaces)
  BY <1>2, <1>3, FS_Subset
<1>5. Cardinality(AnswerPlaces) \in Nat /\ (Cardinality(AnswerPlaces) = 0 <=> AnswerPlaces = {})
  BY <1>4, FS_CardinalityType, FS_EmptySet
<1>6. AnswerPlaces = {} <=> Answered(1)
  BY DEF AnswerPlaces, Answered
<1> QED
  BY <1>4, <1>5, <1>6

(* Taking a message takes its answer with it.                              *)
LEMMA TakeCounts ==
  ASSUME TypeOK, TypeOK', Shifts
  PROVE  Cardinality(AnswerPlaces)
           = Cardinality(AnswerPlaces') + (IF toClient[1].type \in Answers THEN 1 ELSE 0)
<1>1. /\ IsFiniteSet(AnswerPlaces) /\ IsFiniteSet(AnswerPlaces')
      /\ Cardinality(AnswerPlaces) \in Nat /\ Cardinality(AnswerPlaces') \in Nat
  <2>1. IsFiniteSet(AnswerPlaces)' /\ (Cardinality(AnswerPlaces) \in Nat)'
    BY AnswersAreFinite, PTL
  <2> QED
    BY <2>1, AnswersAreFinite
<1>2. PICK P : P = AnswerPlaces
  OBVIOUS
<1>3. PICK Q : Q = AnswerPlaces'
  OBVIOUS
<1>4. PICK R : R = {k + 1 : k \in Q}
  OBVIOUS
<1>5. Q \subseteq 1..Len(toClient') /\ 1 \notin R /\ Len(toClient') \in Nat
  BY <1>3, <1>4 DEF AnswerPlaces, Shifts
<1>6. IsFiniteSet(R) /\ Cardinality(R) = Cardinality(Q)
  <2>1. PICK f : f = [k \in Q |-> k + 1]
    OBVIOUS
  <2>2. f \in [Q -> R] /\ (\A a, b \in Q : f[a] = f[b] => a = b) /\ \A r \in R : \E k \in Q : f[k] = r
    BY <1>4, <1>5, <2>1
  <2>3. f \in Bijection(Q, R)
    BY <2>2 DEF Bijection, Injection, Surjection, IsInjective
  <2>4. ExistsBijection(Q, R)
    BY <2>3 DEF ExistsBijection
  <2> QED
    BY <1>1, <1>3, <2>4, FS_Bijection
<1>7. P = IF toClient[1].type \in Answers THEN R \cup {1} ELSE R
  <2>1. ASSUME NEW k PROVE k \in P /\ k # 1 <=> k \in R
    <3>1. CASE k \in P /\ k # 1
      <4>1. k \in 1..Len(toClient) /\ k - 1 \in 1..Len(toClient') /\ (k - 1) + 1 = k /\ toClient[k].type \in Answers
        BY <1>2, <3>1 DEF AnswerPlaces, Shifts
      <4>2. toClient'[k - 1] = toClient[k]
        BY <4>1 DEF Shifts
      <4>3. k - 1 \in Q
        BY <1>3, <4>1, <4>2 DEF AnswerPlaces
      <4> QED
        BY <1>4, <3>1, <4>1, <4>3
    <3>2. CASE k \in R
      <4>1. PICK i \in Q : k = i + 1
        BY <1>4, <3>2
      <4>2. i \in 1..Len(toClient') /\ toClient'[i].type \in Answers /\ toClient'[i] = toClient[i + 1]
        BY <1>3, <4>1 DEF AnswerPlaces, Shifts
      <4>3. k \in 1..Len(toClient) /\ k # 1
        BY <4>1, <4>2 DEF Shifts
      <4> QED
        BY <1>2, <3>2, <4>1, <4>2, <4>3 DEF AnswerPlaces
    <3> QED
      BY <3>1, <3>2
  <2>2. 1 \in P <=> toClient[1].type \in Answers
    BY <1>2 DEF AnswerPlaces, Shifts
  <2> QED
    BY <1>5, <2>1, <2>2
<1>8. CASE toClient[1].type \in Answers
  <2>1. Cardinality(P) = Cardinality(R) + 1
    BY <1>5, <1>6, <1>7, <1>8, FS_AddElement
  <2> QED
    BY <1>2, <1>3, <1>6, <1>8, <2>1
<1>9. CASE toClient[1].type \notin Answers
  BY <1>1, <1>2, <1>3, <1>6, <1>7, <1>9
<1> QED
  BY <1>8, <1>9

(* New messages that hold at most one answer, at the first new place.      *)
LEMMA NewCounts ==
  ASSUME TypeOK, Grows,
         \A k \in 1..Len(toClient') : k > Len(toClient) + 1 => toClient'[k].type \notin Answers
  PROVE  Cardinality(AnswerPlaces')
           = Cardinality(AnswerPlaces)
             + (IF Len(toClient) < Len(toClient') /\ toClient'[Len(toClient) + 1].type \in Answers THEN 1 ELSE 0)
<1>1. IsFiniteSet(AnswerPlaces) /\ Cardinality(AnswerPlaces) \in Nat
  BY AnswersAreFinite
<1>2. PICK P : P = AnswerPlaces
  OBVIOUS
<1>3. PICK n \in Nat : n = Len(toClient)
  BY DEF Grows
<1>4. PICK l \in Nat : l = Len(toClient') /\ n <= l
  BY <1>3 DEF Grows
<1>5. n + 1 \notin P
  BY <1>2, <1>3 DEF AnswerPlaces
<1>6. AnswerPlaces' = IF n < l /\ toClient'[n + 1].type \in Answers THEN P \cup {n + 1} ELSE P
  <2>1. ASSUME NEW k PROVE k \in AnswerPlaces' <=> k \in P \/ (k = n + 1 /\ n < l /\ toClient'[n + 1].type \in Answers)
    <3>1. CASE k \in 1..n
      <4>1. toClient'[k] = toClient[k] /\ k \in 1..l /\ k # n + 1
        BY <1>3, <1>4, <3>1 DEF Grows
      <4> QED
        BY <1>2, <1>3, <1>4, <3>1, <4>1 DEF AnswerPlaces
    <3>2. CASE k = n + 1
      BY <1>2, <1>3, <1>4, <3>2 DEF AnswerPlaces
    <3>3. CASE k \notin 1..n /\ k # n + 1
      <4>1. k \notin P
        BY <1>2, <1>3, <3>3 DEF AnswerPlaces
      <4>2. k \in 1..l => k > n + 1
        BY <1>4, <3>3
      <4> QED
        BY <1>3, <1>4, <3>3, <4>1, <4>2 DEF AnswerPlaces
    <3> QED
      BY <3>1, <3>2, <3>3
  <2>2. PICK Q : Q = AnswerPlaces'
    OBVIOUS
  <2>3. CASE n < l /\ toClient'[n + 1].type \in Answers
    <3>1. Q = P \cup {n + 1}
      BY <2>1, <2>2, <2>3
    <3> QED
      BY <2>2, <2>3, <3>1
  <2>4. CASE ~(n < l /\ toClient'[n + 1].type \in Answers)
    <3>1. Q = P
      BY <2>1, <2>2, <2>4
    <3> QED
      BY <2>2, <2>4, <3>1
  <2> QED
    BY <2>3, <2>4
<1>7. CASE n < l /\ toClient'[n + 1].type \in Answers
  <2>1. Cardinality(P \cup {n + 1}) = Cardinality(P) + 1
    BY <1>1, <1>2, <1>5, FS_AddElement
  <2> QED
    BY <1>2, <1>3, <1>4, <1>6, <1>7, <2>1
<1>8. CASE ~(n < l /\ toClient'[n + 1].type \in Answers)
  BY <1>1, <1>2, <1>3, <1>4, <1>6, <1>8
<1> QED
  BY <1>7, <1>8

LEMMA TellCounts ==
  ASSUME TypeOK, NEW first \in {<<>>, Added, Reset}, NEW S \in SUBSET Docs, NEW marks \in {<<>>, Current},
         NEW exact, NEW token, Tells(first, S, marks, exact, token)
  PROVE  /\ Grows
         /\ Cardinality(AnswerPlaces') = Cardinality(AnswerPlaces) + (IF first = Added THEN 1 ELSE 0)
         /\ \A k \in 1..Len(toClient') : k > Len(toClient) => toClient'[k].type # "removed"
         /\ first = Added => /\ Len(toClient) + 1 \in 1..Len(toClient')
                             /\ toClient'[Len(toClient) + 1].type = "added"
         /\ first # Added => \A k \in 1..Len(toClient') : k > Len(toClient) => toClient'[k].type \notin Answers
<1>1. Log
  BY DEF TypeOK, ServerTypes
<1>2. PICK n \in Nat, l \in Nat : ToldTypes(n, l, first, S, exact, token)
  BY <1>1, ToldPieces
<1>3. n < l /\ n = Len(toClient) /\ l = Len(toClient')
  BY <1>2 DEF ToldTypes
<1>4. Grows
  BY TellsGrows
<1>5. /\ <<>> # Added /\ Reset # Added /\ Added[1].type = "added" /\ Reset[1].type = "reset"
  BY <1>1, PieceTypes
<1>6. ASSUME NEW k \in 1..l, k > n
      PROVE  /\ toClient'[k].type # "removed"
             /\ toClient'[k].type \in Answers => k = n + 1 /\ first = Added
  <2>1. k \in (n + 1)..l
    BY <1>6
  <2>2. /\ toClient'[k].type \in {"added", "reset"} =>
             k = n + 1 /\ first # <<>> /\ toClient'[k].type = first[1].type
        /\ toClient'[k].type \in {"added", "reset", "doc", "gone", "current", "filter", "snapshot"}
    BY <1>2, <2>1 DEF ToldTypes
  <2> QED
    BY <1>5, <2>2 DEF Answers
<1>7. n + 1 \in 1..l
  BY <1>3
<1>8. first = Added => toClient'[n + 1].type = "added"
  <2>1. first # <<>> => toClient'[n + 1] = first[1]
    BY <1>3 DEF Tells
  <2> QED
    BY <1>5, <2>1
<1>9. toClient'[n + 1].type \in Answers <=> first = Added
  BY <1>3, <1>6, <1>7, <1>8 DEF Answers
<1>10. ASSUME NEW k \in 1..Len(toClient'), k > Len(toClient) + 1 PROVE toClient'[k].type \notin Answers
  BY <1>3, <1>6, <1>10
<1>11. Cardinality(AnswerPlaces') = Cardinality(AnswerPlaces) + (IF first = Added THEN 1 ELSE 0)
  <2>1. Cardinality(AnswerPlaces')
          = Cardinality(AnswerPlaces)
            + (IF Len(toClient) < Len(toClient') /\ toClient'[Len(toClient) + 1].type \in Answers THEN 1 ELSE 0)
    BY <1>4, <1>10, NewCounts
  <2> QED
    BY <1>3, <1>9, <2>1
<1>12. first # Added => \A k \in 1..l : k > n => toClient'[k].type \notin Answers
  BY <1>6
<1> QED
  BY <1>3, <1>4, <1>6, <1>7, <1>8, <1>11, <1>12

LEMMA AddCounts ==
  ASSUME TypeOK, NEW type, Adds(type)
  PROVE  Cardinality(AnswerPlaces') = Cardinality(AnswerPlaces) + (IF type \in Answers THEN 1 ELSE 0)
<1>1. Grows
  BY AddsGrows
<1>2. PICK n \in Nat : n = Len(toClient) /\ Len(toClient') = n + 1 /\ toClient'[n + 1].type = type
  BY DEF Adds
<1>3. Cardinality(AnswerPlaces')
        = Cardinality(AnswerPlaces)
          + (IF Len(toClient) < Len(toClient') /\ toClient'[Len(toClient) + 1].type \in Answers THEN 1 ELSE 0)
  <2>1. ASSUME NEW k \in 1..Len(toClient'), k > Len(toClient) + 1 PROVE toClient'[k].type \notin Answers
    BY <1>2, <2>1
  <2> QED
    BY <1>1, <2>1, NewCounts
<1> QED
  BY <1>2, <1>3

LEMMA KeptCounts == toClient' = toClient => AnswerPlaces' = AnswerPlaces
BY DEF AnswerPlaces

LEMMA NoneToCount == ASSUME toClient = <<>> PROVE Cardinality(AnswerPlaces) = 0
<1>1. AnswerPlaces = {}
  BY NoMessages DEF AnswerPlaces
<1> QED
  BY <1>1, FS_EmptySet

(* The answers awaited are those requested or under way.                   *)
LEMMA CountsStay == TypeOK /\ DeviceOK /\ Counted /\ [Next]_vars => Counted'
<1> SUFFICES ASSUME TypeOK, DeviceOK, Counted, [Next]_vars, ~crossed', connected'
             PROVE  target'.outstanding = Len(toServer') + Cardinality(AnswerPlaces')
  BY DEF Counted
<1>1. Base /\ AbsentIsEmpty /\ Disconnected /\ Whole
  BY BaseParts DEF DeviceOK
<1>2. TypeOK' /\ target.outstanding \in Int /\ Cardinality(AnswerPlaces) \in Nat /\ Len(toServer) \in Nat
  BY <1>1, TypeStep, AnswersAreFinite DEF Base, TypeOK, StreamTypes
<1>3. Cardinality(AnswerPlaces') \in Nat
  <2>1. (Cardinality(AnswerPlaces) \in Nat)'
    BY <1>2, AnswersAreFinite, PTL
  <2> QED
    BY <2>1
<1>4. ~crossed /\ connected => target.outstanding = Len(toServer) + Cardinality(AnswerPlaces)
  BY DEF Counted
<1>5. CASE UNCHANGED <<toClient, toServer, target, crossed, connected>>
  BY <1>4, <1>5, KeptCounts
<1>6. ASSUME NEW exact \in BOOLEAN, AnswerWatch(exact) PROVE target'.outstanding = Len(toServer') + Cardinality(AnswerPlaces')
  <2>1. PICK w : /\ toServer # <<>> /\ toServer' = Tail(toServer)
                 /\ Told(w, Added, Named(Head(toServer).token, exact), Current, exact, NoToken)
    BY <1>6, AnswerWatchTells
  <2>2. Named(Head(toServer).token, exact) \in SUBSET Docs
    BY DEF Named, Changed, Died
  <2>3. Tells(Added, Named(Head(toServer).token, exact), Current, exact, NoToken)
    BY <2>1, ToldTells
  <2>4. Cardinality(AnswerPlaces') = Cardinality(AnswerPlaces) + 1
    <3>1. PICK S \in SUBSET Docs : S = Named(Head(toServer).token, exact)
      BY <2>2
    <3> QED
      BY <2>3, <3>1, TellCounts
  <2>5. Len(toServer') = Len(toServer) - 1
    BY <2>1, TailParts DEF TypeOK, StreamTypes
  <2>6. target' = target /\ crossed' = crossed /\ connected' = connected
    BY <2>1 DEF Told, historyVars
  <2> QED
    BY <1>2, <1>4, <2>4, <2>5, <2>6
<1>7. ASSUME NEW exact \in BOOLEAN, NEW token \in {NoToken, Version}, Push(exact, token)
      PROVE  target'.outstanding = Len(toServer') + Cardinality(AnswerPlaces')
  <2>1. PICK w : toServer' = toServer /\ Told(w, <<>>, Named(watched.sent, exact), <<>>, exact, token)
    BY <1>7, PushTells
  <2>2. PICK S \in SUBSET Docs : S = Named(watched.sent, exact)
    BY DEF Named, Changed, Died
  <2>3. Tells(<<>>, S, <<>>, exact, token)
    BY <2>1, <2>2, ToldTells
  <2>4. <<>> # Added
    BY DEF Added
  <2>5. Cardinality(AnswerPlaces') = Cardinality(AnswerPlaces) + 0
    BY <2>3, <2>4, TellCounts
  <2>6. target' = target /\ crossed' = crossed /\ connected' = connected
    BY <2>1 DEF Told, historyVars
  <2> QED
    BY <1>2, <1>4, <2>1, <2>5, <2>6
<1>8. CASE ResetByServer
  <2>1. PICK w : toServer' = toServer /\ Told(w, Reset, Live(Version), Current, TRUE, NoToken)
    BY <1>8, ResetTells
  <2>2. PICK S \in SUBSET Docs : S = Live(Version)
    BY DEF Live
  <2>3. Tells(Reset, S, Current, TRUE, NoToken)
    BY <2>1, <2>2, ToldTells
  <2>4. Reset # Added
    BY PieceTypes DEF TypeOK, ServerTypes
  <2>5. Cardinality(AnswerPlaces') = Cardinality(AnswerPlaces) + 0
    BY <2>3, <2>4, TellCounts
  <2>6. target' = target /\ crossed' = crossed /\ connected' = connected
    BY <2>1 DEF Told, historyVars
  <2> QED
    BY <1>2, <1>4, <2>1, <2>5, <2>6
<1>9. CASE AnswerUnwatch
  <2>1. Adds("removed")
    BY <1>9, AppendAdds DEF AnswerUnwatch
  <2>2. Cardinality(AnswerPlaces') = Cardinality(AnswerPlaces) + 1
    BY <2>1, AddCounts DEF Answers
  <2>3. Len(toServer') = Len(toServer) - 1
    BY <1>9, TailParts DEF AnswerUnwatch, TypeOK, StreamTypes
  <2>4. target' = target /\ crossed' = crossed /\ connected' = connected
    BY <1>9 DEF AnswerUnwatch, historyVars
  <2> QED
    BY <1>2, <1>4, <2>2, <2>3, <2>4
<1>10. CASE RejectByServer
  <2>1. Adds("rejected")
    BY <1>10, AppendAdds DEF RejectByServer
  <2>2. Cardinality(AnswerPlaces') = Cardinality(AnswerPlaces) + 0
    BY <2>1, AddCounts DEF Answers
  <2>3. toServer' = toServer /\ target' = target /\ crossed' = crossed /\ connected' = connected
    BY <1>10 DEF RejectByServer, historyVars
  <2> QED
    BY <1>2, <1>4, <2>2, <2>3
<1>11. ASSUME NEW type, Collected(type),
              target'.outstanding = target.outstanding - (IF type \in Answers THEN 1 ELSE 0)
       PROVE  target'.outstanding = Len(toServer') + Cardinality(AnswerPlaces')
  <2>1. crossed' = crossed /\ connected' = connected /\ toServer' = toServer /\ Shifts /\ toClient[1].type = type
    BY <1>11 DEF Collected, historyVars
  <2>2. Cardinality(AnswerPlaces) = Cardinality(AnswerPlaces') + (IF type \in Answers THEN 1 ELSE 0)
    BY <1>2, <2>1, TakeCounts
  <2> QED
    BY <1>2, <1>3, <1>4, <1>11, <2>1, <2>2
<1>12. Active => target.outstanding = 0
  BY DEF Active
<1>13. CASE TargetAdded
  BY <1>1, <1>11, <1>13, TargetAddedParts DEF Answers
<1>14. CASE TargetRemoved
  BY <1>1, <1>11, <1>14, TargetRemovedParts DEF Answers
<1>15. CASE TargetCurrent
  <2>1. Collected("current") /\ target'.outstanding = target.outstanding - 0
    BY <1>1, <1>2, <1>15, TargetCurrentParts
  <2> QED
    BY <1>11, <2>1 DEF Answers
<1>16. CASE TargetReset
  <2>1. Collected("reset") /\ target' = IF Active THEN ResetTarget ELSE Ensured
    BY <1>1, <1>16, TargetResetParts
  <2>2. target'.outstanding = target.outstanding - 0
    BY <1>1, <1>2, <1>12, <2>1, ResetTargetParts DEF Base
  <2> QED
    BY <1>11, <2>1, <2>2 DEF Answers
<1>17. CASE AddDocument \/ RemoveDocument
  <2>1. PICK type \in {"doc", "gone"}, kinds \in [Docs -> Kinds] : HandleDocument(type, kinds)
    BY <1>1, <1>17, DocumentParts
  <2>2. Collected(type) /\ target'.outstanding = target.outstanding
    BY <1>1, <2>1, HandleDocumentParts
  <2>3. target'.outstanding = target.outstanding - 0 /\ type \notin Answers
    BY <1>2, <2>2 DEF Answers
  <2> QED
    BY <1>11, <2>2, <2>3
<1>18. CASE HandleExistenceFilter
  <2>1. Collected("filter") /\ target'.outstanding = target.outstanding
    BY <1>1, <1>12, <1>18, FilterParts, ResetTargetParts DEF Base
  <2>2. target'.outstanding = target.outstanding - 0
    BY <1>2, <2>1
  <2> QED
    BY <1>11, <2>1, <2>2 DEF Answers
<1>19. CASE RaiseSnapshot
  <2>1. PICK t, included, mismatch : Raised(t, included, mismatch) /\ RaisedTarget(t, included, mismatch)
    BY <1>1, <1>19, RaiseParts
  <2>2. Cardinality(AnswerPlaces) = Cardinality(AnswerPlaces') + 0
    BY <1>2, <2>1, TakeCounts DEF Raised, Answers
  <2>3. Len(toServer') = Len(toServer) + (IF mismatch THEN 2 ELSE 0)
    <3>1. CASE mismatch
      <4>1. toServer' = toServer \o <<Unwatch, Watch(NoToken)>>
        BY <2>1, <3>1 DEF Raised
      <4>2. toServer \in Seq(Requests) /\ <<Unwatch, Watch(NoToken)>> \in Seq(Requests)
        BY Sent DEF TypeOK, StreamTypes, Watch, Unwatch, Requests, Token
      <4>3. Len(<<Unwatch, Watch(NoToken)>>) = 2
        OBVIOUS
      <4> QED
        BY <3>1, <4>1, <4>2, <4>3, ConcatParts
    <3>2. CASE ~mismatch
      BY <1>2, <2>1, <3>2 DEF Raised
    <3> QED
      BY <3>1, <3>2
  <2>4. crossed' = crossed /\ connected' = connected
    BY <2>1 DEF Raised
  <2>5. target'.outstanding = target.outstanding + (IF mismatch THEN 2 ELSE 0)
    BY <2>1 DEF RaisedTarget
  <2> QED
    BY <1>2, <1>3, <1>4, <2>2, <2>3, <2>4, <2>5
<1>20. CASE ProcessTargetError
  <2>1. /\ Shifts /\ toClient[1].type = "rejected"
        /\ UNCHANGED <<connected, toServer>>
        /\ listening => target' = NoTarget /\ crossed' = (crossed \/ target.outstanding # 0)
        /\ ~listening => target' = target /\ crossed' = crossed
    BY <1>20, ErrorParts DEF historyVars
  <2>2. Cardinality(AnswerPlaces) = Cardinality(AnswerPlaces') + 0
    BY <1>2, <2>1, TakeCounts DEF Answers
  <2>3. target'.outstanding = target.outstanding /\ ~crossed
    <3>1. CASE listening
      <4>1. ~(crossed \/ target.outstanding # 0)
        BY <2>1, <3>1
      <4>2. target'.outstanding = 0
        BY <2>1, <3>1, NoTargetParts
      <4> QED
        BY <4>1, <4>2
    <3>2. CASE ~listening
      BY <2>1, <3>2
    <3> QED
      BY <3>1, <3>2
  <2> QED
    BY <1>2, <1>3, <1>4, <2>1, <2>2, <2>3
<1>21. ASSUME connected, toClient' = toClient, crossed' = crossed, NEW r \in Requests,
              toServer' = Append(toServer, r), target'.outstanding = target.outstanding + 1
       PROVE  target'.outstanding = Len(toServer') + Cardinality(AnswerPlaces')
  <2>1. Len(toServer') = Len(toServer) + 1
    BY <1>21, AppendParts DEF TypeOK, StreamTypes
  <2> QED
    BY <1>2, <1>4, <1>21, <2>1, KeptCounts
<1>22. CASE Listen
  <2>1. connected /\ crossed' = crossed /\ toClient' = toClient
    BY <1>1, <1>22, ListenParts DEF historyVars
  <2>2. Watch(saved) \in Requests
    BY DEF TypeOK, DeviceTypes, Watch, Requests
  <2> QED
    BY <1>1, <1>21, <1>22, <2>1, <2>2, ListenParts
<1>23. CASE StopListening
  <2>1. connected /\ crossed' = crossed /\ toClient' = toClient
    BY <1>1, <1>23, StopListeningParts
  <2>2. Unwatch \in Requests
    BY DEF Unwatch, Requests, Token
  <2> QED
    BY <1>1, <1>21, <1>23, <2>1, <2>2, StopListeningParts
<1>24. CASE WatchStreamDidOpen
  <2>1. ~connected /\ toClient' = toClient
    BY <1>24, OpenParts
  <2>2. toServer = <<>> /\ toClient = <<>> /\ target = NoTarget
    BY <1>1, <2>1 DEF Disconnected
  <2>3. Cardinality(AnswerPlaces') = 0
    BY <2>1, <2>2, NoneToCount, KeptCounts
  <2>4. target'.outstanding = Len(toServer')
    <3>1. Len(<<Watch(listen)>>) = 1 /\ Len(<<>>) = 0
      OBVIOUS
    <3> QED
      BY <1>24, <2>2, <3>1, OpenParts, NoTargetParts
  <2> QED
    BY <1>3, <2>3, <2>4, TypeStep DEF TypeOK, StreamTypes
<1>25. CASE Break \/ Crash
  BY <1>25, LostParts
<1>26. ASSUME NEW d, NEW live, Write(d, live) PROVE UNCHANGED <<toClient, toServer, target, crossed, connected>>
  BY <1>26 DEF Write, streamVars, historyVars
<1>27. WentOffline => UNCHANGED <<toClient, toServer, target, crossed, connected>>
  BY DEF WentOffline, streamVars, historyVars
<1>28. UNCHANGED vars => UNCHANGED <<toClient, toServer, target, crossed, connected>>
  BY DEF vars, streamVars, historyVars
<1> QED
  BY <1>5, <1>6, <1>7, <1>8, <1>9, <1>10, <1>13, <1>14, <1>15, <1>16, <1>17, <1>18, <1>19, <1>20, <1>22, <1>23,
     <1>24, <1>25, <1>26, <1>27, <1>28 DEF Next, Serve, Receive

-----------------------------------------------------------------------------
(* The query that is listened to was asked for last.                       *)

LEMMA RemovalsShift == ASSUME Shifts, NoRemovalLast PROVE NoRemovalLast'
<1> SUFFICES ASSUME NEW k \in 1..Len(toClient'), toClient'[k].type = "removed"
             PROVE  \E j \in 1..Len(toClient') : j > k /\ toClient'[j].type \in Answers
  BY DEF NoRemovalLast, Superseded
<1>1. k + 1 \in 1..Len(toClient) /\ toClient'[k] = toClient[k + 1]
  BY DEF Shifts
<1>2. PICK j \in 1..Len(toClient) : j > k + 1 /\ toClient[j].type \in Answers
  BY <1>1 DEF NoRemovalLast, Superseded
<1>3. j - 1 \in 1..Len(toClient') /\ (j - 1) + 1 = j /\ j - 1 > k
  BY <1>1, <1>2 DEF Shifts
<1> QED
  BY <1>2, <1>3 DEF Shifts

LEMMA RemovalsKept ==
  ASSUME Grows, NoRemovalLast, \A k \in 1..Len(toClient') : k > Len(toClient) => toClient'[k].type # "removed"
  PROVE  NoRemovalLast'
<1> SUFFICES ASSUME NEW k \in 1..Len(toClient'), toClient'[k].type = "removed"
             PROVE  \E j \in 1..Len(toClient') : j > k /\ toClient'[j].type \in Answers
  BY DEF NoRemovalLast, Superseded
<1>1. k \in 1..Len(toClient) /\ toClient'[k] = toClient[k]
  BY DEF Grows
<1>2. PICK j \in 1..Len(toClient) : j > k /\ toClient[j].type \in Answers
  BY <1>1 DEF NoRemovalLast, Superseded
<1> QED
  BY <1>2 DEF Grows

(* The query that is listened to stays the one asked for last.             *)
LEMMA AskedStays == TypeOK /\ DeviceOK /\ Counted /\ Asked /\ [Next]_vars => Asked'
<1> SUFFICES ASSUME TypeOK, DeviceOK, Counted, Asked, [Next]_vars, ~crossed', connected', listening'
             PROVE  /\ toServer' # <<>> => toServer'[Len(toServer')] = Watch(listen')
                    /\ toServer' = <<>> => NoRemovalLast'
                    /\ target'.exists
  BY DEF Asked, Watch
<1>1. Base /\ AbsentIsEmpty /\ Disconnected /\ Whole
  BY BaseParts DEF DeviceOK
<1>2. /\ TypeOK' /\ Counted' /\ target.outstanding \in Int /\ toServer \in Seq(Requests)
      /\ Cardinality(AnswerPlaces) \in Nat /\ Len(toServer) \in Nat /\ Len(toServer') \in Nat
      /\ (toServer = <<>> <=> Len(toServer) = 0)
  BY <1>1, TypeStep, CountsStay, AnswersAreFinite DEF Base, TypeOK, StreamTypes
<1>3. ~crossed /\ connected /\ listening =>
        /\ toServer # <<>> => toServer[Len(toServer)] = Watch(listen)
        /\ toServer = <<>> => NoRemovalLast
        /\ target.exists
  BY DEF Asked
<1>4. CASE UNCHANGED <<toClient, toServer, target, crossed, connected, listening, listen>>
  BY <1>3, <1>4 DEF NoRemovalLast, Superseded
<1>5. Tail(toServer) # <<>> /\ toServer # <<>> => Tail(toServer)[Len(Tail(toServer))] = toServer[Len(toServer)]
  <2> SUFFICES ASSUME toServer # <<>>, Tail(toServer) # <<>>
               PROVE  Tail(toServer)[Len(Tail(toServer))] = toServer[Len(toServer)]
    OBVIOUS
  <2>1. PICK q \in Seq(Requests) : q = Tail(toServer)
    BY <1>2, TailParts
  <2>2. /\ Len(q) = Len(toServer) - 1 /\ \A k \in 1..(Len(toServer) - 1) : q[k] = toServer[k + 1]
        /\ Len(q) >= 1
    BY <1>2, <2>1, TailParts
  <2>3. Len(q) \in 1..(Len(toServer) - 1) /\ Len(q) + 1 = Len(toServer)
    BY <1>2, <2>2
  <2> QED
    BY <2>1, <2>2, <2>3
<1>6. ASSUME NEW exact \in BOOLEAN, AnswerWatch(exact)
      PROVE  /\ toServer' # <<>> => toServer'[Len(toServer')] = Watch(listen')
             /\ NoRemovalLast' /\ target'.exists
  <2>1. PICK w : /\ toServer # <<>> /\ toServer' = Tail(toServer)
                 /\ Told(w, Added, Named(Head(toServer).token, exact), Current, exact, NoToken)
    BY <1>6, AnswerWatchTells
  <2>2. PICK S \in SUBSET Docs : S = Named(Head(toServer).token, exact)
    BY DEF Named, Changed, Died
  <2>3. Tells(Added, S, Current, exact, NoToken)
    BY <2>1, <2>2, ToldTells
  <2>4. /\ Grows
        /\ \A k \in 1..Len(toClient') : k > Len(toClient) => toClient'[k].type # "removed"
        /\ Len(toClient) + 1 \in 1..Len(toClient') /\ toClient'[Len(toClient) + 1].type = "added"
    BY <2>3, TellCounts
  <2>5. NoRemovalLast'
    <3>1. ASSUME NEW k \in 1..Len(toClient'), toClient'[k].type = "removed"
          PROVE  Len(toClient) + 1 > k
      BY <2>4, <3>1 DEF Grows
    <3> QED
      BY <2>4, <3>1 DEF NoRemovalLast, Superseded, Answers
  <2>6. UNCHANGED <<target, crossed, connected, listening, listen>>
    BY <2>1 DEF Told, historyVars, memoryVars
  <2> QED
    BY <1>3, <1>5, <2>1, <2>5, <2>6
<1>7. ASSUME toServer' = toServer, UNCHANGED <<target, crossed, connected, listening, listen>>,
             Grows, \A k \in 1..Len(toClient') : k > Len(toClient) => toClient'[k].type # "removed"
      PROVE  /\ toServer' # <<>> => toServer'[Len(toServer')] = Watch(listen')
             /\ toServer' = <<>> => NoRemovalLast'
             /\ target'.exists
  BY <1>3, <1>7, RemovalsKept
<1>8. ASSUME NEW exact \in BOOLEAN, NEW token \in {NoToken, Version}, Push(exact, token)
      PROVE  /\ toServer' # <<>> => toServer'[Len(toServer')] = Watch(listen')
             /\ toServer' = <<>> => NoRemovalLast'
             /\ target'.exists
  <2>1. PICK w : toServer' = toServer /\ Told(w, <<>>, Named(watched.sent, exact), <<>>, exact, token)
    BY <1>8, PushTells
  <2>2. PICK S \in SUBSET Docs : S = Named(watched.sent, exact)
    BY DEF Named, Changed, Died
  <2>3. Tells(<<>>, S, <<>>, exact, token)
    BY <2>1, <2>2, ToldTells
  <2>4. /\ Grows
        /\ \A k \in 1..Len(toClient') : k > Len(toClient) => toClient'[k].type # "removed"
    BY <2>3, TellCounts
  <2>5. UNCHANGED <<target, crossed, connected, listening, listen>>
    BY <2>1 DEF Told, historyVars, memoryVars
  <2> QED
    BY <1>7, <2>1, <2>4, <2>5
<1>9. CASE ResetByServer
  <2>1. PICK w : toServer' = toServer /\ Told(w, Reset, Live(Version), Current, TRUE, NoToken)
    BY <1>9, ResetTells
  <2>2. PICK S \in SUBSET Docs : S = Live(Version)
    BY DEF Live
  <2>3. Tells(Reset, S, Current, TRUE, NoToken)
    BY <2>1, <2>2, ToldTells
  <2>4. /\ Grows
        /\ \A k \in 1..Len(toClient') : k > Len(toClient) => toClient'[k].type # "removed"
    BY <2>3, TellCounts
  <2>5. UNCHANGED <<target, crossed, connected, listening, listen>>
    BY <2>1 DEF Told, historyVars, memoryVars
  <2> QED
    BY <1>7, <2>1, <2>4, <2>5
<1>10. CASE AnswerUnwatch
  <2>1. /\ toServer # <<>> /\ toServer' = Tail(toServer) /\ Head(toServer).type = "unwatch"
        /\ UNCHANGED <<target, crossed, connected, listening, listen>>
    BY <1>10 DEF AnswerUnwatch, historyVars, memoryVars
  <2>2. ~crossed /\ connected /\ listening
    BY <2>1
  <2>3. toServer' # <<>>
    <3>1. SUFFICES ASSUME Tail(toServer) = <<>> PROVE FALSE
      BY <2>1
    <3>2. Len(toServer) = 1 /\ Head(toServer) = toServer[1]
      <4>1. Len(Tail(toServer)) = Len(toServer) - 1 /\ Head(toServer) = toServer[1]
        BY <1>2, <2>1, TailParts
      <4>2. Len(Tail(toServer)) = 0
        BY <3>1, NoMessages
      <4> QED
        BY <1>2, <4>1, <4>2
    <3>3. Head(toServer) = Watch(listen)
      BY <1>3, <2>1, <2>2, <3>2
    <3> QED
      BY <2>1, <3>3 DEF Watch
  <2> QED
    BY <1>3, <1>5, <2>1, <2>2, <2>3
<1>11. CASE RejectByServer
  <2>1. Adds("rejected")
    BY <1>11, AppendAdds DEF RejectByServer
  <2>2. Grows /\ \A k \in 1..Len(toClient') : k > Len(toClient) => toClient'[k].type # "removed"
    <3>1. \A k \in 1..Len(toClient') : k > Len(toClient) => k = Len(toClient')
      BY <2>1 DEF Adds
    <3> QED
      BY <2>1, <3>1, AddsGrows DEF Adds
  <2>3. toServer' = toServer /\ UNCHANGED <<target, crossed, connected, listening, listen>>
    BY <1>11 DEF RejectByServer, historyVars, memoryVars
  <2> QED
    BY <1>7, <2>2, <2>3
<1>12. ASSUME NEW type, Collected(type), target.exists => target'.exists
       PROVE  /\ toServer' # <<>> => toServer'[Len(toServer')] = Watch(listen')
              /\ toServer' = <<>> => NoRemovalLast'
              /\ target'.exists
  BY <1>3, <1>12, RemovalsShift DEF Collected, historyVars, memoryVars
<1>13. CASE TargetAdded
  BY <1>1, <1>12, <1>13, TargetAddedParts
<1>14. CASE TargetRemoved
  <2>1. /\ Collected("removed")
        /\ target'.outstanding # 0 => target'.exists
    BY <1>1, <1>14, TargetRemovedParts
  <2>2. /\ Shifts /\ toClient[1].type = "removed"
        /\ UNCHANGED <<crossed, connected, listening, toServer>>
    BY <2>1 DEF Collected, historyVars, memoryVars
  <2>3. target'.outstanding # 0
    <3>1. SUFFICES ASSUME target'.outstanding = 0 PROVE FALSE
      OBVIOUS
    <3>2. Cardinality(AnswerPlaces') \in Nat /\ (Cardinality(AnswerPlaces') = 0 <=> Answered(1)')
      <4>1. (/\ IsFiniteSet(AnswerPlaces) /\ Cardinality(AnswerPlaces) \in Nat
             /\ Cardinality(AnswerPlaces) = 0 <=> Answered(1))'
        BY <1>2, AnswersAreFinite, PTL
      <4> QED
        BY <4>1
    <3>3. 0 = Len(toServer') + Cardinality(AnswerPlaces')
      BY <1>2, <3>1 DEF Counted
    <3>4. Len(toServer') = 0 /\ Answered(1)'
      BY <1>2, <3>2, <3>3
    <3>5. NoRemovalLast
      BY <1>2, <1>3, <2>2, <3>4
    <3>6. PICK j \in 1..Len(toClient) : j > 1 /\ toClient[j].type \in Answers
      BY <2>2, <3>5 DEF Shifts, NoRemovalLast, Superseded
    <3>7. j - 1 \in 1..Len(toClient') /\ (j - 1) + 1 = j /\ j - 1 >= 1
      BY <2>2, <3>6 DEF Shifts
    <3>8. toClient'[j - 1].type \in Answers
      BY <2>2, <3>6, <3>7 DEF Shifts
    <3> QED
      BY <3>4, <3>7, <3>8 DEF Answered
  <2> QED
    BY <1>12, <2>1, <2>3
<1>15. CASE TargetCurrent
  BY <1>1, <1>12, <1>15, TargetCurrentParts
<1>16. CASE TargetReset
  BY <1>1, <1>12, <1>16, TargetResetParts, ResetTargetParts DEF Base
<1>17. CASE AddDocument \/ RemoveDocument
  <2>1. PICK type \in {"doc", "gone"}, kinds \in [Docs -> Kinds] : HandleDocument(type, kinds)
    BY <1>1, <1>17, DocumentParts
  <2>2. Collected(type) /\ (target.exists => target'.exists)
    BY <1>1, <2>1, HandleDocumentParts
  <2> QED
    BY <1>12, <2>2
<1>18. CASE HandleExistenceFilter
  <2>1. Collected("filter") /\ (target.exists => target'.exists)
    BY <1>1, <1>18, FilterParts, ResetTargetParts DEF Base
  <2> QED
    BY <1>12, <2>1
<1>19. CASE RaiseSnapshot
  <2>1. PICK t, included, mismatch : Seen(t) /\ Raised(t, included, mismatch) /\ RaisedTarget(t, included, mismatch)
    BY <1>1, <1>19, RaiseParts
  <2>2. /\ Shifts /\ crossed' = crossed /\ connected' = connected /\ listening' = listening
        /\ target.exists => target'.exists
    BY <2>1 DEF Raised, RaisedTarget
  <2>3. target'.exists
    BY <1>3, <2>2
  <2>4. CASE mismatch
    <3>1. /\ toServer' = toServer \o <<Unwatch, Watch(NoToken)>> /\ listen' = NoToken
      BY <2>1, <2>4 DEF Raised
    <3>2. toServer \in Seq(Requests) /\ <<Unwatch, Watch(NoToken)>> \in Seq(Requests)
      BY Sent DEF TypeOK, StreamTypes, Watch, Unwatch, Requests, Token
    <3>3. Len(<<Unwatch, Watch(NoToken)>>) = 2 /\ <<Unwatch, Watch(NoToken)>>[2] = Watch(NoToken)
      OBVIOUS
    <3>4. Len(toServer') = Len(toServer) + 2 /\ toServer'[Len(toServer) + 2] = Watch(NoToken)
      <4>1. 2 \in 1..2
        OBVIOUS
      <4> QED
        BY <3>1, <3>2, <3>3, <4>1, ConcatParts
    <3>5. toServer' # <<>>
      BY <1>2, <3>4
    <3> QED
      BY <2>3, <3>1, <3>4, <3>5
  <2>5. CASE ~mismatch
    <3>1. toServer' = toServer /\ (listen' # listen => included)
      BY <2>1, <2>5 DEF Raised
    <3>2. included => toServer = <<>>
      <4>1. included => target.outstanding = 0
        BY <2>1 DEF Raised, Active
      <4> QED
        BY <1>2, <2>2, <4>1 DEF Counted
    <3> QED
      BY <1>3, <2>2, <2>3, <3>1, <3>2, RemovalsShift
  <2> QED
    BY <2>4, <2>5
<1>20. CASE ProcessTargetError
  <2>1. /\ Shifts
        /\ UNCHANGED <<connected, toServer>>
        /\ listening => ~listening'
        /\ ~listening => ~listening'
    BY <1>20, ErrorParts DEF memoryVars, ReleaseQuery
  <2> QED
    BY <2>1
<1>21. CASE Listen
  <2>1. connected /\ listen' = saved /\ toServer' = Append(toServer, Watch(saved)) /\ target'.exists
    BY <1>1, <1>21, ListenParts
  <2>2. Watch(saved) \in Requests
    BY DEF TypeOK, DeviceTypes, Watch, Requests
  <2>3. Len(toServer') = Len(toServer) + 1 /\ toServer'[Len(toServer) + 1] = Watch(saved)
    BY <1>2, <2>1, <2>2, AppendParts
  <2>4. toServer' # <<>>
    BY <1>2, <2>3
  <2> QED
    BY <2>1, <2>3, <2>4
<1>22. CASE StopListening
  BY <1>1, <1>22, StopListeningParts DEF ReleaseQuery
<1>23. CASE WatchStreamDidOpen
  <2>1. target'.exists /\ toServer' = <<Watch(listen)>> /\ listen' = listen
    BY <1>23, OpenParts DEF memoryVars
  <2>2. Len(<<Watch(listen)>>) = 1 /\ <<Watch(listen)>>[1] = Watch(listen) /\ <<Watch(listen)>> # <<>>
    OBVIOUS
  <2> QED
    BY <2>1, <2>2
<1>24. CASE Break \/ Crash
  BY <1>24, LostParts
<1>25. ASSUME NEW d, NEW live, Write(d, live)
       PROVE  UNCHANGED <<toClient, toServer, target, crossed, connected, listening, listen>>
  BY <1>25 DEF Write, streamVars, historyVars, memoryVars
<1>26. WentOffline => UNCHANGED <<toClient, toServer, target, crossed, connected, listening, listen>>
  BY DEF WentOffline, streamVars, historyVars
<1>27. UNCHANGED vars => UNCHANGED <<toClient, toServer, target, crossed, connected, listening, listen>>
  BY DEF vars, streamVars, historyVars, memoryVars
<1> QED
  BY <1>4, <1>6, <1>8, <1>9, <1>10, <1>11, <1>13, <1>14, <1>15, <1>16, <1>17, <1>18, <1>19, <1>20, <1>21, <1>22, <1>23,
     <1>24, <1>25, <1>26, <1>27 DEF Next, Serve, Receive

-----------------------------------------------------------------------------
(* What the target records.                                                *)

(* An answer under way is awaited by the target.                           *)
LEMMA AnswerIsAwaited ==
  ASSUME TypeOK, TypeOK', Disconnected, Counted, ~crossed, Shifts
  PROVE  /\ connected /\ target.outstanding \in Nat
         /\ toClient[1].type \in Answers => target.outstanding >= 1
<1>1. connected
  <2>1. toClient # <<>>
    BY NoMessages DEF Shifts
  <2> QED
    BY <2>1 DEF Disconnected
<1>2. Cardinality(AnswerPlaces) \in Nat /\ Cardinality(AnswerPlaces') \in Nat /\ Len(toServer) \in Nat
  <2>1. (Cardinality(AnswerPlaces) \in Nat)'
    BY AnswersAreFinite, PTL
  <2> QED
    BY <2>1, AnswersAreFinite DEF TypeOK, StreamTypes
<1>3. Cardinality(AnswerPlaces) = Cardinality(AnswerPlaces') + (IF toClient[1].type \in Answers THEN 1 ELSE 0)
  BY TakeCounts
<1>4. target.outstanding = Len(toServer) + Cardinality(AnswerPlaces)
  BY <1>1 DEF Counted
<1> QED
  BY <1>1, <1>2, <1>3, <1>4

LEMMA RequestsAreAwaited ==
  ASSUME TypeOK, Counted, ~crossed, connected
  PROVE  target.outstanding \in Nat
<1>1. Cardinality(AnswerPlaces) \in Nat /\ Len(toServer) \in Nat
  BY AnswersAreFinite DEF TypeOK, StreamTypes
<1> QED
  BY <1>1 DEF Counted

(* What a target records keeps fitting the keys.                           *)
LEMMA RecordedStays == TypeOK /\ DeviceOK /\ Counted /\ Recorded /\ [Next]_vars => Recorded'
<1> SUFFICES ASSUME TypeOK, DeviceOK, Counted, Recorded, [Next]_vars,
                    ~crossed', listening', target'.outstanding = 0, target'.exists
             PROVE  /\ ~target'.pending => updates' = NoUpdates /\ \A d \in Docs : target'.changes[d] = "none"
                    /\ \A d \in Docs : /\ target'.changes[d] = "added" => d \notin keys'
                                       /\ target'.changes[d] \in {"modified", "removed"} => d \in keys'
  BY DEF Recorded, Active, NoUpdates
<1>1. Base /\ AbsentIsEmpty /\ Disconnected /\ PendingFlush /\ Whole /\ TypeOK'
  BY BaseParts, TypeStep DEF DeviceOK
<1>2. ~crossed /\ Active /\ target.exists =>
        /\ ~target.pending => updates = NoUpdates /\ \A d \in Docs : target.changes[d] = "none"
        /\ \A d \in Docs : /\ target.changes[d] = "added" => d \notin keys
                           /\ target.changes[d] \in {"modified", "removed"} => d \in keys
  BY DEF Recorded
<1>3. ~NoTarget.exists
  BY NoTargetParts
<1>4. CASE ClientKept /\ Grows
  BY <1>2, <1>4 DEF ClientKept, deviceVars, historyVars, Active
<1>5. ASSUME NEW type, Collected(type)
      PROVE  ~crossed /\ listening /\ keys' = keys
  BY <1>5 DEF Collected, deviceVars, historyVars, memoryVars
<1>6. ~crossed /\ Active =>
        \A d \in Docs : /\ Ensured.changes[d] = "added" => d \notin keys
                        /\ Ensured.changes[d] \in {"modified", "removed"} => d \in keys
  BY <1>1, <1>2 DEF Base
<1>7. ~crossed /\ Active => (~Ensured.pending => updates = NoUpdates /\ \A d \in Docs : Ensured.changes[d] = "none")
  BY <1>1, <1>2 DEF Base
<1>8. CASE TargetAdded
  <2>1. /\ Collected("added") /\ updates' = updates
        /\ ~target'.pending /\ \A d \in Docs : target'.changes[d] = "none"
    BY <1>1, <1>8, TargetAddedParts
  <2>2. updates = NoUpdates
    BY <1>1, <2>1, FlushesAfterTake DEF Collected, PendingFlush, Answers
  <2> QED
    BY <2>1, <2>2
<1>9. CASE TargetRemoved
  BY <1>1, <1>3, <1>9, TargetRemovedParts
<1>10. CASE TargetCurrent
  <2>1. Collected("current") /\ target'.outstanding = target.outstanding
    BY <1>1, <1>10, TargetCurrentParts
  <2>2. Active /\ ~crossed /\ keys' = keys
    BY <1>5, <2>1 DEF Active
  <2>3. target'.pending /\ target'.changes = Ensured.changes
    BY <1>1, <1>10, <2>2, TargetCurrentParts
  <2> QED
    BY <1>6, <2>2, <2>3
<1>11. ASSUME target' = ResetTarget, keys' = keys
       PROVE  /\ target'.pending
              /\ \A d \in Docs : /\ target'.changes[d] = "added" => d \notin keys'
                                 /\ target'.changes[d] \in {"modified", "removed"} => d \in keys'
  BY <1>11, ResetTargetParts
<1>12. CASE TargetReset
  <2>1. Collected("reset") /\ target' = (IF Active THEN ResetTarget ELSE Ensured)
    BY <1>1, <1>12, TargetResetParts
  <2>2. Active
    BY <1>1, <1>5, <2>1 DEF Active, Base
  <2> QED
    BY <1>5, <1>11, <2>1, <2>2
<1>13. CASE AddDocument \/ RemoveDocument
  <2>1. PICK type \in {"doc", "gone"}, kinds \in [Docs -> Kinds] :
            /\ HandleDocument(type, kinds)
            /\ \A d \in Docs : /\ type = "doc" => kinds[d] = IF d \in keys THEN "modified" ELSE "added"
                               /\ type = "gone" => kinds[d] = IF d \in keys THEN "removed" ELSE "none"
    BY <1>1, <1>13, DocumentParts
  <2>2. Collected(type) /\ (~Active => target' = target /\ updates' = updates)
    BY <1>1, <2>1, HandleDocumentParts
  <2>3. Active
    BY <1>5, <2>2 DEF Active
  <2>4. PICK d \in Docs :
           /\ target'.pending /\ target'.changes[d] = kinds[d]
           /\ \A e \in Docs \ {d} : target'.changes[e] = Ensured.changes[e]
    BY <1>1, <2>1, <2>3, HandleDocumentParts
  <2>5. ASSUME NEW e \in Docs
        PROVE  /\ target'.changes[e] = "added" => e \notin keys
               /\ target'.changes[e] \in {"modified", "removed"} => e \in keys
    <3>1. CASE e = d
      BY <2>1, <2>4, <3>1
    <3>2. CASE e # d
      BY <1>5, <1>6, <2>2, <2>3, <2>4, <3>2
    <3> QED
      BY <3>1, <3>2
  <2> QED
    BY <1>5, <2>2, <2>4, <2>5
<1>14. CASE HandleExistenceFilter
  <2>1. /\ Collected("filter") /\ updates' = updates
        /\ ~Active => target' = target
        /\ Active => target' = Ensured \/ target' = ResetTarget
    BY <1>1, <1>14, FilterParts
  <2>2. Active
    BY <1>5, <2>1 DEF Active
  <2>3. CASE target' = Ensured
    BY <1>5, <1>6, <1>7, <2>1, <2>2, <2>3
  <2>4. CASE target' = ResetTarget
    BY <1>5, <1>11, <2>1, <2>4
  <2> QED
    BY <2>1, <2>2, <2>3, <2>4
<1>15. CASE RaiseSnapshot
  <2>1. PICK t, included, mismatch : Seen(t) /\ Raised(t, included, mismatch)
                                     /\ RaisedTarget(t, included, mismatch) /\ RaisedDevice(t, included)
    BY <1>1, <1>15, RaiseParts
  <2>2. ~crossed /\ listening /\ Shifts /\ updates' = NoUpdates
    BY <2>1 DEF Raised
  <2>3. target.outstanding \in Nat
    BY <1>1, <2>2, AnswerIsAwaited
  <2>4. ~mismatch /\ Active
    BY <2>1, <2>2, <2>3 DEF RaisedTarget, Active
  <2>5. target.exists
    BY <2>1 DEF RaisedTarget
  <2>6. CASE included
    BY <2>1, <2>2, <2>5, <2>6 DEF RaisedTarget
  <2>7. CASE ~included
    <3>1. ~t.pending /\ t.exists
      BY <2>1, <2>4, <2>5, <2>7 DEF Raised, Seen
    <3>2. ~target.pending /\ t.changes = target.changes
      BY <2>1, <3>1 DEF Seen
    <3>3. \A d \in Docs : target'.changes[d] = "none"
      BY <1>2, <2>1, <2>2, <2>4, <2>5, <2>7, <3>2 DEF RaisedTarget
    <3> QED
      BY <2>2, <3>3
  <2> QED
    BY <2>6, <2>7
<1>16. CASE ProcessTargetError
  BY <1>3, <1>16, ErrorParts DEF ReleaseQuery, memoryVars
<1>17. CASE Listen
  <2>1. CASE connected
    <3>1. ~crossed /\ target'.outstanding = target.outstanding + 1
      BY <1>1, <1>17, <2>1, ListenParts DEF historyVars
    <3>2. target.outstanding \in Nat
      BY <2>1, <3>1, RequestsAreAwaited
    <3> QED
      BY <3>1, <3>2
  <2>2. CASE ~connected
    BY <1>1, <1>3, <1>17, <2>2, ListenParts DEF Disconnected
  <2> QED
    BY <2>1, <2>2
<1>18. CASE StopListening
  BY <1>1, <1>18, StopListeningParts DEF ReleaseQuery
<1>19. CASE WatchStreamDidOpen
  BY <1>1, <1>3, <1>19, OpenParts DEF Disconnected, memoryVars
<1>20. CASE Break \/ Crash
  BY <1>3, <1>20, LostParts
<1> QED
  BY <1>4, <1>8, <1>9, <1>10, <1>12, <1>13, <1>14, <1>15, <1>16, <1>17, <1>18, <1>19, <1>20, Classified

(* After a mismatch the device will hold nothing.                          *)
LEMMA EmptiedStays == TypeOK /\ DeviceOK /\ Counted /\ Emptied /\ [Next]_vars => Emptied'
<1> SUFFICES ASSUME TypeOK, DeviceOK, Counted, Emptied, [Next]_vars,
                    ~crossed', resets', listening', target'.outstanding = 0
             PROVE  target'.pending /\ target'.token = NoToken /\ \A d \in Docs : ~Held(d)'
  BY DEF Emptied, Active
<1>1. Base /\ Disconnected /\ Whole /\ TypeOK'
  BY BaseParts, TypeStep DEF DeviceOK
<1>2. CASE ClientKept /\ Grows
  BY <1>2 DEF ClientKept, deviceVars, historyVars, Emptied, Active, Held, Renewed, Kind
<1>3. ASSUME NEW type, Collected(type), type # "snapshot"
      PROVE  ~resets /\ keys' = keys /\ listening' = listening
  BY <1>1, <1>3 DEF Collected, Whole, deviceVars, memoryVars
<1>4. CASE TargetAdded \/ TargetRemoved \/ TargetCurrent \/ TargetReset
  BY <1>1, <1>3, <1>4, TargetAddedParts, TargetRemovedParts, TargetCurrentParts, TargetResetParts
<1>5. CASE AddDocument \/ RemoveDocument
  <2>1. PICK type \in {"doc", "gone"}, kinds \in [Docs -> Kinds] : HandleDocument(type, kinds)
    BY <1>1, <1>5, DocumentParts
  <2> QED
    BY <1>1, <1>3, <2>1, HandleDocumentParts
<1>6. CASE HandleExistenceFilter
  <2>1. Collected("filter") /\ (resets' = resets \/ target' = ResetTarget)
    BY <1>1, <1>6, FilterParts
  <2>2. target' = ResetTarget /\ keys' = keys
    BY <1>3, <2>1
  <2>3. \A d \in Docs : target'.changes[d] = IF d \in keys THEN "removed" ELSE "none"
    BY <2>2, ResetTargetParts
  <2>4. \A d \in Docs : Kind(d)' = target'.changes[d]
    BY <2>2, ResetTargetParts DEF Kind, Active
  <2>5. \A d \in Docs : ~Held(d)'
    BY <2>2, <2>3, <2>4 DEF Held, Renewed
  <2> QED
    BY <2>2, <2>5, ResetTargetParts
<1>7. CASE RaiseSnapshot
  BY <1>1, <1>7, RaiseParts DEF Raised
<1>8. CASE ProcessTargetError
  BY <1>1, <1>8, ErrorParts DEF Whole
<1>9. CASE Listen
  <2>1. CASE connected
    <3>1. ~crossed /\ target'.outstanding = target.outstanding + 1
      BY <1>1, <1>9, <2>1, ListenParts DEF historyVars
    <3>2. target.outstanding \in Nat
      BY <2>1, <3>1, RequestsAreAwaited
    <3> QED
      BY <3>1, <3>2
  <2>2. CASE ~connected
    BY <1>1, <1>9, <2>2, ListenParts DEF Disconnected
  <2> QED
    BY <2>1, <2>2
<1>10. CASE StopListening
  BY <1>1, <1>10, StopListeningParts DEF ReleaseQuery
<1>11. CASE WatchStreamDidOpen
  BY <1>1, <1>11, OpenParts DEF Disconnected
<1>12. CASE Break \/ Crash
  BY <1>12, LostParts
<1> QED
  BY <1>2, <1>4, <1>5, <1>6, <1>7, <1>8, <1>9, <1>10, <1>11, <1>12, Classified

-----------------------------------------------------------------------------
(* What the messages under way will make of the device: claims, places and *)
(* points from one step to the next.                                       *)

(* What was true at a version stays true at it.                            *)
LEMMA TruthStays ==
  ASSUME HistoryKept, NEW d, NEW v \in 0..Version
  PROVE  Truth(d, v)' = Truth(d, v)
BY DEF HistoryKept, Truth, Dead

LEMMA SameTruth == ASSUME log' = log PROVE \A d : \A v : Truth(d, v)' = Truth(d, v)
BY SameHistory DEF Truth, Dead

-----------------------------------------------------------------------------
(* Taking a message moves all places by one.                               *)
LEMMA AnsweredShifts ==
  ASSUME Shifts, NEW a \in Nat, a >= 1, NEW b, b = a + 1
  PROVE  Answered(a)' <=> Answered(b)
<1>1. ASSUME Answered(b), NEW j \in 1..Len(toClient'), j >= a PROVE toClient'[j].type \notin Answers
  <2>1. j + 1 \in 1..Len(toClient) /\ j + 1 >= b /\ toClient'[j] = toClient[j + 1]
    BY <1>1 DEF Shifts
  <2> QED
    BY <1>1, <2>1 DEF Answered
<1>2. ASSUME Answered(a)', NEW j \in 1..Len(toClient), j >= b PROVE toClient[j].type \notin Answers
  <2>1. j - 1 \in 1..Len(toClient') /\ j - 1 >= a /\ (j - 1) + 1 = j
    BY <1>2 DEF Shifts
  <2>2. toClient'[j - 1] = toClient[j]
    BY <2>1 DEF Shifts
  <2>3. toClient'[j - 1].type \notin Answers
    BY <1>2, <2>1 DEF Answered
  <2> QED
    BY <2>2, <2>3
<1> QED
  BY <1>1, <1>2 DEF Answered

LEMMA PlacesShift ==
  ASSUME Shifts, NEW a \in Nat, a >= 1, NEW b, b = a + 1, NEW c \in Nat, NEW e, e = c + 1
  PROVE  /\ \A d : Silent(d, a, c)' <=> Silent(d, b, e)
         /\ Filtered(a, c)' <=> Filtered(b, e)
         /\ NoReset(a, c)' <=> NoReset(b, e)
<1>1. ASSUME NEW k \in 1..Len(toClient')
      PROVE  /\ k + 1 \in 1..Len(toClient) /\ toClient'[k] = toClient[k + 1]
             /\ Answered(k)' <=> Answered(k + 1)
             /\ a <= k <=> b <= k + 1
             /\ k < c <=> k + 1 < e
             /\ \A d : Speaks(k, d)' <=> Speaks(k + 1, d)
  <2>1. k + 1 \in 1..Len(toClient) /\ toClient'[k] = toClient[k + 1]
    BY DEF Shifts
  <2>2. Answered(k)' <=> Answered(k + 1)
    <3>1. PICK i : i = k + 1
      OBVIOUS
    <3>2. k \in Nat /\ k >= 1
      BY DEF Shifts
    <3> QED
      BY <3>1, <3>2, AnsweredShifts
  <2>3. (a <= k <=> b <= k + 1) /\ (k < c <=> k + 1 < e)
    BY DEF Shifts
  <2>4. \A d : Speaks(k, d)' <=> Speaks(k + 1, d)
    BY <2>1 DEF Speaks
  <2> QED
    BY <2>1, <2>2, <2>3, <2>4
<1>2. ASSUME NEW j \in 1..Len(toClient), b <= j PROVE \E k \in 1..Len(toClient') : j = k + 1
  <2>1. j - 1 \in 1..Len(toClient') /\ j = (j - 1) + 1
    BY <1>2 DEF Shifts
  <2> QED
    BY <2>1
<1>3. ASSUME NEW d PROVE Silent(d, a, c)' <=> Silent(d, b, e)
  <2>1. ASSUME Silent(d, b, e) PROVE Silent(d, a, c)'
    BY <1>1, <2>1 DEF Silent
  <2>2. ASSUME Silent(d, a, c)' PROVE Silent(d, b, e)
    <3> SUFFICES ASSUME NEW j \in 1..Len(toClient), b <= j, j < e, Answered(j) PROVE ~Speaks(j, d)
      BY DEF Silent
    <3>1. PICK k \in 1..Len(toClient') : j = k + 1
      BY <1>2
    <3> QED
      BY <1>1, <2>2, <3>1 DEF Silent
  <2> QED
    BY <2>1, <2>2
<1>4. Filtered(a, c)' <=> Filtered(b, e)
  <2>1. ASSUME Filtered(a, c)' PROVE Filtered(b, e)
    BY <1>1, <2>1 DEF Filtered
  <2>2. ASSUME Filtered(b, e) PROVE Filtered(a, c)'
    <3>1. PICK j \in 1..Len(toClient) : b <= j /\ j < e /\ Answered(j) /\ toClient[j].type = "filter"
      BY <2>2 DEF Filtered
    <3>2. PICK k \in 1..Len(toClient') : j = k + 1
      BY <1>2, <3>1
    <3> QED
      BY <1>1, <3>1, <3>2 DEF Filtered
  <2> QED
    BY <2>1, <2>2
<1>5. NoReset(a, c)' <=> NoReset(b, e)
  <2>1. ASSUME NoReset(b, e) PROVE NoReset(a, c)'
    BY <1>1, <2>1 DEF NoReset
  <2>2. ASSUME NoReset(a, c)' PROVE NoReset(b, e)
    <3> SUFFICES ASSUME NEW j \in 1..Len(toClient), b <= j, j < e, Answered(j) PROVE toClient[j].type # "reset"
      BY DEF NoReset
    <3>1. PICK k \in 1..Len(toClient') : j = k + 1
      BY <1>2
    <3> QED
      BY <1>1, <2>2, <3>1 DEF NoReset
  <2> QED
    BY <2>1, <2>2
<1> QED
  BY <1>3, <1>4, <1>5

-----------------------------------------------------------------------------
(* Taking a message moves the points.                                      *)
Moved == Shifts /\ log' = log /\ watched' = watched

LEMMA FirstShifts ==
  ASSUME Moved, NEW i \in Nat, NEW p, p = i + 1
  PROVE  /\ \A d : Silent(d, 1, i)' <=> Silent(d, 2, p)
         /\ Filtered(1, i)' <=> Filtered(2, p)
         /\ NoReset(1, i)' <=> NoReset(2, p)
<1>1. PICK a \in Nat : a = 1 /\ a >= 1
  OBVIOUS
<1>2. PICK b \in Nat : b = 2 /\ b = a + 1
  BY <1>1
<1>3. /\ \A d : Silent(d, a, i)' <=> Silent(d, b, p)
      /\ Filtered(a, i)' <=> Filtered(b, p)
      /\ NoReset(a, i)' <=> NoReset(b, p)
  BY <1>1, <1>2, PlacesShift DEF Moved
<1> QED
  BY <1>1, <1>2, <1>3

LEMMA PointShifts ==
  ASSUME Moved, NEW i \in 1..(Len(toClient') + 1), NEW p, p = i + 1
  PROVE  /\ p \in 1..(Len(toClient) + 1) /\ i \in Nat /\ i >= 1
         /\ Point(i)' <=> Point(p)
         /\ At(i)' = At(p)
         /\ \A d : Truth(d, At(i))' = Truth(d, At(p))
<1>1. p \in 1..(Len(toClient) + 1) /\ i \in Nat /\ i >= 1
  BY DEF Moved, Shifts
<1>2. Answered(i)' <=> Answered(p)
  BY <1>1, AnsweredShifts DEF Moved
<1>3. i \in 1..Len(toClient') <=> p \in 1..Len(toClient)
  BY DEF Moved, Shifts
<1>4. i \in 1..Len(toClient') => toClient'[i] = toClient[p]
  BY DEF Moved, Shifts
<1>5. Point(i)' <=> Point(p)
  BY <1>1, <1>2, <1>3, <1>4 DEF Point
<1>6. At(i)' = At(p)
  BY <1>3, <1>4 DEF At, Moved
<1>7. \A d : \A v : Truth(d, v)' = Truth(d, v)
  BY SameTruth DEF Moved
<1>8. PICK v : v = At(p)
  OBVIOUS
<1>9. \A d : Truth(d, At(i))' = Truth(d, At(p))
  <2> SUFFICES ASSUME NEW d PROVE Truth(d, At(i))' = Truth(d, At(p))
    OBVIOUS
  <2>1. Truth(d, At(i))' = Truth(d, v)'
    BY <1>6, <1>8 DEF Truth, Lives, LastWrite
  <2> QED
    BY <2>1, <1>7, <1>8
<1> QED
  BY <1>1, <1>5, <1>6, <1>9

LEMMA PlaceShifts ==
  ASSUME Moved, NEW i \in 1..(Len(toClient') + 1), NEW p, p = i + 1,
         NEW k \in 1..Len(toClient'), NEW l, l = k + 1, PlaceFits(l, p)
  PROVE  PlaceFits(k, i)'
<1>1. /\ l \in 1..Len(toClient) /\ toClient'[k] = toClient[l] /\ l \in Nat /\ l >= 1 /\ i \in Nat
  BY DEF Moved, Shifts
<1>2. PICK m : m = l + 1
  OBVIOUS
<1>3. /\ \A d : Silent(d, l, i)' <=> Silent(d, m, p)
      /\ Filtered(l, i)' <=> Filtered(m, p)
  BY <1>1, <1>2, PlacesShift DEF Moved
<1>4. \A d : Truth(d, At(i))' = Truth(d, At(p))
  BY PointShifts
<1>5. \A d : \A v : Truth(d, v)' = Truth(d, v)
  BY SameTruth DEF Moved
<1>6. \A d : Speaks(k, d)' <=> Speaks(l, d)
  BY <1>1 DEF Speaks
<1>7. \A d : Claim(k, d)' = Claim(l, d)
  <2> SUFFICES ASSUME NEW d PROVE Claim(k, d)' = Claim(l, d)
    OBVIOUS
  <2>1. PICK v : v = toClient[l].version
    OBVIOUS
  <2>2. Truth(d, toClient[k].version)' = Truth(d, v)'
    BY <1>1, <2>1 DEF Truth, Lives, LastWrite
  <2>3. Truth(d, toClient[k].version)' = Truth(d, toClient[l].version)
    BY <2>1, <2>2, <1>5
  <2> QED
    BY <1>1, <2>3 DEF Claim, Dead
<1>8. ASSUME NEW d \in Docs, (Speaks(k, d) \/ toClient[k].type = "snapshot")', Silent(d, k + 1, i)'
      PROVE  \/ Claim(k, d)' = Truth(d, At(i))'
             \/ Truth(d, At(i))' = Dead /\ Filtered(k + 1, i)'
  <2>1. Speaks(l, d) \/ toClient[l].type = "snapshot"
    BY <1>1, <1>6, <1>8
  <2>2. Silent(d, l + 1, p)
    BY <1>2, <1>3, <1>8
  <2>3. Claim(l, d) = Truth(d, At(p)) \/ (Truth(d, At(p)) = Dead /\ Filtered(l + 1, p))
    BY <2>1, <2>2 DEF PlaceFits
  <2> QED
    BY <2>3, <1>2, <1>3, <1>4, <1>7
<1> QED
  BY <1>8 DEF PlaceFits, Dead

(* The target is marked current and has a token.                           *)
Marked == Active /\ target.exists /\ target.current /\ target.token # NoToken

LEMMA CurrentShifts ==
  ASSUME Moved, NEW i \in 1..(Len(toClient') + 1), NEW p, p = i + 1, GetsCurrent(p),
         Marked => Answered(1),
         Marked /\ toClient[1].type # "reset" => Marked',
         Answered(1) /\ toClient[1].type = "current" => Marked'
  PROVE  GetsCurrent(i)'
<1>0. /\ Len(toClient) \in Nat /\ Len(toClient) >= 1 /\ Len(toClient') \in Nat
      /\ Len(toClient) = Len(toClient') + 1 /\ i \in Nat /\ 1 \in 1..Len(toClient) /\ 1 < p
  BY DEF Moved, Shifts
<1>1. NoReset(1, i)' <=> NoReset(2, p)
  BY <1>0, FirstShifts
<1>2. CASE Marked /\ NoReset(1, p)
  <2>1. toClient[1].type # "reset"
    BY <1>2, <1>0 DEF NoReset
  <2>2. NoReset(2, p)
    BY <1>2 DEF NoReset
  <2> QED
    BY <1>1, <1>2, <2>1, <2>2 DEF GetsCurrent, Marked
<1>3. ASSUME NEW k \in 1..Len(toClient), k < p, Answered(k), toClient[k].type = "current", NoReset(k + 1, p)
      PROVE  GetsCurrent(i)'
  <2>1. CASE k = 1
    BY <1>1, <1>3, <2>1 DEF GetsCurrent, Marked
  <2>2. CASE k # 1
    <3>1. PICK j \in 1..Len(toClient') : k = j + 1
      <4>1. k - 1 \in 1..Len(toClient') /\ k = (k - 1) + 1
        BY <2>2, <1>0
      <4> QED
        BY <4>1
    <3>2. j \in Nat /\ j >= 1 /\ j < i /\ toClient'[j] = toClient[k]
      BY <3>1, <1>0, <1>3 DEF Moved, Shifts
    <3>3. Answered(j)'
      BY <3>1, <3>2, <1>3, AnsweredShifts DEF Moved
    <3>4. k \in Nat /\ k >= 1
      BY <1>0
    <3>5. PICK m : m = k + 1
      OBVIOUS
    <3>6. NoReset(k, i)' <=> NoReset(m, p)
      BY <3>4, <3>5, <1>0, PlacesShift DEF Moved
    <3>7. NoReset(j + 1, i)'
      BY <3>1, <3>5, <3>6, <1>3
    <3> QED
      BY <3>2, <3>3, <3>7, <1>3 DEF GetsCurrent
  <2> QED
    BY <2>1, <2>2
<1> QED
  BY <1>2, <1>3 DEF GetsCurrent, Marked

LEMMA StateShifts ==
  ASSUME Moved, NEW i \in 1..(Len(toClient') + 1), NEW p, p = i + 1, StateFits(p),
         Answered(1) => PlaceFits(1, p),
         ~(Answered(1) /\ toClient[1].type = "filter"),
         \A d \in Docs : StateClaim(d)' = IF Answered(1) /\ Speaks(1, d) THEN Claim(1, d) ELSE StateClaim(d)
  PROVE  StateFits(i)'
<1>0. i \in Nat /\ 1 \in 1..Len(toClient) /\ 1 < p
  BY DEF Moved, Shifts
<1>1. /\ \A d : Silent(d, 1, i)' <=> Silent(d, 2, p)
      /\ Filtered(1, i)' <=> Filtered(2, p)
  BY <1>0, FirstShifts
<1>2. \A d : Truth(d, At(i))' = Truth(d, At(p))
  BY PointShifts
<1>3. ASSUME NEW d \in Docs, Silent(d, 1, i)'
      PROVE  \/ StateClaim(d)' = Truth(d, At(i))'
             \/ Truth(d, At(i))' = Dead /\ Filtered(1, i)'
  <2>1. CASE Answered(1) /\ Speaks(1, d)
    <3>1. Claim(1, d) = Truth(d, At(p)) \/ (Truth(d, At(p)) = Dead /\ Filtered(1 + 1, p))
      BY <2>1, <1>1, <1>3 DEF PlaceFits
    <3> QED
      BY <3>1, <2>1, <1>1, <1>2
  <2>2. CASE ~(Answered(1) /\ Speaks(1, d))
    <3>1. ASSUME NEW k \in 1..Len(toClient), 1 <= k, k < p, Answered(k) PROVE ~Speaks(k, d)
      <4>1. CASE k = 1
        BY <4>1, <3>1, <2>2
      <4>2. CASE k # 1
        <5>1. 2 <= k
          BY <4>2, <3>1, <1>0 DEF Moved, Shifts
        <5> QED
          BY <5>1, <3>1, <1>1, <1>3 DEF Silent
      <4> QED
        BY <4>1, <4>2
    <3>2. Silent(d, 1, p)
      BY <3>1 DEF Silent
    <3>3. Filtered(1, p) => Filtered(2, p)
      <4>1. ASSUME NEW k \in 1..Len(toClient), 1 <= k, k < p, Answered(k), toClient[k].type = "filter"
            PROVE  2 <= k
        <5>1. k # 1
          BY <4>1
        <5> QED
          BY <5>1, <4>1, <1>0 DEF Moved, Shifts
      <4> QED
        BY <4>1 DEF Filtered
    <3> QED
      BY <2>2, <3>2, <3>3, <1>1, <1>2 DEF StateFits
  <2> QED
    BY <2>1, <2>2
<1> QED
  BY <1>3 DEF StateFits, Dead

-----------------------------------------------------------------------------
(* What taking a message makes of the device's claims, for a query that is *)
(* listened to and will be told everything.                                *)
Turned ==
  \A d \in Docs : StateClaim(d)' = IF Answered(1) /\ Speaks(1, d) THEN Claim(1, d) ELSE StateClaim(d)
MarkedKept ==
  /\ Marked => Answered(1)
  /\ Marked /\ toClient[1].type # "reset" => Marked'
  /\ Answered(1) /\ toClient[1].type = "current" => Marked'
ClientOK == Base /\ Counted /\ Asked /\ Recorded

(* A point that fits and moves up by one fits.                             *)
LEMMA PointMoves ==
  ASSUME Moved, MarkedKept, NEW i \in 1..(Len(toClient') + 1), NEW p, p = i + 1, PointFits(p), StateFits(i)'
  PROVE  PointFits(i)'
<1>0. i \in Nat /\ 1 \in 1..Len(toClient) /\ 1 < p
  BY DEF Moved, Shifts
<1>1. GetsCurrent(i)'
  BY CurrentShifts DEF PointFits, MarkedKept
<1>2. ASSUME NEW k \in 1..Len(toClient'), k < i, Answered(k)' PROVE PlaceFits(k, i)'
  <2>1. PICK l : l = k + 1
    OBVIOUS
  <2>2. l \in 1..Len(toClient) /\ l < p /\ k \in Nat /\ k >= 1
    BY <2>1, <1>0, <1>2 DEF Moved, Shifts
  <2>3. Answered(l)
    BY <2>1, <2>2, <1>2, AnsweredShifts DEF Moved
  <2>4. PlaceFits(l, p)
    BY <2>2, <2>3 DEF PointFits
  <2> QED
    BY <2>1, <2>4, PlaceShifts
<1> QED
  BY <1>1, <1>2 DEF PointFits

(* Taking a message other than a filter keeps every point fitting.         *)
LEMMA PointsMove ==
  ASSUME Moved, MarkedKept, Turned, ~(Answered(1) /\ toClient[1].type = "filter"),
         Following, QueueFits
  PROVE  QueueFits'
<1>1. ASSUME NEW i \in 1..(Len(toClient') + 1), Point(i)' PROVE PointFits(i)'
  <2>1. PICK p : p = i + 1
    OBVIOUS
  <2>2. Point(p) /\ p \in 1..(Len(toClient) + 1)
    BY <2>1, <1>1, PointShifts
  <2>3. PointFits(p)
    BY <2>2 DEF QueueFits
  <2>4. 1 \in 1..Len(toClient) /\ 1 < p
    BY <2>1 DEF Moved, Shifts
  <2>5. StateFits(i)'
    BY <2>1, <2>3, <2>4, StateShifts DEF PointFits, Turned
  <2> QED
    BY <2>1, <2>3, <2>5, PointMoves
<1> QED
  BY <1>1 DEF QueueFits

LEMMA ActiveIsAnswered ==
  ASSUME TypeOK, ClientOK, Following
  PROVE  /\ target.outstanding \in Nat /\ target.exists /\ target \in TargetState /\ listening
         /\ Active <=> target.outstanding = 0
         /\ Active <=> Answered(1)
         /\ \A d \in Docs : Kind(d) = IF Active THEN target.changes[d] ELSE "none"
         /\ Marked => Answered(1)
<1>1. listening /\ connected /\ ~crossed /\ toServer = <<>>
  BY DEF Following
<1>2. target.outstanding = Len(toServer) + Cardinality(AnswerPlaces) /\ Len(toServer) = 0
  BY <1>1 DEF ClientOK, Counted
<1>3. /\ target.outstanding \in Nat
      /\ target.outstanding = 0 <=> Answered(1)
  BY <1>2, AnswersAreFinite
<1>4. target.exists /\ target \in TargetState
  BY <1>1 DEF ClientOK, Asked, Base
<1> QED
  BY <1>1, <1>3, <1>4 DEF Active, Kind, Marked

LEMMA CollectedMoves ==
  ASSUME NEW type, Collected(type), resets => resets', Following'
  PROVE  /\ Following /\ Moved /\ toClient[1].type = type
         /\ keys' = keys /\ cache' = cache /\ listening' = listening
         /\ 1 \in 1..Len(toClient)
BY DEF Collected, Following, Moved, serverVars, deviceVars, memoryVars, historyVars, Shifts

LEMMA SameClaims ==
  ASSUME updates' = updates, keys' = keys, cache' = cache, \A d \in Docs : Kind(d)' = Kind(d)
  PROVE  \A d \in Docs : StateClaim(d)' = StateClaim(d)
BY DEF StateClaim, Held, Known, Renewed, Dead

(* A message that speaks of no document turns nothing.                     *)
LEMMA QuietTurn ==
  ASSUME updates' = updates, keys' = keys, cache' = cache, \A d \in Docs : Kind(d)' = Kind(d),
         Answered(1) => toClient[1].type \notin {"doc", "gone", "reset"}
  PROVE  Turned
<1>1. \A d \in Docs : StateClaim(d)' = StateClaim(d)
  BY SameClaims
<1> QED
  BY <1>1 DEF Turned, Speaks

(* Message by message.                                                     *)
LEMMA AnswerMoves ==
  ASSUME TypeOK, ClientOK, TargetAdded \/ TargetRemoved, Following', QueueFits
  PROVE  QueueFits'
<1>0. Base
  BY DEF ClientOK
<1>1. PICK type \in Answers : Collected(type) /\ updates' = updates /\ resets' = resets
  BY <1>0, TargetAddedParts, TargetRemovedParts DEF Answers
<1>2. /\ Following /\ Moved /\ toClient[1].type = type
      /\ keys' = keys /\ cache' = cache /\ listening' = listening /\ 1 \in 1..Len(toClient)
  BY <1>1, CollectedMoves
<1>3. ~Answered(1)
  BY <1>2 DEF Answered
<1>4. target.outstanding \in Nat /\ ~Active /\ ~Marked /\ \A d \in Docs : Kind(d) = "none"
  BY <1>2, <1>3, ActiveIsAnswered
<1>5. \A d \in Docs : Kind(d)' = "none"
  <2>1. CASE TargetAdded
    <3>1. target'.outstanding = 0 => \A d \in Docs : target'.changes[d] = "none"
      BY <2>1, <1>0, TargetAddedParts
    <3> QED
      BY <3>1 DEF Kind, Active
  <2>2. CASE TargetRemoved
    <3>1. target'.outstanding = 0 => target' = NoTarget
      BY <2>2, <1>0, TargetRemovedParts
    <3> QED
      BY <3>1, NoTargetParts DEF Kind, Active
  <2> QED
    BY <2>1, <2>2
<1>6. Turned
  BY <1>1, <1>2, <1>3, <1>4, <1>5, QuietTurn
<1>7. MarkedKept
  BY <1>3, <1>4 DEF MarkedKept
<1> QED
  BY <1>2, <1>3, <1>6, <1>7, PointsMove

LEMMA CurrentMoves ==
  ASSUME TypeOK, ClientOK, TargetCurrent, Following', QueueFits
  PROVE  QueueFits'
<1>0. Base
  BY DEF ClientOK
<1>1. /\ Collected("current") /\ updates' = updates /\ resets' = resets
      /\ target' \in TargetState /\ target'.exists /\ target'.outstanding = target.outstanding
      /\ target'.changes = Ensured.changes
      /\ Active => target'.current /\ target'.token = toClient[1].token
      /\ ~Active => target' = Ensured
  BY <1>0, TargetCurrentParts
<1>2. /\ Following /\ Moved /\ toClient[1].type = "current"
      /\ keys' = keys /\ cache' = cache /\ listening' = listening /\ 1 \in 1..Len(toClient)
  BY <1>1, CollectedMoves
<1>3. /\ target.exists /\ (Active <=> Answered(1)) /\ (Marked => Answered(1))
      /\ \A d \in Docs : Kind(d) = IF Active THEN target.changes[d] ELSE "none"
  BY <1>2, ActiveIsAnswered
<1>4. Active' <=> Active
  BY <1>1, <1>2 DEF Active
<1>5. target'.changes = target.changes
  BY <1>0, <1>1, <1>3 DEF Base
<1>6. \A d \in Docs : Kind(d)' = Kind(d)
  BY <1>1, <1>3, <1>4, <1>5 DEF Kind
<1>7. Turned
  BY <1>1, <1>2, <1>6, QuietTurn
<1>8. Active => Marked'
  <2>1. toClient[1] \in Messages
    BY <1>1 DEF Collected
  <2>2. toClient[1].token \in Nat
    BY <2>1, <1>2, MessageParts
  <2>3. toClient[1].token # NoToken
    BY <2>2 DEF NoToken
  <2> QED
    BY <1>1, <1>4, <2>3 DEF Marked
<1>9. MarkedKept
  BY <1>3, <1>8 DEF MarkedKept
<1> QED
  BY <1>2, <1>7, <1>9, PointsMove

LEMMA ResetMoves ==
  ASSUME TypeOK, ClientOK, TargetReset, Following', QueueFits
  PROVE  QueueFits'
<1>0. Base
  BY DEF ClientOK
<1>1. /\ Collected("reset") /\ updates' = updates /\ resets' = resets
      /\ target' = IF Active THEN ResetTarget ELSE Ensured
  BY <1>0, TargetResetParts
<1>2. /\ Following /\ Moved /\ toClient[1].type = "reset"
      /\ keys' = keys /\ cache' = cache /\ listening' = listening /\ 1 \in 1..Len(toClient)
  BY <1>1, CollectedMoves
<1>3. /\ target.exists /\ (Active <=> Answered(1)) /\ (Marked => Answered(1))
      /\ \A d \in Docs : Kind(d) = IF Active THEN target.changes[d] ELSE "none"
      /\ listening
  BY <1>2, ActiveIsAnswered
<1>4. Turned
  <2>1. CASE Active
    <3>1. /\ target' = ResetTarget /\ target'.exists /\ target'.outstanding = 0
          /\ \A d \in Docs : target'.changes[d] = IF d \in keys THEN "removed" ELSE "none"
      BY <2>1, <1>1, ResetTargetParts
    <3>2. \A d \in Docs : Kind(d)' = IF d \in keys THEN "removed" ELSE "none"
      BY <3>1, <1>2, <1>3 DEF Kind, Active
    <3>3. \A d \in Docs : ~Held(d)'
      BY <3>2, <1>2 DEF Held, Renewed
    <3> QED
      BY <3>3, <2>1, <1>2, <1>3 DEF Turned, StateClaim, Speaks, Claim, Dead
  <2>2. CASE ~Active
    <3>1. target'.outstanding = target.outstanding
      BY <2>2, <1>0, <1>1 DEF Base
    <3>2. \A d \in Docs : Kind(d)' = Kind(d)
      BY <3>1, <2>2, <1>2, <1>3 DEF Kind, Active
    <3> QED
      BY <3>2, <2>2, <1>1, <1>2, <1>3, QuietTurn
  <2> QED
    BY <2>1, <2>2
<1>5. MarkedKept
  BY <1>2, <1>3 DEF MarkedKept
<1> QED
  BY <1>2, <1>4, <1>5, PointsMove

LEMMA DocumentMoves ==
  ASSUME TypeOK, ClientOK, AddDocument \/ RemoveDocument, Following', QueueFits
  PROVE  QueueFits'
<1>0. Base
  BY DEF ClientOK
<1>1. PICK type \in {"doc", "gone"}, kinds \in [Docs -> Kinds] :
         /\ HandleDocument(type, kinds)
         /\ \A d \in Docs : /\ type = "doc" => kinds[d] = IF d \in keys THEN "modified" ELSE "added"
                            /\ type = "gone" => kinds[d] = IF d \in keys THEN "removed" ELSE "none"
  BY <1>0, DocumentParts
<1>2. /\ Collected(type) /\ resets' = resets
      /\ ~Active => target' = target /\ updates' = updates
      /\ \E d \in Docs :
           /\ d = toClient[1].doc
           /\ Active =>
                /\ target' \in TargetState /\ target'.exists /\ target'.pending
                /\ target'.outstanding = target.outstanding
                /\ (target'.current <=> Ensured.current) /\ target'.token = Ensured.token
                /\ target'.changes[d] = kinds[d]
                /\ \A e \in Docs \ {d} : target'.changes[e] = Ensured.changes[e]
                /\ updates' = [updates EXCEPT ![d] = toClient[1].version]
  BY <1>0, <1>1, HandleDocumentParts
<1>3. /\ Following /\ Moved /\ toClient[1].type = type
      /\ keys' = keys /\ cache' = cache /\ listening' = listening /\ 1 \in 1..Len(toClient)
  BY <1>2, CollectedMoves
<1>4. /\ target.exists /\ (Active <=> Answered(1)) /\ (Marked => Answered(1))
      /\ \A d \in Docs : Kind(d) = IF Active THEN target.changes[d] ELSE "none"
      /\ listening
  BY <1>3, ActiveIsAnswered
<1>5. Ensured.changes = target.changes /\ (Ensured.current <=> target.current) /\ Ensured.token = target.token
  BY <1>0, <1>4 DEF Base
<1>6. CASE Active
  <2>1. PICK d \in Docs :
          /\ d = toClient[1].doc
          /\ target'.exists /\ target'.outstanding = target.outstanding
          /\ (target'.current <=> target.current) /\ target'.token = target.token
          /\ target'.changes[d] = kinds[d]
          /\ \A e \in Docs \ {d} : target'.changes[e] = target.changes[e]
          /\ updates' = [updates EXCEPT ![d] = toClient[1].version]
    BY <1>2, <1>5, <1>6
  <2>2. Active'
    BY <2>1, <1>3, <1>6 DEF Active
  <2>3. updates'[d] = toClient[1].version /\ \A e \in Docs \ {d} : updates'[e] = updates[e]
    BY <2>1 DEF TypeOK, StreamTypes
  <2>4. StateClaim(d)' = Claim(1, d) /\ Speaks(1, d)
    <3>1. Kind(d)' = kinds[d]
      BY <2>1, <2>2 DEF Kind
    <3>2. CASE type = "doc"
      <4>1. Renewed(d)'
        BY <3>1, <3>2, <1>1 DEF Renewed
      <4> QED
        BY <4>1, <3>2, <2>1, <2>3, <1>3 DEF StateClaim, Held, Known, Claim, Speaks
    <3>3. CASE type = "gone"
      <4>1. ~Held(d)'
        BY <3>1, <3>3, <1>1, <1>3 DEF Held, Renewed
      <4> QED
        BY <4>1, <3>3, <2>1, <1>3 DEF StateClaim, Claim, Speaks, Dead
    <3> QED
      BY <3>2, <3>3
  <2>5. ASSUME NEW e \in Docs, e # d PROVE StateClaim(e)' = StateClaim(e) /\ ~Speaks(1, e)
    <3>1. Kind(e)' = Kind(e)
      BY <2>1, <2>2, <2>5, <1>4, <1>6 DEF Kind
    <3>2. StateClaim(e)' = StateClaim(e)
      BY <3>1, <2>3, <2>5, <1>3 DEF StateClaim, Held, Known, Renewed, Dead
    <3> QED
      BY <3>2, <2>1, <2>5, <1>3 DEF Speaks
  <2>6. Turned
    BY <2>4, <2>5, <1>4, <1>6 DEF Turned
  <2>7. MarkedKept
    BY <2>1, <2>2, <1>3, <1>4 DEF MarkedKept, Marked
  <2> QED
    BY <2>6, <2>7, <1>3, PointsMove
<1>7. CASE ~Active
  <2>1. target' = target /\ updates' = updates
    BY <1>2, <1>7
  <2>2. \A d \in Docs : Kind(d)' = Kind(d)
    BY <2>1, <1>3 DEF Kind, Active
  <2>3. Turned
    BY <2>1, <2>2, <1>3, <1>4, <1>7, QuietTurn
  <2>4. MarkedKept
    BY <1>3, <1>4, <1>7 DEF MarkedKept
  <2> QED
    BY <2>3, <2>4, <1>3, PointsMove
<1> QED
  BY <1>6, <1>7

(* Being dead is no version.                                               *)
LEMMA TruthParts ==
  ASSUME Log, NEW d, NEW v \in Nat
  PROVE  /\ Lives(d, v) => Truth(d, v) = LastWrite(d, v) /\ Truth(d, v) \in Nat /\ Truth(d, v) # 0
         /\ ~Lives(d, v) => Truth(d, v) = Dead
         /\ Truth(d, v) = Dead <=> ~Lives(d, v)
BY LastWriteIs DEF Truth, Dead, Lives

-----------------------------------------------------------------------------
(* A snapshot applied to a query that is followed leaves its claims as     *)
(* they are: what was collected is now on the device.                      *)
LEMMA SnapshotIsPoint ==
  ASSUME TypeOK, Shifts, toClient[1].type = "snapshot", Answered(1), Following, QueueFits,
         NEW v, v = toClient[1].version
  PROVE  /\ v \in Nat /\ GetsCurrent(1)
         /\ \A d \in Docs : StateClaim(d) = Truth(d, v)
<1>0. 1 \in 1..Len(toClient) /\ 1 \in 1..(Len(toClient) + 1)
  BY DEF Shifts
<1>1. Point(1)
  BY <1>0 DEF Point
<1>2. StateFits(1) /\ GetsCurrent(1)
  BY <1>0, <1>1 DEF QueueFits, PointFits
<1>3. At(1) = v
  BY <1>0 DEF At
<1>4. \A d \in Docs : Silent(d, 1, 1)
  BY <1>0 DEF Silent
<1>5. ~Filtered(1, 1)
  BY <1>0 DEF Filtered
<1>6. v \in Nat
  BY <1>0, PlaceTypes
<1> QED
  BY <1>2, <1>3, <1>4, <1>5, <1>6 DEF StateFits

(* Not active, or nothing to tell: only what the cache holds may change.   *)
LEMMA SkipTurn ==
  ASSUME TypeOK, keys' = keys, updates' = NoUpdates,
         cache' = [d \in Docs |-> IF updates[d] # 0 /\ updates[d] >= cache[d] THEN updates[d] ELSE cache[d]],
         \A d \in Docs : Kind(d)' = "none" /\ Kind(d) = "none"
  PROVE  \A d \in Docs : StateClaim(d)' = StateClaim(d)
<1>1. \A d \in Docs : updates'[d] = 0
  BY DEF NoUpdates
<1> QED
  BY <1>1 DEF StateClaim, Held, Known, Renewed, Dead

(* What the device holds and knows after the snapshot is what it claimed   *)
(* before.                                                                 *)
LEMMA ApplyTurn ==
  ASSUME TypeOK, NEW t, t.changes \in [Docs -> Kinds], \A d \in Docs : Kind(d) = t.changes[d],
         keys' = (keys \ Sort(t, "removed")) \cup Sort(t, "added"), updates' = NoUpdates,
         cache' = [d \in Docs |-> IF updates[d] # 0 /\ (t.changes[d] \in {"added", "modified"} \/ updates[d] >= cache[d])
                                  THEN updates[d] ELSE cache[d]],
         \A d \in Docs : Kind(d)' = "none", \A d \in Docs : StateClaim(d) # 0,
         \A d \in Docs : t.changes[d] = "modified" => d \in keys
  PROVE  /\ \A d \in Docs : d \in keys' <=> Held(d)
         /\ \A d \in Docs : d \in keys' => cache'[d] = Known(d)
         /\ \A d \in Docs : StateClaim(d)' = StateClaim(d)
<1>1. \A d \in Docs : updates'[d] = 0
  BY DEF NoUpdates
<1>2. ASSUME NEW d \in Docs PROVE (d \in keys' <=> Held(d)) /\ (d \in keys' => cache'[d] = Known(d))
  <2>1. d \in keys' <=> Held(d)
    BY DEF Held, Renewed, Sort, Kinds
  <2>2. ASSUME Held(d) PROVE cache'[d] = Known(d)
    <3>1. CASE Renewed(d)
      <4>1. updates[d] # 0
        BY <3>1, <2>2 DEF StateClaim, Known
      <4> QED
        BY <4>1, <3>1 DEF Known, Renewed
    <3>2. CASE ~Renewed(d)
      BY <3>2 DEF Known, Renewed
    <3> QED
      BY <3>1, <3>2
  <2> QED
    BY <2>1, <2>2
<1>3. \A d \in Docs : Held(d)' <=> d \in keys'
  BY DEF Held, Renewed
<1>4. \A d \in Docs : Known(d)' = cache'[d]
  BY <1>1 DEF Known, Renewed
<1> QED
  BY <1>2, <1>3, <1>4 DEF StateClaim, Dead

(* A query that is followed after a snapshot was followed before it.       *)
LEMMA RaiseFollows ==
  ASSUME TypeOK, NEW t, NEW included, NEW mismatch, Raised(t, included, mismatch), Following'
  PROVE  /\ Following /\ ~mismatch /\ Moved /\ toClient[1].type = "snapshot"
         /\ 1 \in 1..Len(toClient) /\ listening' = listening /\ toServer' = toServer
<1>1. listening /\ connected /\ ~crossed /\ repair' # "lost" /\ toServer' = <<>>
  BY DEF Following, Raised
<1>2. ~mismatch
  <2>1. ASSUME mismatch PROVE FALSE
    <3>1. toServer' = toServer \o <<Unwatch, Watch(NoToken)>>
      BY <2>1 DEF Raised
    <3>2. toServer \in Seq(Requests)
      BY DEF TypeOK, StreamTypes
    <3>3. <<Unwatch, Watch(NoToken)>> \in Seq(Requests) /\ Len(<<Unwatch, Watch(NoToken)>>) = 2
      BY DEF Requests, Unwatch, Watch, Token
    <3>4. Len(toServer \o <<Unwatch, Watch(NoToken)>>) = Len(toServer) + 2 /\ Len(toServer) \in Nat
      BY <3>2, <3>3
    <3>5. Len(<<>>) = 0
      BY NoMessages
    <3> QED
      BY <3>1, <3>4, <3>5, <1>1
  <2> QED
    BY <2>1
<1>3. toServer = <<>> /\ repair # "lost" /\ ~resets
  BY <1>1, <1>2 DEF Raised
<1> QED
  BY <1>1, <1>2, <1>3 DEF Following, Raised, Moved, Shifts

(* A snapshot keeps every point fitting.                                   *)
LEMMA RaiseMoves ==
  ASSUME TypeOK, ClientOK, RaiseSnapshot, Following', QueueFits
  PROVE  QueueFits'
<1>0. Base
  BY DEF ClientOK
<1>1. PICK t, included, mismatch : /\ Seen(t) /\ Raised(t, included, mismatch)
                                   /\ RaisedTarget(t, included, mismatch) /\ RaisedDevice(t, included)
  BY <1>0, RaiseParts
<1>2. /\ Following /\ ~mismatch /\ Moved /\ toClient[1].type = "snapshot"
      /\ 1 \in 1..Len(toClient) /\ listening' = listening
  BY <1>1, RaiseFollows
<1>3. /\ target.exists /\ target \in TargetState /\ target.outstanding \in Nat
      /\ (Active <=> Answered(1)) /\ (Marked => Answered(1))
      /\ \A d \in Docs : Kind(d) = IF Active THEN target.changes[d] ELSE "none"
      /\ listening
  BY <1>2, ActiveIsAnswered
<1>4. /\ target'.outstanding = target.outstanding /\ target'.exists
      /\ (target'.current <=> t.current) /\ target'.token = t.token
      /\ included => \A d \in Docs : target'.changes[d] = "none"
      /\ ~included => target'.changes = t.changes
  BY <1>1, <1>2, <1>3 DEF RaisedTarget
<1>5. /\ t.exists /\ (t.current <=> target.current) /\ t.changes = target.changes
      /\ target.pending => t.pending
      /\ t.token = IF Active /\ toClient[1].token # NoToken THEN toClient[1].token ELSE target.token
  BY <1>1, <1>3 DEF Seen
<1>6. Active' <=> Active
  BY <1>2, <1>4 DEF Active
<1>7. updates' = NoUpdates /\ (included <=> Active /\ t.pending)
  BY <1>1, <1>5 DEF Raised
<1>8. \A d \in Docs : StateClaim(d)' = StateClaim(d)
  <2>1. CASE included
    <3>1. /\ keys' = (keys \ Sort(t, "removed")) \cup Sort(t, "added")
          /\ cache' = [d \in Docs |-> IF updates[d] # 0 /\ (t.changes[d] \in {"added", "modified"} \/ updates[d] >= cache[d])
                                      THEN updates[d] ELSE cache[d]]
      BY <1>1, <2>1 DEF RaisedDevice
    <3>2. t.changes \in [Docs -> Kinds]
      BY <1>3, <1>5 DEF TargetState
    <3>3. \A d \in Docs : Kind(d) = t.changes[d] /\ Kind(d)' = "none"
      BY <2>1, <1>3, <1>4, <1>5, <1>7 DEF Kind
    <3>4. PICK v : v = toClient[1].version
      OBVIOUS
    <3>5. v \in Nat /\ \A d \in Docs : StateClaim(d) = Truth(d, v)
      BY <2>1, <3>4, <1>2, <1>3, <1>7, SnapshotIsPoint DEF Moved
    <3>6. \A d \in Docs : StateClaim(d) # 0
      BY <3>5, TruthParts DEF Dead, TypeOK, ServerTypes
    <3>7. \A d \in Docs : t.changes[d] = "modified" => d \in keys
      BY <2>1, <1>2, <1>3, <1>5, <1>7 DEF ClientOK, Recorded, Following
    <3> QED
      BY <3>1, <3>2, <3>3, <3>6, <3>7, <1>7, ApplyTurn
  <2>2. CASE ~included
    <3>1. /\ keys' = keys
          /\ cache' = [d \in Docs |-> IF updates[d] # 0 /\ updates[d] >= cache[d] THEN updates[d] ELSE cache[d]]
      BY <1>1, <2>2 DEF RaisedDevice
    <3>2. \A d \in Docs : Kind(d) = "none"
      <4>1. ASSUME Active PROVE \A d \in Docs : target.changes[d] = "none"
        <5>1. ~target.pending
          BY <4>1, <2>2, <1>5, <1>7
        <5> QED
          BY <4>1, <5>1, <1>2, <1>3 DEF ClientOK, Recorded, Following
      <4> QED
        BY <4>1, <1>3
    <3>3. \A d \in Docs : Kind(d)' = "none"
      BY <3>2, <2>2, <1>3, <1>4, <1>5, <1>6 DEF Kind
    <3> QED
      BY <3>1, <3>2, <3>3, <1>7, SkipTurn
  <2> QED
    BY <2>1, <2>2
<1>9. Turned
  BY <1>8, <1>2 DEF Turned, Speaks
<1>10. MarkedKept
  <2>1. ASSUME Marked PROVE Marked'
    BY <2>1, <1>4, <1>5, <1>6 DEF Marked
  <2> QED
    BY <2>1, <1>2, <1>3 DEF MarkedKept
<1> QED
  BY <1>2, <1>9, <1>10, PointsMove

-----------------------------------------------------------------------------
(* A filter that counts as many documents as the device will hold, when    *)
(* all that live are among those, leaves nothing that is dead.             *)
HeldDocs == {d \in Docs : Held(d)}

(* The number the filter is compared with.                                 *)
LEMMA HeldCount ==
  ASSUME TypeOK, target \in TargetState, target.exists, Active, Recorded, ~crossed
  PROVE  /\ IsFiniteSet(HeldDocs)
         /\ CurrentCount(target) = Cardinality(HeldDocs)
<1>1. PICK A : A = Sort(target, "added")
  OBVIOUS
<1>2. PICK R : R = Sort(target, "removed")
  OBVIOUS
<1>3. /\ \A d \in Docs : Kind(d) = target.changes[d] /\ target.changes[d] \in Kinds
      /\ \A d \in Docs : /\ target.changes[d] = "added" => d \notin keys
                         /\ target.changes[d] \in {"modified", "removed"} => d \in keys
  BY DEF Kind, Recorded, TargetState
<1>4. keys \subseteq Docs /\ A \subseteq Docs /\ R \subseteq keys /\ keys \cap A = {}
  BY <1>1, <1>2, <1>3 DEF Sort, TypeOK, DeviceTypes
<1>5. IsFiniteSet(keys) /\ IsFiniteSet(A) /\ IsFiniteSet(R)
  BY <1>4, BoundsOK, FS_Subset
<1>6. PICK U : U = keys \cup A
  OBVIOUS
<1>7. Cardinality(keys) \in Nat /\ Cardinality(A) \in Nat /\ Cardinality(R) \in Nat
  BY <1>5, FS_CardinalityType
<1>8. IsFiniteSet(U) /\ Cardinality(U) = Cardinality(keys) + Cardinality(A)
  <2>1. Cardinality(keys \cap A) = 0
    BY <1>4, FS_EmptySet
  <2>2. /\ IsFiniteSet(keys \cup A)
        /\ Cardinality(keys \cup A) = Cardinality(keys) + Cardinality(A) - Cardinality(keys \cap A)
    BY <1>5, FS_Union
  <2>3. Cardinality(keys \cup A) = Cardinality(keys) + Cardinality(A)
    BY <2>1, <2>2, <1>7
  <2> QED
    BY <2>2, <2>3, <1>6
<1>9. IsFiniteSet(U \ R) /\ Cardinality(U \ R) = Cardinality(U) - Cardinality(R)
  <2>1. U \cap R = R
    BY <1>4, <1>6
  <2>2. /\ IsFiniteSet(U \ R)
        /\ Cardinality(U \ R) = Cardinality(U) - Cardinality(U \cap R)
    BY <1>8, FS_Difference
  <2> QED
    BY <2>1, <2>2
<1>10. HeldDocs = U \ R
  <2>1. ASSUME NEW d \in Docs PROVE Held(d) <=> d \in U \ R
    BY <1>1, <1>2, <1>3, <1>6 DEF Held, Renewed, Sort, Kinds
  <2> QED
    BY <2>1, <1>4, <1>6 DEF HeldDocs
<1>11. CurrentCount(target) = Cardinality(keys) + Cardinality(A) - Cardinality(R)
  BY <1>1, <1>2 DEF CurrentCount
<1> QED
  BY <1>7, <1>8, <1>9, <1>10, <1>11

(* When the numbers agree, the device is right at the version of the       *)
(* snapshot.                                                               *)
LEMMA FilterIsExact ==
  ASSUME TypeOK, ClientOK, QueueOK, Following, QueueFits, Shifts, Active,
         toClient[1].type = "filter", CurrentCount(target) = toClient[1].count
  PROVE  /\ 2 \in 1..Len(toClient) /\ toClient[2].type = "snapshot" /\ Answered(2)
         /\ \A d \in Docs : StateClaim(d) = Truth(d, toClient[2].version)
<1>1. 1 \in 1..Len(toClient) /\ Len(toClient) \in Nat
  BY DEF Shifts
<1>2. /\ 1 + 1 \in 1..Len(toClient) /\ toClient[1 + 1].type = "snapshot"
      /\ toClient[1].count = Cardinality(Live(toClient[1 + 1].version))
  BY <1>1 DEF QueueOK, FiltersCount
<1>3. 2 \in 1..Len(toClient) /\ toClient[2].type = "snapshot" /\ 2 \in 1..(Len(toClient) + 1)
  BY <1>1, <1>2
<1>4. PICK v : v = toClient[2].version
  OBVIOUS
<1>5. v \in Nat
  BY <1>3, <1>4, PlaceTypes
<1>6. /\ target.exists /\ target \in TargetState /\ Answered(1) /\ ~crossed
  BY ActiveIsAnswered DEF Following
<1>7. Answered(2)
  BY <1>6 DEF Answered
<1>8. StateFits(2) /\ At(2) = v
  BY <1>3, <1>4, <1>7 DEF QueueFits, PointFits, Point, At
<1>9. \A d \in Docs : Silent(d, 1, 2)
  <2>1. ASSUME NEW d \in Docs, NEW k \in 1..Len(toClient), 1 <= k, k < 2 PROVE ~Speaks(k, d)
    <3>1. k = 1
      BY <2>1, <1>1
    <3> QED
      BY <3>1 DEF Speaks
  <2> QED
    BY <2>1 DEF Silent
<1>10. \A d \in Docs : StateClaim(d) = Truth(d, v) \/ Truth(d, v) = Dead
  BY <1>8, <1>9 DEF StateFits
<1>11. Log
  BY DEF TypeOK, ServerTypes
<1>12. Live(v) \subseteq HeldDocs
  <2>1. ASSUME NEW d \in Docs, Lives(d, v) PROVE Held(d)
    <3>1. Truth(d, v) # Dead
      BY <2>1, <1>5, <1>11, TruthParts
    <3> QED
      BY <3>1, <1>10 DEF StateClaim
  <2> QED
    BY <2>1 DEF Live, HeldDocs
<1>13. IsFiniteSet(HeldDocs) /\ Cardinality(HeldDocs) = Cardinality(Live(v))
  <2>1. IsFiniteSet(HeldDocs) /\ CurrentCount(target) = Cardinality(HeldDocs)
    BY <1>6, HeldCount DEF ClientOK
  <2>2. toClient[1].count = Cardinality(Live(v))
    BY <1>2, <1>4
  <2> QED
    BY <2>1, <2>2
<1>14. HeldDocs = Live(v)
  BY <1>12, <1>13, FS_Subset
<1>15. ASSUME NEW d \in Docs PROVE StateClaim(d) = Truth(d, v)
  <2>1. CASE Lives(d, v)
    BY <2>1, <1>5, <1>10, <1>11, TruthParts
  <2>2. CASE ~Lives(d, v)
    <3>1. ~Held(d)
      BY <2>2, <1>14 DEF HeldDocs, Live
    <3> QED
      BY <3>1, <2>2, <1>5, <1>11, TruthParts DEF StateClaim
  <2> QED
    BY <2>1, <2>2
<1> QED
  BY <1>3, <1>4, <1>7, <1>15

(* Between the filter and its snapshot the device says what the snapshot   *)
(* will.                                                                   *)
LEMMA ExactMoves ==
  ASSUME TypeOK, Moved, 2 \in 1..Len(toClient), toClient[2].type = "snapshot", Answered(2),
         \A d \in Docs : StateClaim(d)' = Truth(d, toClient[2].version),
         NEW i \in 1..(Len(toClient') + 1), NEW p, p = i + 1, PointFits(p)
  PROVE  StateFits(i)'
<1>0. i \in Nat /\ p \in Nat /\ p >= 2
  BY DEF Moved, Shifts
<1>1. /\ \A d : Silent(d, 1, i)' <=> Silent(d, 2, p)
      /\ Filtered(1, i)' <=> Filtered(2, p)
  BY <1>0, FirstShifts
<1>2. \A d : Truth(d, At(i))' = Truth(d, At(p))
  BY PointShifts
<1>3. ASSUME NEW d \in Docs, Silent(d, 1, i)'
      PROVE  \/ StateClaim(d)' = Truth(d, At(i))'
             \/ Truth(d, At(i))' = Dead /\ Filtered(1, i)'
  <2>1. CASE p = 2
    <3>1. At(p) = toClient[2].version
      BY <2>1 DEF At
    <3>2. Truth(d, At(i))' = Truth(d, toClient[2].version)
      BY <3>1, <1>2
    <3> QED
      BY <3>2
  <2>2. CASE p # 2
    <3>1. 2 < p
      BY <2>2, <1>0
    <3>2. PlaceFits(2, p)
      BY <3>1 DEF PointFits
    <3>3. PICK m : m = 2 + 1
      OBVIOUS
    <3>4. Silent(d, m, p)
      <4>1. ASSUME NEW k \in 1..Len(toClient), m <= k, k < p, Answered(k) PROVE ~Speaks(k, d)
        <5>1. 2 <= k
          BY <4>1, <3>3
        <5> QED
          BY <5>1, <4>1, <1>1, <1>3 DEF Silent
      <4> QED
        BY <4>1 DEF Silent
    <3>5. Claim(2, d) = Truth(d, At(p)) \/ (Truth(d, At(p)) = Dead /\ Filtered(m, p))
      BY <3>2, <3>3, <3>4 DEF PlaceFits
    <3>6. Filtered(m, p) => Filtered(2, p)
      <4>1. ASSUME NEW k \in 1..Len(toClient), m <= k PROVE 2 <= k
        BY <4>1, <3>3
      <4> QED
        BY <4>1 DEF Filtered
    <3>7. Claim(2, d) = Truth(d, toClient[2].version)
      BY DEF Claim
    <3> QED
      BY <3>5, <3>6, <3>7, <1>1, <1>2
  <2> QED
    BY <2>1, <2>2
<1> QED
  BY <1>3 DEF StateFits, Dead

(* A filter keeps every point fitting, or starts a repair.                 *)
LEMMA FilterMoves ==
  ASSUME TypeOK, QueueOK, ClientOK, HandleExistenceFilter, Following', QueueFits
  PROVE  QueueFits'
<1>0. Base
  BY DEF ClientOK
<1>1. /\ Collected("filter") /\ updates' = updates
      /\ ~Active => target' = target /\ resets' = resets
      /\ Active => \/ /\ CurrentCount(Ensured) = toClient[1].count
                      /\ target' = Ensured /\ resets' = resets
                   \/ target' = ResetTarget /\ resets'
  BY <1>0, FilterParts
<1>2. ~resets'
  BY DEF Following
<1>3. resets' = resets
  BY <1>1, <1>2
<1>4. /\ Following /\ Moved /\ Shifts /\ toClient[1].type = "filter"
      /\ keys' = keys /\ cache' = cache /\ listening' = listening /\ 1 \in 1..Len(toClient)
  BY <1>1, <1>3, CollectedMoves DEF Moved
<1>5. /\ target.exists /\ target \in TargetState /\ (Active <=> Answered(1)) /\ (Marked => Answered(1))
      /\ \A d \in Docs : Kind(d) = IF Active THEN target.changes[d] ELSE "none"
      /\ listening
  BY <1>4, ActiveIsAnswered
<1>6. CASE ~Active
  <2>1. target' = target
    BY <1>1, <1>6
  <2>2. \A d \in Docs : Kind(d)' = Kind(d)
    BY <2>1, <1>4 DEF Kind, Active
  <2>3. Turned
    BY <2>2, <1>1, <1>4, <1>5, <1>6, QuietTurn
  <2>4. MarkedKept
    BY <1>4, <1>5, <1>6 DEF MarkedKept
  <2> QED
    BY <2>3, <2>4, <1>4, <1>5, <1>6, PointsMove
<1>7. CASE Active
  <2>1. Ensured = target
    BY <1>5 DEF Ensured
  <2>2. target' = target /\ CurrentCount(target) = toClient[1].count
    BY <2>1, <1>1, <1>2, <1>7
  <2>3. \A d \in Docs : Kind(d)' = Kind(d)
    BY <2>2, <1>4 DEF Kind, Active
  <2>4. \A d \in Docs : StateClaim(d)' = StateClaim(d)
    BY <2>3, <1>1, <1>4, SameClaims
  <2>5. Marked' <=> Marked
    BY <2>2, <1>4 DEF Marked, Active
  <2>6. MarkedKept
    BY <2>5, <1>4, <1>5 DEF MarkedKept
  <2>7. /\ 2 \in 1..Len(toClient) /\ toClient[2].type = "snapshot" /\ Answered(2)
        /\ \A d \in Docs : StateClaim(d) = Truth(d, toClient[2].version)
    BY <2>2, <1>4, <1>7, FilterIsExact
  <2>8. ASSUME NEW i \in 1..(Len(toClient') + 1), Point(i)' PROVE PointFits(i)'
    <3>1. PICK p : p = i + 1
      OBVIOUS
    <3>2. Point(p) /\ p \in 1..(Len(toClient) + 1)
      BY <3>1, <2>8, <1>4, PointShifts
    <3>3. PointFits(p)
      BY <3>2, <1>4 DEF QueueFits
    <3>4. StateFits(i)'
      BY <3>1, <3>3, <2>4, <2>7, <1>4, ExactMoves
    <3> QED
      BY <3>1, <3>3, <3>4, <2>6, <1>4, PointMoves
  <2> QED
    BY <2>8 DEF QueueFits
<1> QED
  BY <1>6, <1>7

-----------------------------------------------------------------------------
(* New messages that are no answers leave what was said as it was.         *)
Extends(n, l) ==
  /\ n \in Nat /\ l \in Nat /\ n <= l /\ n = Len(toClient) /\ l = Len(toClient')
  /\ \A k \in 1..n : toClient'[k] = toClient[k]
  /\ \A k \in (n + 1)..l : toClient'[k].type \notin Answers

(* Places before the new messages stay what they were.                     *)
LEMMA AnsweredKept ==
  ASSUME NEW n, NEW l, Extends(n, l), NEW k \in Nat
  PROVE  /\ k <= n + 1 => (Answered(k)' <=> Answered(k))
         /\ k > n => Answered(k)'
<1>1. ASSUME Answered(k), NEW j \in 1..l, j >= k PROVE toClient'[j].type \notin Answers
  <2>1. CASE j \in 1..n
    BY <2>1, <1>1 DEF Answered, Extends
  <2>2. CASE j \notin 1..n
    BY <2>2 DEF Extends
  <2> QED
    BY <2>1, <2>2
<1>2. ASSUME Answered(k)', NEW j \in 1..n, j >= k PROVE toClient[j].type \notin Answers
  BY <1>2 DEF Answered, Extends
<1>3. ASSUME k > n, NEW j \in 1..l, j >= k PROVE toClient'[j].type \notin Answers
  BY <1>3 DEF Extends
<1> QED
  BY <1>1, <1>2, <1>3 DEF Answered, Extends

LEMMA PlaceKept ==
  ASSUME NEW n, NEW l, Extends(n, l), NEW k \in 1..n
  PROVE  /\ k \in 1..l /\ k \in 1..Len(toClient) /\ k \in 1..Len(toClient') /\ k \in Nat
         /\ toClient'[k] = toClient[k]
         /\ Answered(k)' <=> Answered(k)
         /\ \A d : Speaks(k, d)' <=> Speaks(k, d)
<1>1. k \in 1..l /\ k \in 1..Len(toClient) /\ k \in 1..Len(toClient') /\ k \in Nat /\ k <= n + 1
      /\ toClient'[k] = toClient[k]
  BY DEF Extends
<1>2. Answered(k)' <=> Answered(k)
  BY <1>1, AnsweredKept
<1> QED
  BY <1>1, <1>2 DEF Speaks

(* So do the spans that end before them.                                   *)
LEMMA SpansKept ==
  ASSUME NEW n, NEW l, Extends(n, l), NEW a, NEW c \in Nat
  PROVE  /\ c <= n + 1 => /\ \A d : Silent(d, a, c)' <=> Silent(d, a, c)
                          /\ Filtered(a, c)' <=> Filtered(a, c)
                          /\ NoReset(a, c)' <=> NoReset(a, c)
         /\ c > n => /\ \A d : Silent(d, a, c)' => Silent(d, a, n + 1)
                     /\ Filtered(a, n + 1) => Filtered(a, c)'
<1>0. n \in Nat /\ l \in Nat /\ n <= l /\ n = Len(toClient) /\ l = Len(toClient')
  BY DEF Extends
<1>1. ASSUME c <= n + 1 PROVE /\ \A d : Silent(d, a, c)' <=> Silent(d, a, c)
                              /\ Filtered(a, c)' <=> Filtered(a, c)
                              /\ NoReset(a, c)' <=> NoReset(a, c)
  <2>1. \A k \in 1..l : k < c => k \in 1..n
    BY <1>0, <1>1
  <2>2. \A k \in 1..n : k \in 1..l
    BY <1>0
  <2>3. \A d : Silent(d, a, c)' <=> Silent(d, a, c)
    BY <1>0, <2>1, <2>2, PlaceKept DEF Silent
  <2>4. Filtered(a, c)' <=> Filtered(a, c)
    BY <1>0, <2>1, <2>2, PlaceKept DEF Filtered
  <2>5. NoReset(a, c)' <=> NoReset(a, c)
    BY <1>0, <2>1, <2>2, PlaceKept DEF NoReset
  <2> QED
    BY <2>3, <2>4, <2>5
<1>2. ASSUME c > n PROVE /\ \A d : Silent(d, a, c)' => Silent(d, a, n + 1)
                         /\ Filtered(a, n + 1) => Filtered(a, c)'
  <2>1. \A k \in 1..n : k < c /\ k < n + 1 /\ k \in 1..l
    BY <1>0, <1>2
  <2>2. \A d : Silent(d, a, c)' => Silent(d, a, n + 1)
    BY <1>0, <2>1, PlaceKept DEF Silent
  <2>3. Filtered(a, n + 1) => Filtered(a, c)'
    BY <1>0, <2>1, PlaceKept DEF Filtered
  <2> QED
    BY <2>2, <2>3
<1> QED
  BY <1>1, <1>2

LEMMA ResetsKept ==
  ASSUME NEW n, NEW l, Extends(n, l), NEW a, NEW c \in Nat, NoReset(a, n + 1),
         \A k \in (n + 1)..l : toClient'[k].type # "reset"
  PROVE  NoReset(a, c)'
<1>0. n \in Nat /\ l \in Nat /\ n <= l /\ n = Len(toClient) /\ l = Len(toClient')
  BY DEF Extends
<1>1. ASSUME NEW k \in 1..l, a <= k, Answered(k)' PROVE toClient'[k].type # "reset"
  <2>1. CASE k \in 1..n
    <3>1. k < n + 1
      BY <2>1, <1>0
    <3> QED
      BY <3>1, <2>1, <1>0, <1>1, PlaceKept DEF NoReset
  <2>2. CASE k \notin 1..n
    BY <2>2, <1>0
  <2> QED
    BY <2>1, <2>2
<1> QED
  BY <1>0, <1>1 DEF NoReset

(* The claims of the device and of the old messages.                       *)
LEMMA DeviceClaimsKept ==
  ASSUME ClientKept
  PROVE  /\ \A d : StateClaim(d)' = StateClaim(d)
         /\ Marked' <=> Marked
BY DEF ClientKept, deviceVars, historyVars, StateClaim, Held, Known, Renewed, Kind, Active, Marked, Dead

(* The versions of points are versions of the collection.                  *)
LEMMA VersionsOfPoints ==
  ASSUME TypeOK, QueueOK, NEW i
  PROVE  /\ watched.sent \in 0..Version
         /\ i \in 1..Len(toClient) /\ toClient[i].type = "snapshot" => toClient[i].version \in 0..Version
         /\ Point(i) => At(i) \in 0..Version
<1>1. Version \in Nat /\ watched.sent \in Nat
  BY MessageTypes DEF TypeOK, ServerTypes
<1>2. watched.sent \in 0..Version
  BY <1>1 DEF QueueOK, VersionsBound
<1>3. i \in 1..Len(toClient) /\ toClient[i].type = "snapshot" => toClient[i].version \in 0..Version
  BY <1>1, PlaceTypes DEF QueueOK, VersionsBound
<1> QED
  BY <1>2, <1>3 DEF Point, At

(* Messages claim what they claimed.                                       *)
LEMMA OldClaims ==
  ASSUME TypeOK, QueueOK, HistoryKept, NEW n, NEW l, Extends(n, l), NEW k \in 1..n
  PROVE  \A d : Claim(k, d)' = Claim(k, d)
<1> SUFFICES ASSUME NEW d PROVE Claim(k, d)' = Claim(k, d)
  OBVIOUS
<1>1. toClient'[k] = toClient[k] /\ k \in 1..Len(toClient)
  BY PlaceKept
<1>2. PICK v : v = toClient[k].version
  OBVIOUS
<1>3. Truth(d, toClient[k].version)' = Truth(d, v)'
  BY <1>1, <1>2 DEF Truth, Lives, LastWrite
<1>4. toClient[k].type = "snapshot" => v \in 0..Version
  BY <1>1, <1>2, VersionsOfPoints
<1>5. toClient[k].type = "snapshot" => Truth(d, v)' = Truth(d, v)
  BY <1>4, TruthStays
<1> QED
  BY <1>1, <1>2, <1>3, <1>5 DEF Claim, Dead

(* The points there were fit as before.                                    *)
LEMMA OldPointFits ==
  ASSUME TypeOK, QueueOK, HistoryKept, ClientKept, NEW n, NEW l, Extends(n, l),
         NEW i \in 1..(n + 1), Point(i), PointFits(i), At(i)' = At(i)
  PROVE  PointFits(i)'
<1>0. n \in Nat /\ l \in Nat /\ n <= l /\ n = Len(toClient) /\ l = Len(toClient') /\ i \in Nat /\ i <= n + 1
  BY DEF Extends
<1>1. \A d : Truth(d, At(i))' = Truth(d, At(i))
  <2> SUFFICES ASSUME NEW d PROVE Truth(d, At(i))' = Truth(d, At(i))
    OBVIOUS
  <2>1. PICK v : v = At(i)
    OBVIOUS
  <2>2. v \in 0..Version
    BY <2>1, VersionsOfPoints
  <2>3. Truth(d, At(i))' = Truth(d, v)'
    BY <2>1 DEF Truth, Lives, LastWrite
  <2> QED
    BY <2>1, <2>2, <2>3, TruthStays
<1>2. \A a : /\ \A d : Silent(d, a, i)' <=> Silent(d, a, i)
             /\ Filtered(a, i)' <=> Filtered(a, i)
             /\ NoReset(a, i)' <=> NoReset(a, i)
  BY <1>0, SpansKept
<1>3. \A k \in 1..l : k < i => k \in 1..n
  BY <1>0
<1>4. (\A d : StateClaim(d)' = StateClaim(d)) /\ (Marked' <=> Marked)
  BY DeviceClaimsKept
<1>5. StateFits(i)'
  BY <1>1, <1>2, <1>4 DEF StateFits, PointFits, Dead
<1>6. GetsCurrent(i)'
  <2>1. CASE Marked /\ NoReset(1, i)
    BY <2>1, <1>2, <1>4 DEF GetsCurrent, Marked
  <2>2. ASSUME NEW k \in 1..n, k < i, Answered(k), toClient[k].type = "current", NoReset(k + 1, i)
        PROVE  GetsCurrent(i)'
    BY <2>2, <1>0, <1>2, PlaceKept DEF GetsCurrent
  <2> QED
    BY <2>1, <2>2, <1>0 DEF PointFits, GetsCurrent, Marked
<1>7. ASSUME NEW k \in 1..l, k < i, Answered(k)' PROVE PlaceFits(k, i)'
  <2>1. k \in 1..n
    BY <1>3, <1>7
  <2>2. /\ toClient'[k] = toClient[k] /\ Answered(k)
        /\ \A d : Speaks(k, d)' <=> Speaks(k, d)
    BY <2>1, <1>7, PlaceKept
  <2>3. PlaceFits(k, i)
    BY <2>1, <2>2, <1>0, <1>7 DEF PointFits
  <2>4. \A d : Claim(k, d)' = Claim(k, d)
    BY <2>1, OldClaims
  <2> QED
    BY <2>2, <2>3, <2>4, <1>1, <1>2 DEF PlaceFits, Dead
<1> QED
  BY <1>0, <1>5, <1>6, <1>7 DEF PointFits

LEMMA OldPoints ==
  ASSUME TypeOK, QueueOK, HistoryKept, ClientKept, NEW n, NEW l, Extends(n, l), Following, QueueFits
  PROVE  \A i \in 1..n : Point(i)' => PointFits(i)'
<1> SUFFICES ASSUME NEW i \in 1..n, Point(i)' PROVE PointFits(i)'
  OBVIOUS
<1>1. /\ i \in 1..Len(toClient) /\ i \in 1..Len(toClient') /\ toClient'[i] = toClient[i]
      /\ Answered(i)' <=> Answered(i)
  BY PlaceKept
<1>2. i \in 1..(n + 1) /\ i \in 1..(Len(toClient) + 1)
  BY DEF Extends
<1>3. Point(i) /\ At(i)' = At(i)
  BY <1>1, <1>2 DEF Point, At
<1>4. PointFits(i)
  BY <1>2, <1>3 DEF QueueFits
<1> QED
  BY <1>2, <1>3, <1>4, OldPointFits

(* Nothing new is told: a write, an offline query, or a step of others.    *)
LEMMA NothingTold ==
  ASSUME TypeOK, QueueOK, HistoryKept, ClientKept, toClient' = toClient, watched' = watched, Following, QueueFits
  PROVE  QueueFits'
<1>1. PICK n : n = Len(toClient)
  OBVIOUS
<1>2. n \in Nat
  BY <1>1 DEF TypeOK, StreamTypes
<1>3. Extends(n, n)
  BY <1>1, <1>2 DEF Extends
<1>4. ASSUME Point(n + 1)' PROVE PointFits(n + 1)'
  <2>1. n + 1 \in 1..(n + 1) /\ n + 1 \in 1..(Len(toClient) + 1) /\ n + 1 \notin 1..Len(toClient)
    BY <1>1, <1>2
  <2>2. PICK e : e = n + 1
    OBVIOUS
  <2>3. Point(e) /\ At(e)' = At(e)
    BY <2>1, <2>2, <1>4 DEF Point, At, Answered
  <2>4. PointFits(e)
    BY <2>1, <2>2, <2>3 DEF QueueFits
  <2>5. PointFits(e)'
    BY <2>1, <2>2, <2>3, <2>4, <1>3, OldPointFits
  <2> QED
    BY <2>2, <2>5
<1>5. \A i \in 1..(Len(toClient') + 1) : i \in 1..n \/ i = n + 1
  BY <1>1, <1>2
<1> QED
  BY <1>3, <1>4, <1>5, OldPoints DEF QueueFits

-----------------------------------------------------------------------------
(* A batch of new messages: of what kind it begins, the documents of S, a  *)
(* mark, a filter, and a snapshot of now.                                  *)
Batch(n, l, kind, S, marked, exact) ==
  /\ n \in Nat /\ l \in Nat /\ n < l /\ n = Len(toClient) /\ l = Len(toClient')
  /\ kind \in {"none", "added", "reset"}
  /\ \A k \in 1..n : toClient'[k] = toClient[k]
  /\ toClient'[l].type = "snapshot"
  /\ \A k \in (n + 1)..l :
       /\ toClient'[k].type \in {"added", "reset"} => k = n + 1 /\ toClient'[k].type = kind
       /\ toClient'[k].type \in {"added", "reset", "doc", "gone", "current", "filter", "snapshot"}
       /\ toClient'[k].type = "snapshot" => k = l /\ toClient'[k].version = Version
       /\ toClient'[k].type \in {"doc", "gone"} =>
            /\ toClient'[k].doc \in S /\ toClient'[k].version = LastWrite(toClient'[k].doc, Version)
            /\ toClient'[k].type = "doc" <=> Lives(toClient'[k].doc, Version)
  /\ kind # "none" => n + 1 < l /\ toClient'[n + 1].type = kind
  /\ \A d \in S : \E k \in (n + 1)..l : k < l /\ toClient'[k].type \in {"doc", "gone"} /\ toClient'[k].doc = d
  /\ marked => \E k \in (n + 1)..l : k < l /\ toClient'[k].type = "current"
  /\ ~exact => \E k \in (n + 1)..l : k < l /\ toClient'[k].type = "filter"

(* An update that is told is a batch.                                      *)
LEMMA TellIsBatch ==
  ASSUME Log, NEW kind \in {"none", "added", "reset"}, NEW first,
         kind = "none" => first = <<>>, kind = "added" => first = Added, kind = "reset" => first = Reset,
         NEW S \in SUBSET Docs, NEW marks, NEW marked, marked => marks = Current, ~marked => marks = <<>>,
         NEW exact, NEW token, Tells(first, S, marks, exact, token)
  PROVE  \E n, l \in Nat : Batch(n, l, kind, S, marked, exact)
<1>1. first \in {<<>>, Added, Reset} /\ marks \in {<<>>, Current}
  OBVIOUS
<1>2. PICK n, l \in Nat : ToldTypes(n, l, first, S, exact, token)
  BY <1>1, ToldPieces
<1>3. n < l /\ n = Len(toClient) /\ l = Len(toClient') /\ toClient'[l].type = "snapshot" /\ l \in (n + 1)..l
  BY <1>2 DEF ToldTypes
<1>4. /\ first = <<>> <=> kind = "none"
      /\ first # <<>> => first[1].type = kind
  BY PieceTypes
<1>5. \A k \in (n + 1)..l :
       /\ toClient'[k].type \in {"added", "reset"} => k = n + 1 /\ toClient'[k].type = kind
       /\ toClient'[k].type \in {"added", "reset", "doc", "gone", "current", "filter", "snapshot"}
       /\ toClient'[k].type = "snapshot" => k = l /\ toClient'[k].version = Version
       /\ toClient'[k].type \in {"doc", "gone"} =>
            /\ toClient'[k].doc \in S /\ toClient'[k].version = LastWrite(toClient'[k].doc, Version)
            /\ toClient'[k].type = "doc" <=> Lives(toClient'[k].doc, Version)
  BY <1>2, <1>4 DEF ToldTypes
<1>6. \A k \in (n + 1)..l : toClient'[k].type # "snapshot" => k < l
  <2> SUFFICES ASSUME NEW k \in (n + 1)..l, k # l PROVE k < l
    BY <1>3
  <2> QED
    OBVIOUS
<1>7. /\ \A k \in 1..n : toClient'[k] = toClient[k]
      /\ first # <<>> => n + 2 <= l /\ toClient'[n + 1] = first[1]
      /\ \A d \in S : \E k \in (n + 1)..l : toClient'[k] = DocumentChange(d)
      /\ marks # <<>> => \E k \in (n + 1)..l : toClient'[k] = marks[1]
      /\ ~exact => n + 2 <= l /\ toClient'[l - 1] = Filter
  BY <1>3 DEF Tells
<1>8. kind # "none" => n + 1 < l /\ toClient'[n + 1].type = kind
  BY <1>4, <1>7
<1>9. \A d \in S : \E k \in (n + 1)..l : k < l /\ toClient'[k].type \in {"doc", "gone"} /\ toClient'[k].doc = d
  BY <1>6, <1>7, PieceTypes
<1>10. marked => \E k \in (n + 1)..l : k < l /\ toClient'[k].type = "current"
  BY <1>6, <1>7, PieceTypes
<1>11. ~exact => \E k \in (n + 1)..l : k < l /\ toClient'[k].type = "filter"
  <2> SUFFICES ASSUME ~exact PROVE \E k \in (n + 1)..l : k < l /\ toClient'[k].type = "filter"
    OBVIOUS
  <2>1. l - 1 \in (n + 1)..l /\ l - 1 < l /\ toClient'[l - 1] = Filter
    BY <1>7
  <2> QED
    BY <2>1, PieceTypes
<1> QED
  BY <1>2, <1>3, <1>5, <1>7, <1>8, <1>9, <1>10, <1>11 DEF Batch

LEMMA BatchAnswered ==
  ASSUME NEW n, NEW l, NEW kind, NEW S, NEW marked, NEW exact, Batch(n, l, kind, S, marked, exact)
  PROVE  /\ \A k \in (n + 1)..(l + 1) : kind # "added" \/ k > n + 1 => Answered(k)'
         /\ kind # "added" => Extends(n, l)
         /\ kind = "added" => \A k \in 1..(n + 1) : ~Answered(k)'
<1>0. n \in Nat /\ l \in Nat /\ n < l /\ n = Len(toClient) /\ l = Len(toClient')
  BY DEF Batch
<1>1. \A j \in (n + 1)..l : kind # "added" \/ j > n + 1 => toClient'[j].type \notin Answers
  BY DEF Batch, Answers
<1>2. ASSUME NEW k \in (n + 1)..(l + 1), kind # "added" \/ k > n + 1 PROVE Answered(k)'
  <2>1. ASSUME NEW j \in 1..l, j >= k PROVE toClient'[j].type \notin Answers
    <3>1. j \in (n + 1)..l /\ (kind # "added" \/ j > n + 1)
      BY <2>1, <1>0, <1>2
    <3> QED
      BY <3>1, <1>1
  <2> QED
    BY <2>1, <1>0 DEF Answered
<1>3. kind # "added" => Extends(n, l)
  BY <1>0, <1>1 DEF Extends, Batch
<1>4. ASSUME kind = "added", NEW k \in 1..(n + 1) PROVE ~Answered(k)'
  <2>1. n + 1 \in 1..l /\ n + 1 >= k /\ toClient'[n + 1].type \in Answers
    BY <1>0, <1>4 DEF Batch, Answers
  <2> QED
    BY <2>1, <1>0 DEF Answered
<1> QED
  BY <1>2, <1>3, <1>4

(* A batch makes two points: its snapshot and the end.                     *)
LEMMA BatchPoints ==
  ASSUME TypeOK, NEW n, NEW l, NEW kind, NEW S, NEW marked, NEW exact, Batch(n, l, kind, S, marked, exact),
         log' = log, watched'.sent = Version, NEW i
  PROVE  /\ i \in (n + 1)..(l + 1) /\ Point(i)' => i \in {l, l + 1}
         /\ i \in {l, l + 1} => \A d : Truth(d, At(i))' = Truth(d, Version)
<1>0. n \in Nat /\ l \in Nat /\ n < l /\ n = Len(toClient) /\ l = Len(toClient')
  BY DEF Batch
<1>1. ASSUME i \in (n + 1)..(l + 1), Point(i)' PROVE i \in {l, l + 1}
  <2>1. CASE i \in (n + 1)..l
    <3>1. toClient'[i].type = "snapshot"
      BY <2>1, <1>0, <1>1 DEF Point
    <3> QED
      BY <3>1, <2>1 DEF Batch
  <2>2. CASE i \notin (n + 1)..l
    BY <2>2, <1>0, <1>1
  <2> QED
    BY <2>1, <2>2
<1>2. ASSUME i \in {l, l + 1}, NEW d PROVE Truth(d, At(i))' = Truth(d, Version)
  <2>1. PICK v : v = Version
    OBVIOUS
  <2>2. At(i)' = v
    <3>1. CASE i = l
      <4>1. l \in 1..l /\ l \in (n + 1)..l
        BY <1>0
      <4> QED
        BY <4>1, <3>1, <2>1, <1>0 DEF At, Batch
    <3>2. CASE i = l + 1
      <4>1. i \notin 1..l
        BY <3>2, <1>0
      <4> QED
        BY <4>1, <2>1, <1>0 DEF At
    <3> QED
      BY <3>1, <3>2, <1>2
  <2>3. Truth(d, At(i))' = Truth(d, v)'
    BY <2>2 DEF Truth, Lives, LastWrite
  <2>4. Truth(d, v)' = Truth(d, v)
    BY SameTruth
  <2> QED
    BY <2>1, <2>3, <2>4
<1> QED
  BY <1>1, <1>2

(* Up to these points a batch speaks of the documents it names, and        *)
(* filters unless it is exact.                                             *)
LEMMA Unnamed ==
  ASSUME NEW n, NEW l, NEW kind, NEW S, NEW marked, NEW exact, Batch(n, l, kind, S, marked, exact),
         NEW i \in {l, l + 1}, NEW a, a = n + 2 \/ a <= n + 1, a \in Nat
  PROVE  /\ \A d : Silent(d, a, i)' /\ (a <= n + 1 \/ kind # "none") => d \notin S
         /\ \A d : Silent(d, a, i)' /\ a <= n + 1 => kind # "reset"
         /\ ~exact /\ a <= n + 1 => Filtered(a, i)'
<1>0. n \in Nat /\ l \in Nat /\ n < l /\ n = Len(toClient) /\ l = Len(toClient') /\ l <= i
  BY DEF Batch
<1>1. ASSUME NEW k \in (n + 1)..l, k < l, toClient'[k].type \in {"doc", "gone", "filter"}
      PROVE  /\ k \in 1..l /\ k < i /\ Answered(k)'
             /\ a <= n + 1 \/ kind # "none" => a <= k
  <2>1. k \in 1..l /\ k < i /\ k \in (n + 1)..(l + 1)
    BY <1>0, <1>1
  <2>2. kind # "none" => k # n + 1
    BY <1>1 DEF Batch
  <2>3. Answered(k)'
    <3>1. kind # "added" \/ k > n + 1
      BY <2>2, <1>0, <1>1
    <3> QED
      BY <3>1, <2>1, BatchAnswered
  <2>4. a <= n + 1 \/ kind # "none" => a <= k
    BY <2>2, <1>0, <1>1
  <2> QED
    BY <2>1, <2>3, <2>4
<1>2. ASSUME NEW d \in S, a <= n + 1 \/ kind # "none", Silent(d, a, i)' PROVE FALSE
  <2>1. PICK k \in (n + 1)..l : k < l /\ toClient'[k].type \in {"doc", "gone"} /\ toClient'[k].doc = d
    BY DEF Batch
  <2>2. Speaks(k, d)'
    BY <2>1 DEF Speaks
  <2> QED
    BY <2>1, <2>2, <1>0, <1>1, <1>2 DEF Silent
<1>3. ASSUME NEW d, Silent(d, a, i)', a <= n + 1, kind = "reset" PROVE FALSE
  <2>1. PICK k : k = n + 1
    OBVIOUS
  <2>2. k \in 1..l /\ k < i /\ k \in (n + 1)..(l + 1) /\ a <= k /\ toClient'[k].type = "reset"
    BY <2>1, <1>0, <1>3 DEF Batch
  <2>3. Answered(k)'
    BY <2>2, <1>3, BatchAnswered
  <2>4. Speaks(k, d)'
    BY <2>2 DEF Speaks
  <2> QED
    BY <2>2, <2>3, <2>4, <1>0, <1>3 DEF Silent
<1>4. ASSUME ~exact, a <= n + 1 PROVE Filtered(a, i)'
  <2>1. PICK k \in (n + 1)..l : k < l /\ toClient'[k].type = "filter"
    BY <1>4 DEF Batch
  <2> QED
    BY <2>1, <1>0, <1>1, <1>4 DEF Filtered
<1> QED
  BY <1>2, <1>3, <1>4

(* The new messages are right about what they say.                         *)
LEMMA NewPlaceFits ==
  ASSUME TypeOK, NEW n, NEW l, NEW kind, NEW S, NEW marked, NEW exact, Batch(n, l, kind, S, marked, exact),
         log' = log, watched'.sent = Version, kind = "reset" => S = Live(Version),
         NEW i \in {l, l + 1}, NEW k \in (n + 1)..l, k < i, toClient'[k].type # "added"
  PROVE  PlaceFits(k, i)'
<1>0. n \in Nat /\ l \in Nat /\ n < l /\ l = Len(toClient')
  BY DEF Batch
<1>1. \A d : Truth(d, At(i))' = Truth(d, Version)
  BY BatchPoints
<1>2. Log /\ Version \in Nat
  BY MessageTypes DEF TypeOK, ServerTypes
<1>3. ASSUME NEW d \in Docs, (Speaks(k, d) \/ toClient[k].type = "snapshot")', Silent(d, k + 1, i)'
      PROVE  Claim(k, d)' = Truth(d, Version)
  <2>1. CASE toClient'[k].type = "snapshot"
    <3>1. PICK v : v = Version
      OBVIOUS
    <3>2. toClient'[k].version = v
      BY <2>1, <3>1 DEF Batch
    <3>3. Truth(d, toClient[k].version)' = Truth(d, v)'
      BY <3>2 DEF Truth, Lives, LastWrite
    <3>4. Truth(d, v)' = Truth(d, v)
      BY SameTruth
    <3>5. Truth(d, toClient[k].version)' = Truth(d, Version)
      BY <3>1, <3>3, <3>4
    <3> QED
      BY <2>1, <3>5 DEF Claim
  <2>2. CASE toClient'[k].type \in {"doc", "gone"}
    <3>1. toClient'[k].doc = d
      BY <2>2, <1>3 DEF Speaks
    <3>2. /\ toClient'[k].version = LastWrite(d, Version)
          /\ toClient'[k].type = "doc" <=> Lives(d, Version)
      BY <2>2, <3>1 DEF Batch
    <3> QED
      BY <2>2, <3>2, <1>2, TruthParts DEF Claim, Dead
  <2>3. CASE toClient'[k].type = "reset"
    <3>1. k = n + 1 /\ kind = "reset"
      BY <2>3 DEF Batch
    <3>2. PICK a : a = n + 2
      OBVIOUS
    <3>3. a = k + 1 /\ a \in Nat
      BY <3>1, <3>2, <1>0
    <3>4. d \notin S
      BY <3>1, <3>2, <3>3, <1>3, Unnamed
    <3>5. ~Lives(d, Version)
      BY <3>1, <3>4 DEF Live
    <3>6. Truth(d, Version) = Dead
      BY <3>5, <1>2, TruthParts
    <3> QED
      BY <2>3, <3>6 DEF Claim, Dead
  <2>4. toClient'[k].type \in {"snapshot", "doc", "gone", "reset"}
    BY <1>3 DEF Speaks
  <2> QED
    BY <2>1, <2>2, <2>3, <2>4
<1> QED
  BY <1>1, <1>3 DEF PlaceFits, Dead

(* A document that is not named did not change since, or it is dead and    *)
(* the messages are not exact.                                             *)
LEMMA UnnamedTruth ==
  ASSUME Log, NEW v \in 0..Version, NEW exact \in BOOLEAN, NEW d \in Docs, d \notin Named(v, exact)
  PROVE  Truth(d, Version) = Truth(d, v) \/ (Truth(d, Version) = Dead /\ ~exact)
<1>0. Version \in Nat /\ v \in Nat /\ v <= Version /\ v # NoToken
  BY MessageTypes DEF Log, NoToken, Version
<1>1. CASE LastWrite(d, Version) <= v
  <2>1. LastWrite(d, v) = LastWrite(d, Version) /\ (Lives(d, v) <=> Lives(d, Version))
    BY <1>0, <1>1, LivesBetween
  <2> QED
    BY <2>1 DEF Truth
<1>2. CASE ~(LastWrite(d, Version) <= v)
  <2>1. LastWrite(d, Version) \in Nat
    BY <1>0, LastWriteIs
  <2>2. d \in Changed(v)
    BY <2>1, <1>0, <1>2 DEF Changed
  <2>3. d \notin Live(Version)
    BY <2>2 DEF Named
  <2>4. exact => d \in Named(v, exact)
    BY <2>2, <2>3, <1>0 DEF Named, Died
  <2>5. Truth(d, Version) = Dead
    BY <2>3, <1>0, TruthParts DEF Live
  <2> QED
    BY <2>4, <2>5
<1> QED
  BY <1>1, <1>2

(* What was claimed at the end of the queue is claimed after the update,   *)
(* unless the update speaks.                                               *)
Agrees(c, d, a, b, v) ==
  Silent(d, a, b) => c = Truth(d, v) \/ (Truth(d, v) = Dead /\ Filtered(a, b))

(* A claim that held at the version the server told of last holds at the   *)
(* new points, unless the batch speaks.                                    *)
LEMMA ClaimReaches ==
  ASSUME TypeOK, NEW n, NEW l, NEW kind, NEW S, NEW marked, NEW exact \in BOOLEAN,
         Batch(n, l, kind, S, marked, exact), kind # "added", NEW v \in 0..Version,
         kind = "none" => S = Named(v, exact),
         NEW i \in {l, l + 1}, NEW e, e = n + 1, NEW a \in Nat, a <= e, NEW d \in Docs, NEW c,
         Agrees(c, d, a, e, v), Silent(d, a, i)'
  PROVE  c = Truth(d, Version) \/ (Truth(d, Version) = Dead /\ Filtered(a, i)')
<1>0. n \in Nat /\ l \in Nat /\ n < l /\ i \in Nat /\ i > n /\ kind \in {"none", "added", "reset"} /\ Extends(n, l)
  <2>1. Extends(n, l)
    BY BatchAnswered
  <2> QED
    BY <2>1 DEF Batch
<1>1. d \notin S /\ kind = "none" /\ (~exact => Filtered(a, i)')
  BY <1>0, Unnamed
<1>2. Truth(d, Version) = Truth(d, v) \/ (Truth(d, Version) = Dead /\ ~exact)
  BY <1>1, UnnamedTruth DEF TypeOK, ServerTypes
<1>3. Silent(d, a, n + 1) /\ (Filtered(a, n + 1) => Filtered(a, i)')
  BY <1>0, SpansKept
<1> QED
  BY <1>1, <1>2, <1>3 DEF Agrees

(* The end of the queue is a point.                                        *)
LEMMA EndFits ==
  ASSUME TypeOK, QueueOK, Following, QueueFits, NEW n, n = Len(toClient), NEW e, e = n + 1
  PROVE  /\ Point(e) /\ PointFits(e) /\ At(e) = watched.sent /\ watched.sent \in 0..Version
         /\ e \in 1..(Len(toClient) + 1)
<1>1. n \in Nat /\ e \in 1..(Len(toClient) + 1) /\ e \notin 1..Len(toClient) /\ \A j \in 1..Len(toClient) : ~(j >= e)
  BY DEF TypeOK, StreamTypes
<1>2. Point(e) /\ At(e) = watched.sent
  BY <1>1 DEF Point, At, Answered
<1>3. PointFits(e)
  BY <1>1, <1>2 DEF QueueFits
<1> QED
  BY <1>1, <1>2, <1>3, VersionsOfPoints

(* A batch with a mark makes the target current.                           *)
LEMMA MarkReaches ==
  ASSUME NEW n, NEW l, NEW kind, NEW S, NEW marked, NEW exact, Batch(n, l, kind, S, marked, exact), marked,
         kind # "none", NEW i \in {l, l + 1}
  PROVE  GetsCurrent(i)'
<1>0. n \in Nat /\ l \in Nat /\ n < l /\ l = Len(toClient')
  BY DEF Batch
<1>1. PICK k \in (n + 1)..l : k < l /\ toClient'[k].type = "current"
  BY DEF Batch
<1>2. k # n + 1 /\ k \in 1..l /\ k < i /\ k \in (n + 1)..(l + 1)
  BY <1>0, <1>1 DEF Batch
<1>3. k > n + 1
  BY <1>0, <1>2
<1>4. Answered(k)'
  BY <1>2, <1>3, BatchAnswered
<1>5. ASSUME NEW j \in 1..l, k + 1 <= j PROVE toClient'[j].type # "reset"
  <2>1. j \in (n + 1)..l /\ j # n + 1
    BY <1>3, <1>5, <1>0
  <2> QED
    BY <2>1 DEF Batch
<1>6. NoReset(k + 1, i)'
  BY <1>0, <1>5 DEF NoReset
<1> QED
  BY <1>0, <1>1, <1>2, <1>4, <1>6 DEF GetsCurrent

LEMMA UpdatePointFits ==
  ASSUME TypeOK, QueueOK, HistoryKept, ClientKept, Following, QueueFits,
         NEW n, NEW l, NEW kind, NEW S, NEW marked, NEW exact \in BOOLEAN,
         Batch(n, l, kind, S, marked, exact), kind # "added", log' = log, watched'.sent = Version,
         kind = "none" => S = Named(watched.sent, exact), kind = "reset" => S = Live(Version) /\ marked,
         NEW i \in {l, l + 1}
  PROVE  PointFits(i)'
<1>0. /\ n \in Nat /\ l \in Nat /\ n < l /\ i \in Nat /\ i > n /\ kind \in {"none", "added", "reset"} /\ Extends(n, l)
      /\ n = Len(toClient) /\ l = Len(toClient') /\ 1 <= n + 1
  <2>1. Extends(n, l)
    BY BatchAnswered
  <2> QED
    BY <2>1 DEF Batch
<1>1. PICK e : e = n + 1
  OBVIOUS
<1>2. PICK v : v = watched.sent
  OBVIOUS
<1>3. /\ PointFits(e) /\ At(e) = v /\ v \in 0..Version /\ e \in 1..(Len(toClient) + 1)
      /\ kind = "none" => S = Named(v, exact)
  BY <1>0, <1>1, <1>2, EndFits
<1>4. \A d : Truth(d, At(i))' = Truth(d, Version)
  BY BatchPoints
<1>5. (\A d : StateClaim(d)' = StateClaim(d)) /\ (Marked' <=> Marked)
  BY DeviceClaimsKept
<1>6. ASSUME NEW d \in Docs, Silent(d, 1, i)'
      PROVE  \/ StateClaim(d)' = Truth(d, At(i))'
             \/ Truth(d, At(i))' = Dead /\ Filtered(1, i)'
  <2>1. PICK c : c = StateClaim(d)
    OBVIOUS
  <2>2. PICK a \in Nat : a = 1 /\ a <= e
    BY <1>0, <1>1
  <2>3. Agrees(c, d, a, e, v)
    BY <2>1, <2>2, <1>3 DEF PointFits, StateFits, Agrees
  <2>4. Silent(d, a, i)'
    BY <2>2, <1>6
  <2>5. c = Truth(d, Version) \/ (Truth(d, Version) = Dead /\ Filtered(a, i)')
    BY <2>2, <2>3, <2>4, <1>1, <1>3, ClaimReaches
  <2> QED
    BY <2>1, <2>2, <2>5, <1>4, <1>5
<1>7. StateFits(i)'
  BY <1>6 DEF StateFits, Dead
<1>8. GetsCurrent(i)'
  <2>1. CASE kind = "reset"
    BY <2>1, MarkReaches
  <2>2. CASE kind = "none"
    <3>1. \A k \in (n + 1)..l : toClient'[k].type # "reset"
      BY <2>2 DEF Batch
    <3>2. CASE Marked /\ NoReset(1, e)
      <4>1. NoReset(1, i)'
        BY <3>1, <3>2, <1>0, <1>1, ResetsKept
      <4> QED
        BY <4>1, <3>2, <1>5 DEF GetsCurrent, Marked
    <3>3. ASSUME NEW k \in 1..n, k < e, Answered(k), toClient[k].type = "current", NoReset(k + 1, e)
          PROVE  GetsCurrent(i)'
      <4>1. NoReset(k + 1, i)'
        BY <3>1, <3>3, <1>0, <1>1, ResetsKept
      <4>2. k \in 1..l /\ k < i /\ toClient'[k].type = "current" /\ Answered(k)'
        BY <3>3, <1>0, PlaceKept
      <4> QED
        BY <4>1, <4>2, <1>0 DEF GetsCurrent
    <3> QED
      BY <3>2, <3>3, <1>0, <1>3 DEF PointFits, GetsCurrent, Marked
  <2> QED
    BY <2>1, <2>2, <1>0
<1>9. ASSUME NEW k \in 1..l, k < i, Answered(k)' PROVE PlaceFits(k, i)'
  <2>1. CASE k \in 1..n
    <3>1. /\ toClient'[k] = toClient[k] /\ Answered(k) /\ k < e /\ k \in Nat
          /\ \A d : Speaks(k, d)' <=> Speaks(k, d)
      BY <2>1, <1>0, <1>1, <1>9, PlaceKept
    <3>2. PlaceFits(k, e)
      BY <2>1, <3>1, <1>0, <1>3 DEF PointFits
    <3>3. \A d : Claim(k, d)' = Claim(k, d)
      BY <2>1, <1>0, OldClaims
    <3>4. PICK a \in Nat : a = k + 1 /\ a <= e
      BY <2>1, <1>0, <1>1, <3>1
    <3>5. ASSUME NEW d \in Docs, (Speaks(k, d) \/ toClient[k].type = "snapshot")', Silent(d, k + 1, i)'
          PROVE  \/ Claim(k, d)' = Truth(d, At(i))'
                 \/ Truth(d, At(i))' = Dead /\ Filtered(k + 1, i)'
      <4>1. PICK c : c = Claim(k, d)
        OBVIOUS
      <4>2. Agrees(c, d, a, e, v)
        BY <4>1, <3>1, <3>2, <3>4, <3>5, <1>3 DEF PlaceFits, Agrees
      <4>3. Silent(d, a, i)'
        BY <3>4, <3>5
      <4>4. c = Truth(d, Version) \/ (Truth(d, Version) = Dead /\ Filtered(a, i)')
        BY <4>2, <4>3, <3>4, <1>1, <1>3, ClaimReaches
      <4> QED
        BY <4>1, <4>4, <3>3, <3>4, <1>4
    <3> QED
      BY <3>5 DEF PlaceFits, Dead
  <2>2. CASE k \notin 1..n
    <3>1. k \in (n + 1)..l
      BY <2>2, <1>0
    <3>2. toClient'[k].type # "added"
      BY <3>1 DEF Batch
    <3> QED
      BY <3>1, <3>2, <1>9, NewPlaceFits
  <2> QED
    BY <2>1, <2>2
<1> QED
  BY <1>0, <1>7, <1>8, <1>9 DEF PointFits

(* A batch of a query that was told of before keeps every point fitting.   *)
LEMMA UpdateFits ==
  ASSUME TypeOK, QueueOK, HistoryKept, ClientKept, Following, QueueFits,
         NEW n, NEW l, NEW kind, NEW S, NEW marked, NEW exact \in BOOLEAN,
         Batch(n, l, kind, S, marked, exact), kind # "added", log' = log, watched'.sent = Version,
         kind = "none" => S = Named(watched.sent, exact), kind = "reset" => S = Live(Version) /\ marked
  PROVE  QueueFits'
<1>0. n \in Nat /\ l \in Nat /\ n < l /\ Extends(n, l) /\ l = Len(toClient')
  <2>1. Extends(n, l)
    BY BatchAnswered
  <2> QED
    BY <2>1 DEF Batch
<1>1. ASSUME NEW i \in 1..(Len(toClient') + 1), Point(i)' PROVE PointFits(i)'
  <2>1. CASE i \in 1..n
    BY <2>1, <1>0, <1>1, OldPoints
  <2>2. CASE i \notin 1..n
    <3>1. i \in (n + 1)..(l + 1)
      BY <2>2, <1>0
    <3>2. i \in {l, l + 1}
      BY <3>1, <1>1, BatchPoints
    <3> QED
      BY <3>2, UpdatePointFits
  <2> QED
    BY <2>1, <2>2
<1> QED
  BY <1>1 DEF QueueFits

-----------------------------------------------------------------------------
(* The server answers: what it tells makes up for what the client lacks.   *)

(* A client that just asked knows of each document, unless it is named in  *)
(* the answer or filtered.                                                 *)
LEMMA AskedClaims ==
  ASSUME TypeOK, BoundsKept, TokensFit, TokenOrNothing, ~Active, ~crossed, repair # "lost", listening,
         NEW v, v = listen, NEW exact \in BOOLEAN, NEW d \in Docs, d \notin Named(v, exact)
  PROVE  StateClaim(d) = Truth(d, Version) \/ (Truth(d, Version) = Dead /\ ~exact)
<1>0. Log /\ Version \in Nat /\ v \in Token
  BY MessageTypes DEF TypeOK, ServerTypes, MemoryTypes
<1>1. LastWrite(d, Version) \in Nat
  BY <1>0, LastWriteIs
<1>2. Held(d) <=> d \in keys
  BY DEF Held, Renewed, Kind
<1>3. CASE v = NoToken
  <2>1. StateClaim(d) = Dead
    BY <1>2, <1>3 DEF TokenOrNothing, StateClaim
  <2>2. d \in Changed(v)
    BY <1>1, <1>3 DEF Changed, NoToken
  <2>3. ~Lives(d, Version)
    BY <2>2 DEF Named, Live
  <2> QED
    BY <2>1, <2>3, <1>0, TruthParts
<1>4. CASE v # NoToken /\ LastWrite(d, Version) <= v
  <2>1. /\ d \in keys <=> Lives(d, Version)
        /\ d \in keys => cache[d] = LastWrite(d, Version)
    BY <1>4 DEF TokensFit, Fits
  <2>2. CASE d \in keys
    <3>1. cache[d] = LastWrite(d, Version) /\ updates[d] <= LastWrite(d, Version) /\ updates[d] \in Nat
      BY <2>1, <2>2 DEF BoundsKept, ContentsKnown, TypeOK, StreamTypes
    <3>2. ~Renewed(d)
      BY DEF Renewed, Kind
    <3>3. Known(d) = LastWrite(d, Version)
      BY <3>1, <3>2, <1>1 DEF Known
    <3> QED
      BY <2>1, <2>2, <3>3, <1>0, <1>2, TruthParts DEF StateClaim
  <2>3. CASE d \notin keys
    BY <2>1, <2>3, <1>0, <1>2, TruthParts DEF StateClaim
  <2> QED
    BY <2>2, <2>3
<1>5. CASE v # NoToken /\ ~(LastWrite(d, Version) <= v)
  <2>1. v \in Nat
    BY <1>0, <1>5 DEF Token
  <2>2. d \in Changed(v)
    BY <2>1, <1>1, <1>5 DEF Changed
  <2>3. d \notin Live(Version)
    BY <2>2 DEF Named
  <2>4. exact => d \in Named(v, exact)
    BY <2>2, <2>3, <1>5 DEF Named, Died
  <2>5. Truth(d, Version) = Dead
    BY <2>3, <1>0, TruthParts DEF Live
  <2> QED
    BY <2>4, <2>5
<1> QED
  BY <1>3, <1>4, <1>5

(* The first batch of a listen fits what the client asked with.            *)
LEMMA AnswerPointFits ==
  ASSUME TypeOK, BoundsKept, TokensFit, TokenOrNothing, ClientKept, ~Active, ~crossed, repair # "lost", listening,
         NEW n, NEW l, NEW kind, NEW S, NEW marked, NEW exact \in BOOLEAN, Batch(n, l, kind, S, marked, exact),
         kind = "added", log' = log, watched'.sent = Version, S = Named(listen, exact),
         NEW i \in {l, l + 1}, GetsCurrent(i)'
  PROVE  PointFits(i)'
<1>0. n \in Nat /\ l \in Nat /\ n < l /\ l = Len(toClient')
  BY DEF Batch
<1>1. \A d : Truth(d, At(i))' = Truth(d, Version)
  BY BatchPoints
<1>2. \A d : StateClaim(d)' = StateClaim(d)
  BY DeviceClaimsKept
<1>3. PICK a \in Nat : a = 1 /\ a <= n + 1
  BY <1>0
<1>4. ASSUME NEW d \in Docs, Silent(d, 1, i)'
      PROVE  \/ StateClaim(d)' = Truth(d, At(i))'
             \/ Truth(d, At(i))' = Dead /\ Filtered(1, i)'
  <2>1. Silent(d, a, i)'
    BY <1>3, <1>4
  <2>2. d \notin S /\ (~exact => Filtered(a, i)')
    BY <2>1, <1>3, Unnamed
  <2>3. StateClaim(d) = Truth(d, Version) \/ (Truth(d, Version) = Dead /\ ~exact)
    BY <2>2, AskedClaims
  <2> QED
    BY <2>2, <2>3, <1>1, <1>2, <1>3
<1>5. StateFits(i)'
  BY <1>4 DEF StateFits, Dead
<1>7. ASSUME NEW k \in 1..l, k < i, Answered(k)' PROVE PlaceFits(k, i)'
  <2>1. k \notin 1..(n + 1)
    BY <1>7, BatchAnswered
  <2>2. k \in (n + 1)..l /\ k # n + 1
    BY <2>1, <1>0
  <2>3. toClient'[k].type # "added"
    BY <2>2 DEF Batch
  <2> QED
    BY <2>2, <2>3, <1>7, NewPlaceFits
<1> QED
  BY <1>0, <1>5, <1>7 DEF PointFits

LEMMA AnswerFits ==
  ASSUME TypeOK, BoundsKept, TokensFit, TokenOrNothing, Counted, Asked, ClientKept,
         NEW exact \in BOOLEAN, AnswerWatch(exact), Following'
  PROVE  QueueFits'
<1>1. /\ toServer # <<>> /\ Head(toServer).type = "watch" /\ toServer' = Tail(toServer)
      /\ \E w : Told(w, Added, Named(Head(toServer).token, exact), Current, exact, NoToken)
  BY AnswerWatchTells
<1>2. /\ listening /\ connected /\ ~crossed /\ repair # "lost" /\ toServer' = <<>>
  BY DEF Following, ClientKept, historyVars
<1>3. toServer \in Seq(Requests) /\ Len(toServer) = 1 /\ Head(toServer) = toServer[1]
  <2>1. toServer \in Seq(Requests)
    BY DEF TypeOK, StreamTypes
  <2>2. Len(toServer) \in Nat /\ Len(toServer) >= 1 /\ Head(toServer) = toServer[1] /\ Len(Tail(toServer)) = Len(toServer) - 1
    BY <2>1, <1>1, TailParts
  <2>3. Len(Tail(toServer)) = 0
    BY NoMessages, <1>1, <1>2
  <2>4. Len(toServer) = 1
    BY <2>2, <2>3
  <2> QED
    BY <2>1, <2>2, <2>4
<1>4. toServer[1] = Watch(listen) /\ Watch(listen).token = listen
  BY <1>1, <1>2, <1>3 DEF Asked, Watch
<1>5. PICK w : Told(w, Added, Named(listen, exact), Current, exact, NoToken)
  BY <1>1, <1>3, <1>4
<1>6. Tells(Added, Named(listen, exact), Current, exact, NoToken)
  BY <1>5, ToldTells
<1>7. log' = log /\ watched'.sent = Version
  BY <1>5 DEF Told
<1>8. Named(listen, exact) \in SUBSET Docs
  BY DEF Named, Changed, Died, Live
<1>13. PICK kind \in {"none", "added", "reset"} : kind = "added"
  OBVIOUS
<1>14. PICK marked \in BOOLEAN : marked
  OBVIOUS
<1>9. PICK n, l \in Nat : Batch(n, l, kind, Named(listen, exact), marked, exact)
  BY <1>6, <1>8, <1>13, <1>14, TellIsBatch DEF TypeOK, ServerTypes
<1>10. ~Active
  <2>1. target.outstanding = Len(toServer) + Cardinality(AnswerPlaces) /\ Cardinality(AnswerPlaces) \in Nat
    BY <1>2, AnswersAreFinite DEF Counted
  <2> QED
    BY <2>1, <1>3 DEF Active
<1>11. n < l /\ l = Len(toClient')
  BY <1>9 DEF Batch
<1>12. ASSUME NEW i \in 1..(Len(toClient') + 1), Point(i)' PROVE PointFits(i)'
  <2>1. i \notin 1..(n + 1)
    BY <1>9, <1>12, <1>13, BatchAnswered DEF Point
  <2>2. i \in (n + 1)..(l + 1)
    BY <2>1, <1>11, <1>12
  <2>3. i \in {l, l + 1}
    BY <2>2, <1>7, <1>9, <1>12, BatchPoints
  <2>4. GetsCurrent(i)'
    BY <2>3, <1>9, <1>13, <1>14, MarkReaches
  <2> QED
    BY <2>3, <2>4, <1>2, <1>7, <1>9, <1>10, <1>13, AnswerPointFits
<1> QED
  BY <1>12 DEF QueueFits

(* Rejections, and requests that are answered.                             *)
LEMMA RejectFits ==
  ASSUME TypeOK, QueueOK, HistoryKept, ClientKept, Following, QueueFits, Adds("rejected"), log' = log,
         watched'.sent = watched.sent
  PROVE  QueueFits'
<1>1. PICK n \in Nat, l \in Nat : /\ n = Len(toClient) /\ l = Len(toClient') /\ l = n + 1
                                  /\ \A k \in 1..n : toClient'[k] = toClient[k]
                                  /\ toClient'[l].type = "rejected"
  BY DEF Adds
<1>2. Extends(n, l)
  <2>1. \A k \in (n + 1)..l : k = l
    BY <1>1
  <2> QED
    BY <1>1, <2>1 DEF Extends, Answers
<1>3. PICK e : e = n + 1
  OBVIOUS
<1>4. PICK v : v = watched.sent
  OBVIOUS
<1>5. PointFits(e) /\ At(e) = v /\ v \in 0..Version
  BY <1>1, <1>3, <1>4, EndFits
<1>6. (\A d : StateClaim(d)' = StateClaim(d)) /\ (Marked' <=> Marked)
  BY DeviceClaimsKept
<1>7. ASSUME NEW i, i = l + 1 PROVE PointFits(i)'
  <2>0. i \in Nat /\ i > n
    BY <1>1, <1>7
  <2>1. \A d : Truth(d, At(i))' = Truth(d, v)
    <3> SUFFICES ASSUME NEW d PROVE Truth(d, At(i))' = Truth(d, v)
      OBVIOUS
    <3>1. i \notin 1..l
      BY <1>1, <1>7
    <3>2. At(i)' = v
      BY <3>1, <1>1, <1>4 DEF At
    <3>3. Truth(d, At(i))' = Truth(d, v)'
      BY <3>2 DEF Truth, Lives, LastWrite
    <3> QED
      BY <3>3, SameTruth
  <2>2. \A a : \A d : /\ Silent(d, a, i)' => Silent(d, a, e)
                      /\ Filtered(a, e) => Filtered(a, i)'
    BY <2>0, <1>2, <1>3, SpansKept
  <2>3. \A k \in (n + 1)..l : toClient'[k].type # "reset"
    <3>1. \A k \in (n + 1)..l : k = l
      BY <1>1
    <3> QED
      BY <3>1, <1>1
  <2>4. \A a : NoReset(a, e) => NoReset(a, i)'
    BY <2>0, <2>3, <1>2, <1>3, ResetsKept
  <2>5. StateFits(i)'
    BY <2>1, <2>2, <1>5, <1>6 DEF StateFits, PointFits, Dead
  <2>6. GetsCurrent(i)'
    <3>1. CASE Marked /\ NoReset(1, e)
      BY <3>1, <2>4, <1>6 DEF GetsCurrent, Marked
    <3>2. ASSUME NEW k \in 1..n, k < e, Answered(k), toClient[k].type = "current", NoReset(k + 1, e)
          PROVE  GetsCurrent(i)'
      <4>1. NoReset(k + 1, i)'
        BY <3>2, <2>4
      <4>2. k \in 1..l /\ k < i /\ toClient'[k].type = "current" /\ Answered(k)'
        BY <3>2, <1>1, <1>2, <2>0, PlaceKept
      <4> QED
        BY <4>1, <4>2, <1>1 DEF GetsCurrent
    <3> QED
      BY <3>1, <3>2, <1>1, <1>5 DEF PointFits, GetsCurrent, Marked
  <2>7. ASSUME NEW k \in 1..l, k < i, Answered(k)' PROVE PlaceFits(k, i)'
    <3>1. CASE k \in 1..n
      <4>1. /\ toClient'[k] = toClient[k] /\ Answered(k) /\ k < e
            /\ \A d : Speaks(k, d)' <=> Speaks(k, d)
        BY <3>1, <2>7, <1>1, <1>2, <1>3, PlaceKept
      <4>2. PlaceFits(k, e)
        BY <3>1, <4>1, <1>1, <1>5 DEF PointFits
      <4>3. \A d : Claim(k, d)' = Claim(k, d)
        BY <3>1, <1>2, OldClaims
      <4> QED
        BY <4>1, <4>2, <4>3, <2>1, <2>2, <1>5 DEF PlaceFits, Dead
    <3>2. CASE k \notin 1..n
      <4>1. k = l
        BY <3>2, <1>1
      <4> QED
        BY <4>1, <1>1 DEF PlaceFits, Speaks
    <3> QED
      BY <3>1, <3>2
  <2> QED
    BY <2>5, <2>6, <2>7, <1>1 DEF PointFits
<1>8. ASSUME NEW i \in 1..(Len(toClient') + 1), Point(i)' PROVE PointFits(i)'
  <2>1. CASE i \in 1..n
    BY <2>1, <1>2, <1>8, OldPoints
  <2>2. CASE i \notin 1..n
    <3>1. i = l \/ i = l + 1
      BY <2>2, <1>1
    <3>2. l \in 1..l
      BY <1>1
    <3>3. i # l
      BY <3>2, <1>1, <1>8 DEF Point
    <3> QED
      BY <3>1, <3>3, <1>7
  <2> QED
    BY <2>1, <2>2
<1> QED
  BY <1>8 DEF QueueFits

LEMMA FollowedBefore ==
  ASSUME ClientKept, toServer' = toServer, Following'
  PROVE  Following
BY DEF ClientKept, historyVars, Following

LEMMA PushFits ==
  ASSUME TypeOK, QueueOK, HistoryKept, QueueFits, NEW exact \in BOOLEAN, NEW token \in {NoToken, Version},
         Push(exact, token), Following'
  PROVE  QueueFits'
<1>1. PICK w : /\ Told(w, <<>>, Named(watched.sent, exact), <<>>, exact, token)
               /\ toServer' = toServer
  BY PushTells
<1>2. Tells(<<>>, Named(watched.sent, exact), <<>>, exact, token)
  BY <1>1, ToldTells
<1>3. log' = log /\ watched'.sent = Version /\ ClientKept
  BY <1>1 DEF Told, ClientKept, memoryVars
<1>4. Following
  BY <1>1, <1>3, FollowedBefore
<1>5. Named(watched.sent, exact) \in SUBSET Docs
  BY DEF Named, Changed, Died, Live
<1>6. PICK kind \in {"none", "added", "reset"} : kind = "none"
  OBVIOUS
<1>7. PICK marked \in BOOLEAN : ~marked
  OBVIOUS
<1>8. PICK n, l \in Nat : Batch(n, l, kind, Named(watched.sent, exact), marked, exact)
  <2>1. PICK first : first = <<>>
    OBVIOUS
  <2>2. Tells(first, Named(watched.sent, exact), first, exact, token)
    BY <2>1, <1>2
  <2>3. Log
    BY DEF TypeOK, ServerTypes
  <2> QED
    BY <2>1, <2>2, <2>3, <1>5, <1>6, <1>7, TellIsBatch
<1>9. kind # "added" /\ kind # "reset"
  BY <1>6
<1> QED
  BY <1>3, <1>4, <1>8, <1>9, UpdateFits

LEMMA ResetFits ==
  ASSUME TypeOK, QueueOK, HistoryKept, QueueFits, ResetByServer, Following'
  PROVE  QueueFits'
<1>0. PICK exact \in BOOLEAN : exact
  OBVIOUS
<1>1. PICK w : Told(w, Reset, Live(Version), Current, TRUE, NoToken) /\ toServer' = toServer
  BY ResetTells
<1>2. Tells(Reset, Live(Version), Current, TRUE, NoToken)
  BY <1>1, ToldTells
<1>3. log' = log /\ watched'.sent = Version /\ ClientKept
  BY <1>1 DEF Told, ClientKept, memoryVars
<1>4. Following
  BY <1>1, <1>3, FollowedBefore
<1>5. Live(Version) \in SUBSET Docs
  BY DEF Live
<1>6. PICK kind \in {"none", "added", "reset"} : kind = "reset"
  OBVIOUS
<1>7. PICK marked \in BOOLEAN : marked
  OBVIOUS
<1>8. PICK n, l \in Nat : Batch(n, l, kind, Live(Version), marked, exact)
  <2>1. exact = TRUE
    BY <1>0
  <2>2. Tells(Reset, Live(Version), Current, exact, NoToken)
    BY <2>1, <1>2
  <2> QED
    BY <2>2, <1>5, <1>6, <1>7, TellIsBatch DEF TypeOK, ServerTypes
<1>9. kind # "added" /\ kind # "none"
  BY <1>6
<1> QED
  BY <1>3, <1>4, <1>7, <1>8, <1>9, UpdateFits

LEMMA UnwatchFits ==
  ASSUME TypeOK, Asked, AnswerUnwatch
  PROVE  ~Following'
<1> SUFFICES ASSUME Following' PROVE FALSE
  OBVIOUS
<1>1. /\ toServer # <<>> /\ Head(toServer).type = "unwatch" /\ toServer' = Tail(toServer)
      /\ UNCHANGED <<memoryVars, connected, historyVars>>
  BY DEF AnswerUnwatch
<1>2. listening /\ connected /\ ~crossed /\ toServer' = <<>>
  BY <1>1 DEF Following, memoryVars, historyVars
<1>3. Len(toServer) = 1 /\ Head(toServer) = toServer[1]
  <2>1. toServer \in Seq(Requests)
    BY DEF TypeOK, StreamTypes
  <2>2. Len(toServer) \in Nat /\ Len(toServer) >= 1 /\ Head(toServer) = toServer[1] /\ Len(Tail(toServer)) = Len(toServer) - 1
    BY <2>1, <1>1, TailParts
  <2>3. Len(Tail(toServer)) = 0
    BY NoMessages, <1>1, <1>2
  <2> QED
    BY <2>2, <2>3
<1>4. toServer[1] = Watch(listen)
  BY <1>1, <1>2, <1>3 DEF Asked
<1> QED
  BY <1>1, <1>3, <1>4 DEF Watch

(* A step after which the query is not followed needs nothing.             *)
LEMMA NotFollowed == ASSUME ~Following' PROVE QueueFits'
BY DEF QueueFits

LEMMA OthersNotFollowed ==
  ASSUME TypeOK, Base,
         ProcessTargetError \/ Listen \/ StopListening \/ WatchStreamDidOpen \/ Break \/ Crash
  PROVE  ~Following'
<1> SUFFICES ASSUME Following' PROVE FALSE
  OBVIOUS
<1>1. listening' /\ connected' /\ toServer' = <<>>
  BY DEF Following
<1>2. CASE ProcessTargetError
  <2>1. listening => ReleaseQuery
    BY <1>2, ErrorParts
  <2>2. ~listening => listening' = listening
    BY <1>2, ErrorParts DEF memoryVars
  <2> QED
    BY <2>1, <2>2, <1>1 DEF ReleaseQuery
<1>3. CASE Listen
  <2>1. connected /\ toServer' = Append(toServer, Watch(saved))
    BY <1>1, <1>3, ListenParts
  <2>2. Append(toServer, Watch(saved)) # <<>>
    BY DEF TypeOK, StreamTypes
  <2> QED
    BY <2>1, <2>2, <1>1
<1>4. CASE StopListening
  BY <1>1, <1>4, StopListeningParts DEF ReleaseQuery
<1>5. CASE WatchStreamDidOpen
  <2>1. /\ listening => toServer' = <<Watch(listen)>>
        /\ listening' = listening
    BY <1>5, OpenParts DEF memoryVars
  <2> QED
    BY <2>1, <1>1
<1>6. CASE Break \/ Crash
  BY <1>1, <1>6, LostParts
<1> QED
  BY <1>2, <1>3, <1>4, <1>5, <1>6

LEMMA QuietFits ==
  ASSUME TypeOK, QueueOK, HistoryKept, QueueFits, ClientKept, toServer' = toServer, toClient' = toClient,
         watched' = watched
  PROVE  QueueFits'
<1>1. CASE Following'
  BY <1>1, FollowedBefore, NothingTold
<1>2. CASE ~Following'
  BY <1>2, NotFollowed
<1> QED
  BY <1>1, <1>2

(* Every point keeps fitting, whatever happens.                            *)
LEMMA QueueFitsStays == DeviceKnows /\ QueueFits /\ [Next]_vars => QueueFits'
<1> SUFFICES ASSUME DeviceKnows, QueueFits, [Next]_vars, Following' PROVE QueueFits'
  BY NotFollowed
<1>0. TypeOK /\ QueueOK /\ DeviceOK /\ BoundsKept /\ Counted /\ Asked /\ Recorded /\ TokensFit /\ TokenOrNothing
  BY DEF DeviceKnows
<1>1. Base /\ ClientOK
  BY <1>0, BaseParts DEF DeviceOK, ClientOK
<1>2. HistoryKept
  BY <1>0, QueueIsCarried
<1>3. ASSUME NEW d \in Docs, NEW live \in BOOLEAN, Write(d, live) PROVE QueueFits'
  <2>1. ClientKept /\ toServer' = toServer /\ toClient' = toClient /\ watched' = watched
    BY <1>3 DEF Write, ClientKept, memoryVars, streamVars
  <2> QED
    BY <2>1, <1>0, <1>2, QuietFits
<1>4. CASE AnswerUnwatch
  BY <1>0, <1>4, UnwatchFits
<1>5. ASSUME NEW exact \in BOOLEAN, AnswerWatch(exact) PROVE QueueFits'
  <2>1. ClientKept
    BY <1>0, <1>5, AnswerWatchTells DEF Told, ClientKept, memoryVars
  <2> QED
    BY <2>1, <1>0, <1>5, AnswerFits
<1>6. ASSUME NEW exact \in BOOLEAN, NEW token \in {NoToken, Version}, Push(exact, token) PROVE QueueFits'
  BY <1>0, <1>2, <1>6, PushFits
<1>7. CASE ResetByServer
  BY <1>0, <1>2, <1>7, ResetFits
<1>8. CASE RejectByServer
  <2>1. ClientKept /\ toServer' = toServer /\ log' = log /\ watched'.sent = watched.sent
    <3>1. watched \in [on : BOOLEAN, sent : Nat]
      BY <1>0 DEF TypeOK, ServerTypes
    <3>2. watched' = [watched EXCEPT !.on = FALSE]
      BY <1>8 DEF RejectByServer
    <3> QED
      BY <3>1, <3>2, <1>8 DEF RejectByServer, ClientKept, memoryVars
  <2>2. Adds("rejected")
    <3>1. toClient' = Append(toClient, TargetChange("rejected", NoToken))
      BY <1>8 DEF RejectByServer
    <3> QED
      BY <3>1, <1>0, AppendAdds
  <2>3. Following
    BY <2>1, FollowedBefore
  <2> QED
    BY <2>1, <2>2, <2>3, <1>0, <1>2, RejectFits
<1>9. CASE TargetAdded \/ TargetRemoved
  BY <1>0, <1>1, <1>9, AnswerMoves
<1>10. CASE TargetCurrent
  BY <1>0, <1>1, <1>10, CurrentMoves
<1>11. CASE TargetReset
  BY <1>0, <1>1, <1>11, ResetMoves
<1>12. CASE AddDocument \/ RemoveDocument
  BY <1>0, <1>1, <1>12, DocumentMoves
<1>13. CASE HandleExistenceFilter
  BY <1>0, <1>1, <1>13, FilterMoves
<1>14. CASE RaiseSnapshot
  BY <1>0, <1>1, <1>14, RaiseMoves
<1>15. CASE ProcessTargetError \/ Listen \/ StopListening \/ WatchStreamDidOpen \/ Break \/ Crash
  BY <1>0, <1>1, <1>15, OthersNotFollowed
<1>16. CASE WentOffline
  BY <1>16 DEF WentOffline, streamVars, Following
<1>17. CASE UNCHANGED vars
  <2>1. ClientKept /\ toServer' = toServer /\ toClient' = toClient /\ watched' = watched
    BY <1>17 DEF vars, ClientKept, memoryVars, streamVars, serverVars
  <2> QED
    BY <2>1, <1>0, <1>2, QuietFits
<1> QED
  BY <1>3, <1>4, <1>5, <1>6, <1>7, <1>8, <1>9, <1>10, <1>11, <1>12, <1>13, <1>14, <1>15, <1>16, <1>17
     DEF Next, Serve, Receive

-----------------------------------------------------------------------------
(* A snapshot applied to a query that was not repaired in vain: the device *)
(* then holds the collection at the snapshot's version, and a token that   *)
(* is not newer.                                                           *)
Applied(t, v) ==
  /\ v \in 0..Version
  /\ \A d \in Docs : d \in keys' <=> Lives(d, v)
  /\ \A d \in keys' : cache'[d] = LastWrite(d, v)
  /\ t.current /\ t.token # NoToken /\ t.token \in Token /\ t.token <= v

Clean(included, mismatch) == included /\ ~mismatch

(* The device and the snapshot agree: nobody speaks before the first       *)
(* message.                                                                *)
LEMMA SnapshotApplied ==
  ASSUME DeviceKnows, QueueFits, TypeOK', ~crossed, repair # "lost",
         NEW t, NEW included, NEW mismatch, Seen(t), Raised(t, included, mismatch), RaisedTarget(t, included, mismatch),
         RaisedDevice(t, included), Clean(included, mismatch), NEW v, v = toClient[1].version
  PROVE  Applied(t, v)
<1>0. TypeOK /\ QueueOK /\ DeviceOK /\ BoundsKept /\ Counted /\ Asked /\ Recorded
  BY DEF DeviceKnows
<1>1. Base /\ ClientOK
  BY <1>0, BaseParts DEF DeviceOK, ClientOK
<1>2. /\ Shifts /\ toClient[1].type = "snapshot" /\ Active /\ t.exists /\ t.pending /\ ~resets /\ listening
      /\ toClient[1].token \in Token /\ updates' = NoUpdates /\ listening' = listening
  BY DEF Raised, Active, Clean
<1>3. toClient # <<>>
  <2>1. Len(toClient) >= 1
    BY <1>2 DEF Shifts
  <2> QED
    BY <2>1, NoMessages
<1>4. connected
  BY <1>0, <1>3 DEF DeviceOK, Disconnected
<1>5. toServer = <<>>
  <2>1. target.outstanding = Len(toServer) + Cardinality(AnswerPlaces) /\ target.outstanding = 0
    BY <1>0, <1>2, <1>4 DEF Counted, Active
  <2>2. Cardinality(AnswerPlaces) \in Nat /\ Len(toServer) \in Nat
    BY <1>0, AnswersAreFinite DEF TypeOK, StreamTypes
  <2>3. Len(toServer) = 0
    BY <2>1, <2>2
  <2> QED
    BY <2>3, <1>0 DEF TypeOK, StreamTypes
<1>6. Following
  BY <1>2, <1>4, <1>5 DEF Following
<1>7. /\ target.exists /\ target \in TargetState /\ Answered(1)
      /\ \A d \in Docs : Kind(d) = target.changes[d]
  BY <1>0, <1>1, <1>2, <1>6, ActiveIsAnswered
<1>8. v \in Nat /\ GetsCurrent(1) /\ \A d \in Docs : StateClaim(d) = Truth(d, v)
  BY <1>0, <1>2, <1>6, <1>7, SnapshotIsPoint
<1>9. Log /\ Version \in Nat
  BY <1>0, MessageTypes DEF TypeOK, ServerTypes
<1>10. 1 \in 1..Len(toClient)
  BY <1>2 DEF Shifts
<1>11. v \in 0..Version
  BY <1>0, <1>2, <1>10, VersionsOfPoints
<1>12. Marked
  <2>1. \A k \in 1..Len(toClient) : ~(k < 1)
    BY <1>2 DEF Shifts
  <2> QED
    BY <2>1, <1>8 DEF GetsCurrent, Marked
<1>13. /\ t.current /\ t.changes = target.changes
       /\ t.token = IF toClient[1].token # NoToken THEN toClient[1].token ELSE target.token
  BY <1>2, <1>7, <1>12 DEF Seen, Marked
<1>14. t.token # NoToken /\ t.token \in Token /\ t.token <= v
  <2>1. toClient[1].token <= v
    BY <1>0, <1>2, <1>10 DEF QueueOK, VersionsBound
  <2>2. target.token <= v /\ target.token # NoToken /\ target.token \in Token
    BY <1>0, <1>2, <1>7, <1>10, <1>12 DEF BoundsKept, TokensKnown, TokenKnown, Marked, TargetState
  <2> QED
    BY <2>1, <2>2, <1>2, <1>13
<1>15. /\ \A d \in Docs : d \in keys' <=> Held(d)
       /\ \A d \in Docs : d \in keys' => cache'[d] = Known(d)
  <2>1. t.changes \in [Docs -> Kinds] /\ \A d \in Docs : Kind(d) = t.changes[d]
    BY <1>7, <1>13 DEF TargetState
  <2>2. /\ keys' = (keys \ Sort(t, "removed")) \cup Sort(t, "added")
        /\ cache' = [d \in Docs |-> IF updates[d] # 0 /\ (t.changes[d] \in {"added", "modified"} \/ updates[d] >= cache[d])
                                    THEN updates[d] ELSE cache[d]]
    BY DEF RaisedDevice, Clean
  <2>3. \A d \in Docs : Kind(d)' = "none"
    BY <1>7 DEF RaisedTarget, Kind, Clean
  <2>4. \A d \in Docs : StateClaim(d) # 0
    BY <1>8, <1>9, TruthParts DEF Dead
  <2>5. \A d \in Docs : t.changes[d] = "modified" => d \in keys
    BY <1>0, <1>2, <1>7, <1>13 DEF Recorded
  <2> QED
    BY <2>1, <2>2, <2>3, <2>4, <2>5, <1>0, <1>2, ApplyTurn
<1>16. ASSUME NEW d \in Docs
       PROVE  (d \in keys' <=> Lives(d, v)) /\ (d \in keys' => cache'[d] = LastWrite(d, v))
  <2>0. cache[d] \in Nat /\ updates[d] \in Nat
    BY <1>0 DEF TypeOK, DeviceTypes, StreamTypes
  <2>1. Held(d) => Known(d) \in Nat
    BY <2>0 DEF Known
  <2>2. CASE Lives(d, v)
    <3>1. StateClaim(d) = LastWrite(d, v) /\ StateClaim(d) # Dead
      BY <2>2, <1>8, <1>9, TruthParts
    <3> QED
      BY <3>1, <2>2, <1>15 DEF StateClaim
  <2>3. CASE ~Lives(d, v)
    <3>1. StateClaim(d) = Dead
      BY <2>3, <1>8, <1>9, TruthParts
    <3>2. ~Held(d)
      BY <3>1, <2>1 DEF StateClaim, Dead
    <3> QED
      BY <3>2, <2>3, <1>15
  <2> QED
    BY <2>2, <2>3
<1>17. keys' \subseteq Docs
  BY DEF TypeOK, DeviceTypes
<1> QED
  BY <1>11, <1>13, <1>14, <1>16, <1>17 DEF Applied

(* A snapshot that is not applied may only renew what the cache holds.     *)
LEMMA SnapshotSkipped ==
  ASSUME TypeOK, NEW t, NEW included, RaisedDevice(t, included), ~included
  PROVE  /\ keys' = keys /\ saved' = saved /\ local' = local /\ view' = view
         /\ \A d \in Docs : cache'[d] = cache[d] \/ (cache'[d] = updates[d] /\ updates[d] >= cache[d])
         /\ updates = NoUpdates => cache' = cache
<1>1. /\ keys' = keys /\ saved' = saved /\ local' = local /\ view' = view
      /\ cache' = [d \in Docs |-> IF updates[d] # 0 /\ updates[d] >= cache[d] THEN updates[d] ELSE cache[d]]
  BY DEF RaisedDevice
<1>2. ASSUME updates = NoUpdates PROVE cache' = cache
  <2>1. \A d \in Docs : updates[d] = 0
    BY <1>2 DEF NoUpdates
  <2>2. cache \in [Docs -> Nat]
    BY DEF TypeOK, DeviceTypes
  <2> QED
    BY <2>1, <2>2, <1>1
<1> QED
  BY <1>1, <1>2

-----------------------------------------------------------------------------
(* Tokens that fit keep fitting.                                           *)
LEMMA NothingFits == ASSUME TypeOK PROVE Fits(NoToken)
BY LastWriteIs, MessageTypes DEF Fits, NoToken, TypeOK, ServerTypes

(* Through a step that leaves the device alone, ...                        *)
LEMMA FitsStays ==
  ASSUME TypeOK, log' = log \/ \E e \in [doc : Docs, live : BOOLEAN] : log' = Append(log, e),
         keys' = keys, cache' = cache, NEW t, t \in Token, t <= Version, Fits(t)
  PROVE  Fits(t)'
<1>1. CASE log' = log
  BY <1>1, SameHistory DEF Fits
<1>2. ASSUME NEW e \in [doc : Docs, live : BOOLEAN], log' = Append(log, e) PROVE Fits(t)'
  <2>1. /\ Version \in Nat
        /\ \A d : LastWrite(d, Version)' = IF d = e.doc THEN Version + 1 ELSE LastWrite(d, Version)
        /\ \A d : d # e.doc => (Lives(d, Version)' <=> Lives(d, Version))
    BY <1>2, WriteKeepsThePast DEF TypeOK, ServerTypes
  <2>2. ASSUME NEW d \in Docs, LastWrite(d, Version)' <= t
        PROVE  /\ d \in keys <=> Lives(d, Version)'
               /\ d \in keys => cache[d] = LastWrite(d, Version)'
    <3>1. d # e.doc
      BY <2>1, <2>2 DEF Token, NoToken
    <3> QED
      BY <3>1, <2>1, <2>2 DEF Fits
  <2> QED
    BY <2>2 DEF Fits
<1> QED
  BY <1>1, <1>2

(* ... through a snapshot that is not applied, ...                         *)
LEMMA FitsSkipped ==
  ASSUME TypeOK, ContentsKnown, log' = log, keys' = keys,
         \A d \in Docs : cache'[d] = cache[d] \/ (cache'[d] = updates[d] /\ updates[d] >= cache[d]),
         NEW t, Fits(t)
  PROVE  Fits(t)'
<1>1. /\ \A d : LastWrite(d, Version)' = LastWrite(d, Version)
      /\ \A d : Lives(d, Version)' <=> Lives(d, Version)
  BY SameHistory
<1>2. ASSUME NEW d \in Docs, LastWrite(d, Version) <= t
      PROVE  /\ d \in keys <=> Lives(d, Version)
             /\ d \in keys => cache'[d] = LastWrite(d, Version)
  <2>1. /\ d \in keys <=> Lives(d, Version)
        /\ d \in keys => cache[d] = LastWrite(d, Version)
    BY <1>2 DEF Fits
  <2>2. updates[d] <= LastWrite(d, Version) /\ updates[d] \in Nat /\ cache[d] \in Nat
    BY DEF ContentsKnown, TypeOK, StreamTypes, DeviceTypes
  <2>3. LastWrite(d, Version) \in Nat
    BY LastWriteIs, MessageTypes DEF TypeOK, ServerTypes
  <2> QED
    BY <2>1, <2>2, <2>3
<1> QED
  BY <1>1, <1>2 DEF Fits

(* ... and through one that is.                                            *)
LEMMA FitsApplied ==
  ASSUME TypeOK, TypeOK', log' = log, NEW t, NEW v, Applied(t, v), NEW x, x \in Token, x <= v
  PROVE  Fits(x)'
<1>1. /\ \A d : LastWrite(d, Version)' = LastWrite(d, Version)
      /\ \A d : Lives(d, Version)' <=> Lives(d, Version)
  BY SameHistory
<1>2. Log /\ Version \in Nat /\ v \in Nat /\ v <= Version
  BY MessageTypes DEF TypeOK, ServerTypes, Applied
<1>3. ASSUME NEW d \in Docs, LastWrite(d, Version) <= x
      PROVE  /\ d \in keys' <=> Lives(d, Version)
             /\ d \in keys' => cache'[d] = LastWrite(d, Version)
  <2>1. LastWrite(d, Version) \in Nat
    BY <1>2, LastWriteIs
  <2>2. LastWrite(d, Version) <= v
    BY <2>1, <1>2, <1>3 DEF Token, NoToken
  <2>3. LastWrite(d, v) = LastWrite(d, Version) /\ (Lives(d, v) <=> Lives(d, Version))
    BY <2>2, <1>2, LivesBetween
  <2> QED
    BY <2>3 DEF Applied
<1> QED
  BY <1>1, <1>3 DEF Fits

-----------------------------------------------------------------------------
(* What a step does to the tokens and the view.                            *)
SameView ==
  /\ UNCHANGED <<keys, cache, saved, listening, local, listen, repair, crossed>>
  /\ view'.at = view.at /\ (view'.current => view.current)
Released ==
  /\ ~listening' /\ local' = NoToken /\ listen' = NoToken /\ ~view'.current
  /\ repair' = BrokenOff /\ (crossed => crossed')
  /\ keys' = keys /\ cache' = cache /\ saved' \in {saved, local}
  /\ saved' = NoToken => saved = NoToken

LEMMA ReleaseReleases ==
  ASSUME TypeOK, ReleaseQuery, crossed => crossed'
  PROVE  Released
<1>1. saved' = IF local > saved THEN local ELSE saved
  BY DEF ReleaseQuery
<1>2. saved \in Token /\ local \in Token
  BY DEF TypeOK, DeviceTypes, MemoryTypes
<1>3. saved' = NoToken => saved = NoToken
  BY <1>1, <1>2 DEF Token, NoToken
<1>4. saved' \in {saved, local}
  BY <1>1
<1> QED
  BY <1>3, <1>4 DEF ReleaseQuery, Released

(* The steps, as far as the tokens and the view are concerned.             *)
LEMMA StepKinds ==
  ASSUME TypeOK, DeviceOK, [Next]_vars
  PROVE  /\ log' = log \/ \E e \in [doc : Docs, live : BOOLEAN] : log' = Append(log, e)
         /\ \/ SameView
            \/ Released /\ log' = log
            \/ Listen
            \/ RaiseSnapshot
<1>0. Base
  BY BaseParts DEF DeviceOK
<1>1. log' = log \/ \E e \in [doc : Docs, live : BOOLEAN] : log' = Append(log, e)
  BY QueueSteps
<1> SUFFICES SameView \/ (Released /\ log' = log) \/ Listen \/ RaiseSnapshot
  BY <1>1
<1>2. CASE ClientKept
  BY <1>2 DEF ClientKept, SameView, deviceVars, historyVars
<1>3. ASSUME NEW type, Collected(type) PROVE SameView
  BY <1>3 DEF Collected, SameView, deviceVars, memoryVars, historyVars
<1>4. CASE TargetAdded \/ TargetRemoved \/ TargetCurrent \/ TargetReset \/ HandleExistenceFilter
  BY <1>0, <1>3, <1>4, TargetAddedParts, TargetRemovedParts, TargetCurrentParts, TargetResetParts, FilterParts
<1>5. CASE AddDocument \/ RemoveDocument
  BY <1>0, <1>3, <1>5, DocumentParts, HandleDocumentParts
<1>6. CASE ProcessTargetError
  <2>1. CASE listening
    <3>1. ReleaseQuery /\ crossed' = (crossed \/ target.outstanding # 0) /\ log' = log
      BY <1>6, <2>1, ErrorParts DEF serverVars
    <3> QED
      BY <3>1, ReleaseReleases
  <2>2. CASE ~listening
    BY <1>6, <2>2, ErrorParts DEF SameView, deviceVars, memoryVars, historyVars
  <2> QED
    BY <2>1, <2>2
<1>7. CASE StopListening
  <2>1. ReleaseQuery /\ crossed' = crossed /\ log' = log
    BY <1>0, <1>7, StopListeningParts DEF serverVars
  <2> QED
    BY <2>1, ReleaseReleases
<1>8. CASE WatchStreamDidOpen
  BY <1>8, OpenParts DEF SameView, deviceVars, memoryVars, historyVars
<1>9. CASE Break \/ Crash
  <2>1. /\ UNCHANGED <<deviceVars, crossed>> /\ log' = log
        /\ \/ UNCHANGED <<memoryVars, repair>>
           \/ /\ ~listening' /\ local' = NoToken /\ listen' = NoToken /\ repair' = BrokenOff
              /\ ~view'.current
    BY <1>9, LostParts
  <2> QED
    BY <2>1 DEF SameView, Released, deviceVars, memoryVars
<1> QED
  BY <1>2, <1>4, <1>5, <1>6, <1>7, <1>8, <1>9, Classified

(* What a snapshot does to a repair, ...                                   *)
LEMMA RepairAfter ==
  ASSUME NEW t, NEW included, NEW mismatch, Raised(t, included, mismatch), TypeOK
  PROVE  /\ crossed' = crossed /\ log' = log /\ listening' = listening
         /\ mismatch => resets /\ listening /\ listen' = NoToken /\ repair' = (IF included THEN "pending" ELSE "lost")
         /\ ~mismatch => /\ repair = "lost" <=> repair' = "lost"
                         /\ repair' = "none" <=> repair = "none" \/ (repair = "pending" /\ included /\ t.current)
                         /\ listen' = IF included /\ t.token # NoToken THEN t.token ELSE listen
         /\ included => Active /\ listening
BY DEF Raised, Active, TypeOK, HistoryTypes

(* ... and to the tokens.                                                  *)
LEMMA TokensAfter ==
  ASSUME NEW t, RaisedDevice(t, TRUE)
  PROVE  /\ local' = IF t.token = NoToken THEN local ELSE t.token
         /\ t.token = NoToken => saved' = saved
         /\ t.token # NoToken => saved' = t.token \/ (saved' = saved /\ local # NoToken)
BY DEF RaisedDevice, SavedTokens

(* Every token the client may ask with keeps fitting.                      *)
LEMMA TokensFitStay == DeviceKnows /\ QueueFits /\ [Next]_vars => TokensFit'
<1> SUFFICES ASSUME DeviceKnows, QueueFits, [Next]_vars, ~crossed'
             PROVE  /\ repair' = "none" => Fits(saved)' /\ Fits(local)'
                    /\ repair' # "lost" => Fits(listen)'
  BY DEF TokensFit
<1>0. TypeOK /\ QueueOK /\ DeviceOK /\ BoundsKept /\ TokensFit /\ TokenOrNothing
  BY DEF DeviceKnows
<1>1. Base /\ TypeOK'
  BY <1>0, BaseParts, TypeStep DEF DeviceOK
<1>2. PICK s : s = saved'
  OBVIOUS
<1>3. PICK m : m = local'
  OBVIOUS
<1>4. PICK q : q = listen'
  OBVIOUS
<1>5. SUFFICES /\ repair' = "none" => Fits(s)' /\ Fits(m)'
               /\ repair' # "lost" => Fits(q)'
  BY <1>2, <1>3, <1>4 DEF Fits
<1>6. /\ saved \in Token /\ local \in Token /\ listen \in Token /\ NoToken \in Token
      /\ saved <= Version /\ local <= Version /\ listen <= Version /\ NoToken <= Version
  <2>1. NoToken <= Version
    BY <1>0, MessageTypes DEF NoToken, TypeOK, ServerTypes
  <2> QED
    BY <2>1, <1>0 DEF TypeOK, DeviceTypes, MemoryTypes, BoundsKept, TokensKnown, TokenKnown, Token
<1>7. ~crossed => /\ repair = "none" => Fits(saved) /\ Fits(local)
                  /\ repair # "lost" => Fits(listen)
  BY <1>0 DEF TokensFit
<1>8. Fits(NoToken)
  BY <1>0, NothingFits
<1>9. log' = log \/ \E e \in [doc : Docs, live : BOOLEAN] : log' = Append(log, e)
  BY <1>0, StepKinds
<1>10. CASE SameView
  <2>1. ~crossed /\ repair' = repair /\ s = saved /\ m = local /\ q = listen /\ keys' = keys /\ cache' = cache
    BY <1>2, <1>3, <1>4, <1>10 DEF SameView
  <2>2. \A x \in {s, m, q} : Fits(x) => Fits(x)'
    BY <2>1, <1>0, <1>6, <1>9, FitsStays
  <2> QED
    BY <2>1, <2>2, <1>7
<1>11. CASE Released /\ log' = log
  <2>1. /\ ~crossed /\ keys' = keys /\ cache' = cache /\ m = NoToken /\ q = NoToken /\ s \in {saved, local}
        /\ repair' = "none" => repair = "none"
    BY <1>2, <1>3, <1>4, <1>11 DEF Released, BrokenOff
  <2>2. \A x \in {saved, local, NoToken} : Fits(x) => Fits(x)'
    BY <2>1, <1>0, <1>6, <1>9, FitsStays
  <2> QED
    BY <2>1, <2>2, <1>7, <1>8
<1>12. CASE Listen
  <2>1. /\ ~listening /\ s = saved /\ m = saved /\ q = saved /\ keys' = keys /\ cache' = cache
        /\ ~crossed /\ repair' = repair
    BY <1>0, <1>1, <1>2, <1>3, <1>4, <1>12, ListenParts DEF deviceVars, historyVars
  <2>2. PICK x \in Token : x = saved /\ x <= Version
    BY <1>6
  <2>3. repair # "lost" => repair = "none"
    BY <2>1, <1>0 DEF TokenOrNothing, TypeOK, HistoryTypes
  <2>4. Fits(x) => Fits(x)'
    BY <2>1, <2>2, <1>0, <1>9, FitsStays
  <2>5. repair' # "lost" => Fits(x)
    BY <2>1, <2>2, <2>3, <1>7 DEF Fits
  <2>6. s = x /\ m = x /\ q = x
    BY <2>1, <2>2
  <2> QED
    BY <2>4, <2>5, <2>6
<1>13. CASE RaiseSnapshot
  <2>1. PICK t, included, mismatch : /\ Seen(t) /\ Raised(t, included, mismatch)
                                     /\ RaisedTarget(t, included, mismatch) /\ RaisedDevice(t, included)
    BY <1>0, <1>1, <1>13, RaiseParts
  <2>2. /\ ~crossed /\ log' = log /\ listening' = listening
        /\ mismatch => q = NoToken /\ repair' = (IF included THEN "pending" ELSE "lost")
        /\ ~mismatch => /\ repair = "lost" <=> repair' = "lost"
                        /\ repair' = "none" <=> repair = "none" \/ (repair = "pending" /\ included /\ t.current)
                        /\ q = IF included /\ t.token # NoToken THEN t.token ELSE listen
    BY <2>1, <1>0, <1>4, RepairAfter
  <2>3. CASE ~included
    <3>1. /\ keys' = keys /\ s = saved /\ m = local
          /\ \A d \in Docs : cache'[d] = cache[d] \/ (cache'[d] = updates[d] /\ updates[d] >= cache[d])
      BY <2>1, <2>3, <1>0, <1>2, <1>3, SnapshotSkipped
    <3>2. \A x : Fits(x) => Fits(x)'
      BY <3>1, <2>2, <1>0, FitsSkipped DEF BoundsKept
    <3> QED
      BY <3>1, <3>2, <2>2, <2>3, <1>7
  <2>4. CASE included /\ mismatch
    <3>1. repair' = "pending" /\ q = NoToken
      BY <2>2, <2>4
    <3>2. Fits(q)'
      <4>1. (TypeOK => Fits(NoToken))'
        BY NothingFits, PTL
      <4>2. Fits(NoToken)'
        BY <4>1, <1>1
      <4>3. PICK x : x = NoToken
        OBVIOUS
      <4> QED
        BY <4>2, <3>1 DEF Fits, NoToken
    <3> QED
      BY <3>1, <3>2
  <2>5. CASE included /\ ~mismatch /\ repair' # "lost"
    <3>1. PICK v : v = toClient[1].version
      OBVIOUS
    <3>2. Applied(t, v)
      <4>1. repair # "lost" /\ ~crossed
        BY <2>2, <2>5
      <4>2. Clean(included, mismatch)
        BY <2>5 DEF Clean
      <4> QED
        BY <2>1, <4>1, <4>2, <3>1, <1>1, SnapshotApplied
    <3>3. t.token # NoToken /\ t.token \in Token /\ t.token <= v
      BY <3>2 DEF Applied
    <3>4. saved <= v
      <4>1. toClient[1].type = "snapshot" /\ 1 \in 1..Len(toClient)
        BY <2>1 DEF Raised, Shifts
      <4> QED
        BY <4>1, <3>1, <1>0 DEF BoundsKept, TokensKnown, TokenKnown
    <3>5. /\ m = t.token /\ q = t.token
          /\ s = t.token \/ s = saved
      <4>1. RaisedDevice(t, TRUE)
        BY <2>1, <2>5 DEF RaisedDevice
      <4> QED
        BY <4>1, <3>3, <2>2, <2>5, <1>2, <1>3, TokensAfter
    <3>6. \A x \in Token : x <= v => Fits(x)'
      BY <3>2, <2>2, <1>0, <1>1, FitsApplied
    <3> QED
      BY <3>3, <3>4, <3>5, <3>6, <1>6
  <2> QED
    BY <2>2, <2>3, <2>4, <2>5
<1> QED
  BY <1>0, <1>10, <1>11, <1>12, <1>13, StepKinds

(* A device without a token holds nothing, a repair in progress asks from  *)
(* the start, and a query nobody listens to has no state in memory.        *)
LEMMA TokenOrNothingStays == DeviceKnows /\ QueueFits /\ [Next]_vars => TokenOrNothing'
<1> SUFFICES ASSUME DeviceKnows, QueueFits, [Next]_vars PROVE TokenOrNothing'
  OBVIOUS
<1>0. TypeOK /\ QueueOK /\ DeviceOK /\ BoundsKept /\ Emptied
  BY DEF DeviceKnows
<1>1. Base /\ TypeOK'
  BY <1>0, BaseParts, TypeStep DEF DeviceOK
<1>2. /\ local # NoToken => saved # NoToken
      /\ ~crossed /\ repair # "lost" =>
           /\ saved = NoToken => keys = {}
           /\ listening /\ listen = NoToken => keys = {}
      /\ ~crossed /\ repair = "pending" => listening /\ listen = NoToken
      /\ ~listening => local = NoToken /\ listen = NoToken /\ ~view.current
  BY DEF DeviceKnows, TokenOrNothing
<1>3. CASE SameView
  BY <1>2, <1>3 DEF SameView, TokenOrNothing
<1>4. CASE Released
  <2>1. repair' # "lost" => repair = "none"
    BY <1>0, <1>4 DEF Released, BrokenOff, TypeOK, HistoryTypes
  <2>2. repair' # "pending"
    BY <1>0, <1>4 DEF Released, BrokenOff, TypeOK, HistoryTypes
  <2> QED
    BY <1>2, <1>4, <2>1, <2>2 DEF Released, TokenOrNothing
<1>5. CASE Listen
  <2>1. /\ ~listening /\ listening' /\ local' = saved /\ listen' = saved /\ saved' = saved /\ keys' = keys
        /\ repair' = repair /\ crossed' = crossed
    BY <1>0, <1>1, <1>5, ListenParts DEF deviceVars, historyVars
  <2> QED
    BY <2>1, <1>2 DEF TokenOrNothing
<1>6. CASE RaiseSnapshot
  <2>1. PICK t, included, mismatch : /\ Seen(t) /\ Raised(t, included, mismatch)
                                     /\ RaisedTarget(t, included, mismatch) /\ RaisedDevice(t, included)
    BY <1>0, <1>1, <1>6, RaiseParts
  <2>2. /\ crossed' = crossed /\ log' = log /\ listening' = listening
        /\ mismatch => resets /\ listening /\ listen' = NoToken /\ repair' = (IF included THEN "pending" ELSE "lost")
        /\ ~mismatch => /\ repair = "lost" <=> repair' = "lost"
                        /\ repair' = "none" <=> repair = "none" \/ (repair = "pending" /\ included /\ t.current)
                        /\ listen' = IF included /\ t.token # NoToken THEN t.token ELSE listen
        /\ included => Active /\ listening
    BY <2>1, <1>0, RepairAfter
  <2>3. CASE ~included
    <3>1. keys' = keys /\ saved' = saved /\ local' = local /\ view' = view
      BY <2>1, <2>3, <1>0, SnapshotSkipped
    <3>2. CASE mismatch
      <4>1. repair' = "lost" /\ listening'
        BY <2>2, <2>3, <3>2
      <4> QED
        BY <4>1, <3>1, <1>2 DEF TokenOrNothing
    <3>3. CASE ~mismatch
      <4>1. /\ repair = "lost" <=> repair' = "lost"
            /\ repair' = "none" <=> repair = "none"
            /\ listen' = listen /\ crossed' = crossed /\ listening' = listening
        BY <2>2, <2>3, <3>3
      <4>2. repair' = "pending" => repair = "pending"
        BY <4>1, <1>0, <1>1 DEF TypeOK, HistoryTypes
      <4> QED
        BY <4>1, <4>2, <3>1, <1>2 DEF TokenOrNothing
    <3> QED
      BY <3>2, <3>3
  <2>4. CASE included
    <3>0. RaisedDevice(t, TRUE) /\ Active /\ listening /\ listening'
      <4>1. Active /\ listening /\ listening'
        BY <2>2, <2>4
      <4> QED
        BY <4>1, <2>1, <2>4 DEF RaisedDevice
    <3>1. local' # NoToken => saved' # NoToken
      BY <3>0, <1>2, TokensAfter
    <3>2. CASE mismatch
      <4>1. repair' = "pending" /\ listen' = NoToken /\ resets /\ crossed' = crossed
        BY <2>2, <2>4, <3>2
      <4>2. ASSUME ~crossed PROVE keys' = {}
        <5>1. \A d \in Docs : ~Held(d)
          BY <4>1, <4>2, <3>0, <1>0 DEF Emptied
        <5>2. keys' = (keys \ Sort(t, "removed")) \cup Sort(t, "added")
          BY <3>0 DEF RaisedDevice
        <5>3. target.exists /\ target.changes \in [Docs -> Kinds] /\ t.changes = target.changes
          <6>1. target.exists
            BY <4>1, <1>0 DEF DeviceOK, Whole
          <6> QED
            BY <6>1, <2>1, <1>1 DEF Seen, Base, TargetState
        <5>4. \A d \in Docs : Kind(d) = t.changes[d]
          BY <3>0, <5>3 DEF Kind
        <5>5. \A d \in Docs : d \notin keys'
          BY <5>1, <5>2, <5>3, <5>4 DEF Held, Renewed, Sort, Kinds
        <5> QED
          BY <5>5, <1>1 DEF TypeOK, DeviceTypes
      <4> QED
        BY <3>0, <3>1, <4>1, <4>2 DEF TokenOrNothing
    <3>3. CASE ~mismatch /\ ~crossed /\ repair' # "lost"
      <4>1. repair # "lost"
        BY <2>2, <3>3
      <4>2. PICK v : v = toClient[1].version
        OBVIOUS
      <4>3. Clean(included, mismatch)
        BY <2>4, <3>3 DEF Clean
      <4>4. Applied(t, v)
        BY <2>1, <3>3, <4>1, <4>2, <4>3, <1>1, SnapshotApplied
      <4>5. t.current /\ t.token # NoToken
        BY <4>4 DEF Applied
      <4>6. saved' # NoToken
        BY <3>0, <4>5, <1>2, TokensAfter
      <4>7. listen' = t.token
        BY <2>2, <2>4, <3>3, <4>5
      <4>8. repair' = "none"
        <5>1. repair = "none" \/ repair = "pending"
          BY <4>1, <1>0 DEF TypeOK, HistoryTypes
        <5> QED
          BY <5>1, <2>2, <2>4, <3>3, <4>5
      <4> QED
        BY <3>0, <3>1, <4>5, <4>6, <4>7, <4>8 DEF TokenOrNothing
    <3>4. CASE ~mismatch /\ ~(~crossed /\ repair' # "lost")
      BY <3>0, <3>1, <3>4, <2>2 DEF TokenOrNothing
    <3> QED
      BY <3>2, <3>3, <3>4
  <2> QED
    BY <2>3, <2>4
<1> QED
  BY <1>0, <1>3, <1>4, <1>5, <1>6, StepKinds

-----------------------------------------------------------------------------
(* The view.                                                               *)

(* A view that is complete stays complete when nothing is taken in.        *)
LEMMA CompleteStays ==
  ASSUME HistoryKept, keys' = keys, cache' = cache, NEW v \in 0..Version, Complete(v)
  PROVE  Complete(v)'
BY DEF HistoryKept, Complete

(* Updates are always recorded by an active target.                        *)
LEMMA NothingGetsLoose ==
  ASSUME DeviceKnows, [Next]_vars, SameView, ~crossed, listening, NothingLoose
  PROVE  NothingLoose'
<1>0. TypeOK /\ DeviceOK /\ Counted /\ Disconnected
  BY DEF DeviceKnows, DeviceOK
<1>1. Base /\ TypeOK'
  BY <1>0, BaseParts, TypeStep DEF DeviceOK
<1>2. listening'
  BY DEF SameView
<1>3. CASE ClientKept
  BY <1>3 DEF ClientKept, NothingLoose, Active
<1>4. CASE TargetAdded \/ TargetRemoved
  <2>1. PICK type \in Answers : Collected(type) /\ updates' = updates
    BY <1>1, <1>0, <1>4, TargetAddedParts, TargetRemovedParts DEF Answers
  <2>2. Shifts /\ toClient[1].type \in Answers
    BY <2>1 DEF Collected
  <2>3. target.outstanding \in Nat /\ target.outstanding >= 1
    BY <2>2, <1>0, <1>1, AnswerIsAwaited
  <2>4. ~Active
    BY <2>3 DEF Active
  <2> QED
    BY <2>1, <2>4 DEF NothingLoose
<1>5. CASE TargetCurrent
  <2>1. updates' = updates /\ target'.exists /\ target'.outstanding = target.outstanding
    BY <1>0, <1>1, <1>5, TargetCurrentParts
  <2> QED
    BY <2>1, <1>2 DEF NothingLoose, Active
<1>6. CASE TargetReset
  <2>1. updates' = updates /\ target' = IF Active THEN ResetTarget ELSE Ensured
    BY <1>0, <1>1, <1>6, TargetResetParts
  <2> QED
    BY <2>1, <1>2, ResetTargetParts DEF NothingLoose, Active
<1>7. CASE AddDocument \/ RemoveDocument
  <2>1. PICK type \in {"doc", "gone"}, kinds \in [Docs -> Kinds] : HandleDocument(type, kinds)
    BY <1>0, <1>1, <1>7, DocumentParts
  <2>2. /\ ~Active => target' = target /\ updates' = updates
        /\ Active => target'.exists /\ target'.outstanding = target.outstanding
    BY <2>1, <1>0, <1>1, HandleDocumentParts
  <2> QED
    BY <2>2, <1>2 DEF NothingLoose, Active
<1>8. CASE HandleExistenceFilter
  <2>1. /\ updates' = updates
        /\ ~Active => target' = target
        /\ Active => target' = Ensured \/ target' = ResetTarget
    BY <1>0, <1>1, <1>8, FilterParts
  <2>2. Active => target'.exists /\ target'.outstanding = 0
    BY <2>1, <1>1, ResetTargetParts DEF Base, Active
  <2> QED
    BY <2>1, <2>2, <1>2 DEF NothingLoose, Active
<1>9. CASE RaiseSnapshot
  <2>1. updates' = NoUpdates
    BY <1>9 DEF RaiseSnapshot
  <2> QED
    BY <2>1 DEF NothingLoose, NoUpdates
<1>10. CASE ProcessTargetError
  BY <1>0, <1>2, <1>10, ErrorParts DEF ReleaseQuery
<1>11. CASE Listen
  BY <1>11 DEF Listen
<1>12. CASE StopListening
  BY <1>0, <1>1, <1>2, <1>12, StopListeningParts DEF ReleaseQuery
<1>13. CASE WatchStreamDidOpen
  <2>1. ~connected /\ updates' = updates
    BY <1>0, <1>13, OpenParts
  <2> QED
    BY <2>1, <1>0 DEF Disconnected, NothingLoose, NoUpdates
<1>14. CASE Break \/ Crash
  BY <1>14, LostParts DEF NothingLoose, NoUpdates
<1> QED
  BY <1>0, <1>3, <1>4, <1>5, <1>6, <1>7, <1>8, <1>9, <1>10, <1>11, <1>12, <1>13, <1>14, Classified

(* A snapshot makes the view complete, and no other step takes that away.  *)
LEMMA ViewFitsStays == DeviceKnows /\ QueueFits /\ ViewFits /\ [Next]_vars => ViewFits'
<1> SUFFICES ASSUME DeviceKnows, QueueFits, ViewFits, [Next]_vars, Sound', listening', view'.current
             PROVE  Complete(view.at)' /\ NothingLoose'
  BY DEF ViewFits
<1>0. TypeOK /\ QueueOK /\ DeviceOK /\ BoundsKept /\ Recorded
  BY DEF DeviceKnows
<1>1. Base /\ TypeOK' /\ HistoryKept
  BY <1>0, BaseParts, TypeStep, QueueIsCarried DEF DeviceOK
<1>2. repair' = "none" /\ ~crossed'
  BY DEF Sound
<1>3. PICK a : a = view'.at
  OBVIOUS
<1>4. SUFFICES Complete(a)' /\ NothingLoose'
  BY <1>3 DEF Complete, Live, Lives, LastWrite
<1>5. view.at \in 0..Version
  BY <1>0, MessageTypes DEF TypeOK, ServerTypes, MemoryTypes, BoundsKept, ContentsKnown
<1>6. CASE SameView
  <2>1. ~crossed /\ repair = "none" /\ listening /\ view.current /\ a = view.at /\ keys' = keys /\ cache' = cache
    BY <1>2, <1>3, <1>6 DEF SameView
  <2>2. Complete(a) /\ NothingLoose
    BY <2>1 DEF ViewFits, Sound
  <2>3. Complete(a)'
    BY <2>1, <2>2, <1>1, <1>5, CompleteStays
  <2> QED
    BY <2>1, <2>2, <2>3, <1>6, NothingGetsLoose
<1>7. CASE Released
  BY <1>7 DEF Released
<1>8. CASE Listen
  BY <1>0, <1>1, <1>8, ListenParts
<1>9. CASE RaiseSnapshot
  <2>1. PICK t, included, mismatch : /\ Seen(t) /\ Raised(t, included, mismatch)
                                     /\ RaisedTarget(t, included, mismatch) /\ RaisedDevice(t, included)
    BY <1>0, <1>1, <1>9, RaiseParts
  <2>2. /\ crossed' = crossed /\ log' = log /\ listening' = listening
        /\ mismatch => resets /\ listening /\ listen' = NoToken /\ repair' = (IF included THEN "pending" ELSE "lost")
        /\ ~mismatch => /\ repair = "lost" <=> repair' = "lost"
                        /\ repair' = "none" <=> repair = "none" \/ (repair = "pending" /\ included /\ t.current)
                        /\ listen' = IF included /\ t.token # NoToken THEN t.token ELSE listen
        /\ included => Active /\ listening
    BY <2>1, <1>0, RepairAfter
  <2>3. NothingLoose'
    <3>1. updates' = NoUpdates
      BY <1>9 DEF RaiseSnapshot
    <3> QED
      BY <3>1 DEF NothingLoose, NoUpdates
  <2>4. ~mismatch
    BY <2>2, <1>2
  <2>5. CASE ~included
    <3>1. keys' = keys /\ view' = view /\ (updates = NoUpdates => cache' = cache)
      BY <2>1, <2>5, <1>0, SnapshotSkipped
    <3>2. repair = "none" /\ ~crossed /\ listening /\ view.current
      BY <2>2, <2>4, <2>5, <3>1, <1>2
    <3>3. Complete(view.at) /\ NothingLoose
      BY <3>2 DEF ViewFits, Sound
    <3>4. updates = NoUpdates
      <4>1. CASE Active /\ target.exists
        <5>1. (included <=> Active /\ t.exists /\ t.pending) /\ (t.exists <=> target.exists)
              /\ (target.pending /\ t.exists => t.pending)
          BY <2>1 DEF Raised, Seen
        <5>2. ~target.pending
          BY <5>1, <4>1, <2>5
        <5> QED
          BY <5>2, <4>1, <3>2, <1>0 DEF Recorded
      <4>2. CASE ~(Active /\ target.exists)
        BY <4>2, <3>3 DEF NothingLoose
      <4> QED
        BY <4>1, <4>2
    <3>5. Complete(a)'
      BY <3>1, <3>3, <3>4, <1>1, <1>3, <1>5, CompleteStays
    <3> QED
      BY <3>5, <2>3
  <2>6. CASE included
    <3>1. repair # "lost" /\ ~crossed
      BY <2>2, <2>4, <1>2
    <3>2. PICK v : v = toClient[1].version
      OBVIOUS
    <3>3. Clean(included, mismatch)
      BY <2>4, <2>6 DEF Clean
    <3>4. Applied(t, v)
      BY <2>1, <3>1, <3>2, <3>3, <1>1, SnapshotApplied
    <3>5. a = v
      BY <2>1, <2>6, <3>2, <1>3 DEF RaisedDevice
    <3>6. /\ \A d : LastWrite(d, v)' = LastWrite(d, v)
          /\ Live(v)' = Live(v)
      BY <2>2, SameHistory
    <3>7. keys' \subseteq Docs
      BY <1>1 DEF TypeOK, DeviceTypes
    <3>8. keys' = Live(v) /\ \A d \in keys' : cache'[d] = LastWrite(d, v)
      BY <3>4, <3>7 DEF Applied, Live
    <3>9. Complete(v)'
      BY <3>6, <3>8 DEF Complete
    <3> QED
      BY <3>5, <3>9, <2>3
  <2> QED
    BY <2>5, <2>6
<1> QED
  BY <1>0, <1>6, <1>7, <1>8, <1>9, StepKinds

-----------------------------------------------------------------------------
(* The theorems.                                                           *)

(* The start has the types.                                                *)
LEMMA TypeInit == Init => TypeOK
<1> SUFFICES ASSUME Init PROVE TypeOK
  OBVIOUS
<1>1. ServerTypes /\ HistoryTypes
  <2>1. Log
    BY EmptySequence DEF Init, Log
  <2>2. watched \in [on : BOOLEAN, sent : Nat]
    BY DEF Init
  <2> QED
    BY <2>1, <2>2 DEF Init, ServerTypes, HistoryTypes
<1>2. DeviceTypes /\ MemoryTypes
  BY NewTargetType DEF Init, DeviceTypes, MemoryTypes, Token
<1>3. StreamTypes
  <2>1. toServer \in Seq(Requests) /\ toClient \in Seq(Messages)
    BY EmptySequence DEF Init
  <2> QED
    BY <2>1, NewTargetType DEF Init, StreamTypes
<1> QED
  BY <1>1, <1>2, <1>3 DEF TypeOK

(* At the start nothing is written, under way, stored or listened to.      *)
LEMMA InitHolds == Init => WatchInvariant
<1> SUFFICES ASSUME Init PROVE WatchInvariant
  OBVIOUS
<1>1. TypeOK
  BY TypeInit
<1>2. Len(log) = 0 /\ Len(toClient) = 0 /\ Version = 0
  BY DEF Init, Version
<1>3. 1..Len(toClient) = {}
  BY <1>2
<1>4. QueueOK
  BY <1>2, <1>3 DEF Init, QueueOK, BatchesEnd, FiltersCount, ContentsBound, VersionsBound, VersionsGrow
<1>5. DeviceOK
  BY DEF Init, DeviceOK, AbsentIsEmpty, Disconnected, PendingFlush, Whole, NoTarget
<1>6. \A d \in Docs : LastWrite(d, Version) = 0
  <2>1. Log /\ 0 \in Nat
    BY <1>1 DEF TypeOK, ServerTypes
  <2>2. PICK n \in Nat : n = 0
    OBVIOUS
  <2>3. \A d \in Docs : LastWrite(d, n) \in 0..n
    BY <2>1, LastWriteIs
  <2> QED
    BY <1>2, <2>2, <2>3
<1>7. BoundsKept
  <2>1. TokenKnown(NoToken)
    BY <1>2, <1>3 DEF TokenKnown, NoToken
  <2>2. TokensKnown
    BY <2>1 DEF Init, TokensKnown, NoTarget
  <2>3. ContentsKnown
    BY <1>2, <1>6 DEF Init, ContentsKnown, NoUpdates
  <2> QED
    BY <2>2, <2>3 DEF BoundsKept
<1>8. Counted /\ Asked /\ Recorded /\ Emptied
  BY DEF Init, Counted, Asked, Recorded, Emptied, Active
<1>9. TokensFit /\ TokenOrNothing
  <2>1. Fits(NoToken)
    BY <1>1, NothingFits
  <2> QED
    BY <2>1 DEF Init, TokensFit, TokenOrNothing
<1>10. QueueFits /\ ViewFits
  BY DEF Init, QueueFits, Following, ViewFits
<1> QED
  BY <1>1, <1>4, <1>5, <1>7, <1>8, <1>9, <1>10 DEF WatchInvariant, DeviceKnows

(* Every step keeps the invariant.                                         *)
LEMMA InvariantStays == WatchInvariant /\ [Next]_vars => WatchInvariant'
<1> SUFFICES ASSUME WatchInvariant, [Next]_vars PROVE WatchInvariant'
  OBVIOUS
<1>1. DeviceKnows /\ QueueFits /\ ViewFits
  BY DEF WatchInvariant
<1>2. TypeOK /\ QueueOK /\ DeviceOK /\ BoundsKept /\ Counted /\ Asked /\ Recorded /\ Emptied
  BY <1>1 DEF DeviceKnows
<1>3. TypeOK' /\ QueueOK' /\ DeviceOK' /\ BoundsKept'
  BY <1>2, TypeStep, QueueStaysOK, DeviceStays, BoundsStay
<1>4. Counted' /\ Asked' /\ Recorded' /\ Emptied'
  BY <1>2, CountsStay, AskedStays, RecordedStays, EmptiedStays
<1>5. TokensFit' /\ TokenOrNothing' /\ QueueFits' /\ ViewFits'
  BY <1>1, TokensFitStay, TokenOrNothingStays, QueueFitsStays, ViewFitsStays
<1> QED
  BY <1>3, <1>4, <1>5 DEF WatchInvariant, DeviceKnows

(* The invariant holds in every state.                                     *)
LEMMA InvariantHolds == Spec => []WatchInvariant
BY InitHolds, InvariantStays, PTL DEF Spec

(* What is stored, kept in memory, collected and under way has its type,   *)
(* for any finite collection: the aggregator (FSTRemoteEvent.mm) never     *)
(* records a change for a target it lost.                                  *)
THEOREM TypeCorrect == Spec => []TypeOK
<1>1. WatchInvariant => TypeOK
  BY DEF WatchInvariant, DeviceKnows
<1> QED
  BY <1>1, InvariantHolds, PTL

(* A query that is marked current is the collection at the version of its  *)
(* last snapshot: what the aggregator collects, the filters, resets and    *)
(* repairs, and the tokens with which the device asks leave no document    *)
(* out, none too many and none with old contents.                          *)
THEOREM CurrentQueriesComplete == Spec => []CurrentIsComplete
<1>1. WatchInvariant => CurrentIsComplete
  BY DEF WatchInvariant, ViewFits, CurrentIsComplete, Complete
<1> QED
  BY <1>1, InvariantHolds, PTL

(* The resume tokens the device keeps, on disk, in the local store and in  *)
(* the remote store, stand for keys that are right about everything that   *)
(* was not written since.                                                  *)
THEOREM TokensFitKeys == Spec => []TokenFitsKeys
<1>1. ASSUME WatchInvariant PROVE TokenFitsKeys
  <2>1. TokensFit
    BY <1>1 DEF WatchInvariant, DeviceKnows
  <2>2. Sound => Fits(saved) /\ Fits(local) /\ Fits(listen)
    BY <2>1 DEF TokensFit, Sound
  <2> QED
    BY <2>2 DEF TokenFitsKeys, Fits
<1> QED
  BY <1>1, InvariantHolds, PTL
=============================================================================
