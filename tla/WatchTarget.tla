---------------------------- MODULE WatchTarget ----------------------------
(***************************************************************************)
(* One query of the app between the server and the device: the messages of *)
(* the watch stream, the aggregator that collects them until a consistent  *)
(* snapshot (FSTRemoteEvent.mm, FSTRemoteStore.mm), and what the local     *)
(* store keeps for the next launch: the documents, the keys that match and *)
(* the resume token from which the server continues (FSTLocalStore.mm).    *)
(*                                                                         *)
(* The client runs on one queue; each action of it is one operation of     *)
(* that queue with all the calls it makes.  The stream carries requests    *)
(* and messages in order and loses what is under way when it breaks        *)
(* (RemoteStore has the life of the stream itself).  A version is a number *)
(* of writes; a document's contents are the version of its last write.     *)
(***************************************************************************)
EXTENDS Integers, SequencesExt

CONSTANTS
  Docs,        \* keys of the collection
  Faults,      \* what may happen besides: breaks, crashes, resets, rejections
  MaxWrites,   \* bound: writes to the collection
  MaxListens,  \* bound: listens of the app
  MaxFaults    \* bound: faults

ASSUME BoundsOK == /\ IsFiniteSet(Docs)
                   /\ {MaxWrites, MaxListens, MaxFaults} \subseteq Nat
                   /\ Faults \subseteq {"break", "crash", "reset", "reject"}

VARIABLES
  log,        \* server: the writes, [doc, live]
  watched,    \* server: the client's target, [on, sent]: told up to version sent
  toServer,   \* requests under way, [type, token]
  toClient,   \* messages under way
  connected,  \* the watch stream is open
  saved,      \* device: the resume token of the query, a version or NoToken
  keys,       \* device: keys that match the query; the view holds the same
  cache,      \* device: the version known of each document, 0 for none
  listening,  \* the app listens to the query
  local,      \* FSTLocalStore.targetIDs: its resume token
  listen,     \* FSTRemoteStore.listenTargets: its resume token
  view,       \* FSTView: [current, at]: marked current, last snapshot taken in
  target,     \* FSTTargetState, or NoTarget
  updates,    \* _pendingDocumentUpdates: a version of each document, 0 for none
  resets,     \* _pendingTargetResets holds the target
  repair,     \* history: "none", "pending" after a mismatch, "lost" if broken off
  crossed,    \* history: a listen was rejected while requests were under way
  spent       \* history: [listens, faults]

serverVars == <<log, watched>>
deviceVars == <<saved, keys, cache>>
memoryVars == <<listening, local, listen, view>>
streamVars == <<connected, toServer, toClient, target, updates, resets>>
historyVars == <<repair, crossed>>
vars == <<serverVars, deviceVars, memoryVars, streamVars, historyVars, spent>>

NoToken == -1
NoTarget == [outstanding |-> 0, exists |-> FALSE]
NewTarget == [exists |-> TRUE, outstanding |-> 0, current |-> FALSE, token |-> NoToken,
              changes |-> [d \in Docs |-> "none"], pending |-> TRUE]
NoUpdates == [d \in Docs |-> 0]

-----------------------------------------------------------------------------
(* The collection at a version.                                            *)

Version == Len(log)
LastWrite(d, v) == Max({0} \cup {i \in 1..v : log[i].doc = d})
Lives(d, v) == LastWrite(d, v) # 0 /\ log[LastWrite(d, v)].live
Live(v) == {d \in Docs : Lives(d, v)}

Write(d, live) ==
  /\ Version < MaxWrites
  /\ live \/ Lives(d, Version)
  /\ log' = Append(log, [doc |-> d, live |-> live])
  /\ UNCHANGED <<watched, deviceVars, memoryVars, streamVars, historyVars, spent>>

-----------------------------------------------------------------------------
(* The messages of the server.                                             *)

DocumentChange(d) ==
  [type |-> IF Lives(d, Version) THEN "doc" ELSE "gone", doc |-> d, version |-> LastWrite(d, Version)]
TargetChange(type, token) == [type |-> type, token |-> token]
Filter == [type |-> "filter", count |-> Cardinality(Live(Version))]
Snapshot(token) == [type |-> "snapshot", version |-> Version, token |-> token]

(* The documents that changed after version v.  Of those that died, the    *)
(* server may know only that there are some: then it does not name them    *)
(* and sends the number of documents that match.                           *)
Changed(v) == {d \in Docs : LastWrite(d, Version) > v}
Died(v) == IF v = NoToken THEN {} ELSE Changed(v) \ Live(Version)
Named(v, exact) == (Changed(v) \cap Live(Version)) \cup (IF exact THEN Died(v) ELSE {})
Documents(S) == [i \in DOMAIN SetToSeq(S) |-> DocumentChange(SetToSeq(S)[i])]
Exactness(v) == IF Died(v) = {} THEN {TRUE} ELSE BOOLEAN
FilterUnless(exact) == IF exact THEN <<>> ELSE <<Filter>>
Update(first, S, marks, exact, token) ==
  first \o Documents(S) \o marks \o FilterUnless(exact) \o <<Snapshot(token)>>

Tell(messages) ==
  /\ toClient' = toClient \o messages
  /\ watched' = [on |-> TRUE, sent |-> Version]
  /\ UNCHANGED <<log, deviceVars, memoryVars, connected, target, updates, resets, historyVars>>

AnswerWatch(exact) ==
  /\ toServer # <<>> /\ Head(toServer).type = "watch"
  /\ LET v == Head(toServer).token IN
       /\ exact \in Exactness(v)
       /\ Tell(Update(<<TargetChange("added", NoToken)>>, Named(v, exact),
                      <<TargetChange("current", Version)>>, exact, NoToken))
  /\ toServer' = Tail(toServer)
  /\ UNCHANGED spent

AnswerUnwatch ==
  /\ toServer # <<>> /\ Head(toServer).type = "unwatch"
  /\ toServer' = Tail(toServer)
  /\ toClient' = Append(toClient, TargetChange("removed", NoToken))
  /\ watched' = [watched EXCEPT !.on = FALSE]
  /\ UNCHANGED <<log, deviceVars, memoryVars, connected, target, updates, resets, historyVars, spent>>

Push(exact, token) ==
  /\ watched.on /\ watched.sent < Version
  /\ exact \in Exactness(watched.sent)
  /\ Tell(Update(<<>>, Named(watched.sent, exact), <<>>, exact, token))
  /\ UNCHANGED <<toServer, spent>>

Fault(kind) ==
  /\ kind \in Faults
  /\ spent.faults < MaxFaults
  /\ spent' = [spent EXCEPT !.faults = @ + 1]

ResetByServer ==
  /\ Fault("reset")
  /\ watched.on
  /\ Tell(Update(<<TargetChange("reset", NoToken)>>, Live(Version),
                 <<TargetChange("current", Version)>>, TRUE, NoToken))
  /\ UNCHANGED toServer

RejectByServer ==
  /\ Fault("reject")
  /\ watched.on
  /\ watched' = [watched EXCEPT !.on = FALSE]
  /\ toClient' = Append(toClient, TargetChange("rejected", NoToken))
  /\ UNCHANGED <<log, deviceVars, memoryVars, connected, toServer, target, updates, resets, historyVars>>

-----------------------------------------------------------------------------
(* The aggregator.  A target with answers outstanding is not active: what  *)
(* arrives for it belongs to an earlier listen.                            *)

(* Slip: messages of an earlier listen count as well.                      *)
Active_Early == listening

Active == listening /\ target.outstanding = 0
Ensured == IF target.exists THEN target ELSE NewTarget
Request(t, n) == [t EXCEPT !.outstanding = @ + n]
Respond == [Ensured EXCEPT !.outstanding = @ - 1]
Cleared(t) == [t EXCEPT !.pending = FALSE, !.changes = [d \in Docs |-> "none"]]
WithToken(t, token) == IF token = NoToken THEN t ELSE [t EXCEPT !.pending = TRUE, !.token = token]
Record(t, d, kind) == [t EXCEPT !.pending = TRUE, !.changes[d] = kind]
(* Slip: the keys of before are not taken out.                             *)
ResetTarget_KeepsKeys == NewTarget

ResetTarget == [NewTarget EXCEPT !.changes = [d \in Docs |-> IF d \in keys THEN "removed" ELSE "none"]]
Sort(t, kind) == {d \in Docs : t.changes[d] = kind}
CurrentCount(t) == Cardinality(keys) + Cardinality(Sort(t, "added")) - Cardinality(Sort(t, "removed"))

Take(type) ==
  /\ toClient # <<>> /\ Head(toClient).type = type
  /\ toClient' = Tail(toClient)

Collect(type) ==
  /\ Take(type)
  /\ UNCHANGED <<serverVars, deviceVars, memoryVars, connected, toServer, historyVars, spent>>

TargetAdded ==
  /\ Collect("added")
  /\ target' = IF Respond.outstanding = 0 THEN Cleared(Respond) ELSE Respond
  /\ UNCHANGED <<updates, resets>>

TargetRemoved ==
  /\ Collect("removed")
  /\ target' = IF Respond.outstanding = 0 THEN NoTarget ELSE Respond
  /\ UNCHANGED <<updates, resets>>

TargetCurrent ==
  /\ Collect("current")
  /\ target' = IF Active THEN WithToken([Ensured EXCEPT !.current = TRUE, !.pending = TRUE], Head(toClient).token)
               ELSE Ensured
  /\ UNCHANGED <<updates, resets>>

TargetReset ==
  /\ Collect("reset")
  /\ target' = IF Active THEN ResetTarget ELSE Ensured
  /\ UNCHANGED <<updates, resets>>

HandleDocument(type, kindOf) ==
  /\ Collect(type)
  /\ LET d == Head(toClient).doc IN
       IF Active
       THEN /\ target' = Record(Ensured, d, kindOf[d])
            /\ updates' = [updates EXCEPT ![d] = Head(toClient).version]
       ELSE UNCHANGED <<target, updates>>
  /\ UNCHANGED resets

AddDocument == HandleDocument("doc", [d \in Docs |-> IF d \in keys THEN "modified" ELSE "added"])
RemoveDocument == HandleDocument("gone", [d \in Docs |-> IF d \in keys THEN "removed" ELSE "none"])

HandleExistenceFilter ==
  /\ Collect("filter")
  /\ LET mismatch == Active /\ CurrentCount(Ensured) # Head(toClient).count IN
       /\ target' = IF mismatch THEN ResetTarget ELSE IF Active THEN Ensured ELSE target
       /\ resets' = (resets \/ mismatch)
  /\ UNCHANGED updates

-----------------------------------------------------------------------------
(* A consistent snapshot is applied to the device and shown.               *)

Watch(token) == [type |-> "watch", token |-> token]
Unwatch == [type |-> "unwatch", token |-> NoToken]

(* The token is written to the device when there was none or something     *)
(* changed with it; otherwise only when the last one is five minutes old.  *)
SavedTokens(t) ==
  IF t.token = NoToken THEN {saved}
  ELSE IF local = NoToken \/ t.changes # NewTarget.changes THEN {t.token} ELSE {saved, t.token}

ApplyToDevice(t, version) ==
  /\ keys' = (keys \ Sort(t, "removed")) \cup Sort(t, "added")
  /\ saved' \in SavedTokens(t)
  /\ local' = IF t.token = NoToken THEN local ELSE t.token
  /\ view' = [current |-> t.current, at |-> version]

ApplyUpdates(authoritative) ==
  cache' = [d \in Docs |->
              IF updates[d] # 0 /\ (d \in authoritative \/ updates[d] >= cache[d])
              THEN updates[d] ELSE cache[d]]

RaiseSnapshot ==
  /\ Take("snapshot")
  /\ LET m == Head(toClient)
         t == IF Active /\ target.exists THEN WithToken(target, m.token) ELSE target
         included == Active /\ t.exists /\ t.pending
         mismatch == resets /\ listening
         cleared == IF included THEN Cleared(t) ELSE t
     IN  /\ IF included
            THEN ApplyToDevice(t, m.version) /\ ApplyUpdates(Sort(t, "added") \cup Sort(t, "modified"))
            ELSE ApplyUpdates({}) /\ UNCHANGED <<keys, saved, local, view>>
         /\ listen' = IF mismatch THEN NoToken ELSE IF included /\ t.token # NoToken THEN t.token ELSE listen
         /\ target' = IF mismatch THEN Request(cleared, 2) ELSE cleared
         /\ toServer' = IF mismatch THEN toServer \o <<Unwatch, Watch(NoToken)>> ELSE toServer
         /\ repair' = CASE mismatch -> IF included THEN "pending" ELSE "lost"
                        [] ~mismatch /\ repair = "pending" /\ included /\ t.current -> "none"
                        [] OTHER -> repair
  /\ updates' = NoUpdates /\ resets' = FALSE
  /\ UNCHANGED <<serverVars, listening, connected, crossed, spent>>

-----------------------------------------------------------------------------
(* Listens come and go.                                                    *)

BrokenOff == IF repair = "pending" THEN "lost" ELSE repair

Listen ==
  /\ ~listening /\ spent.listens < MaxListens
  /\ spent' = [spent EXCEPT !.listens = @ + 1]
  /\ listening' = TRUE /\ local' = saved /\ listen' = saved
  /\ view' = [current |-> FALSE, at |-> 0]
  /\ IF connected
     THEN target' = Request(Ensured, 1) /\ toServer' = Append(toServer, Watch(saved))
     ELSE UNCHANGED <<target, toServer>>
  /\ UNCHANGED <<serverVars, deviceVars, connected, toClient, updates, resets, historyVars>>

(* What the local store and the view forget when a listen ends: a newer    *)
(* token is written down.                                                  *)
ReleaseQuery ==
  /\ saved' = IF local > saved THEN local ELSE saved
  /\ listening' = FALSE /\ local' = NoToken /\ listen' = NoToken
  /\ view' = [current |-> FALSE, at |-> 0]
  /\ repair' = BrokenOff
  /\ UNCHANGED <<keys, cache>>

StopListening ==
  /\ listening
  /\ ReleaseQuery
  /\ IF connected
     THEN target' = Request(Ensured, 1) /\ toServer' = Append(toServer, Unwatch)
     ELSE UNCHANGED <<target, toServer>>
  /\ UNCHANGED <<serverVars, connected, toClient, updates, resets, crossed, spent>>

ProcessTargetError ==
  /\ Take("rejected")
  /\ IF listening
     THEN ReleaseQuery /\ target' = NoTarget /\ crossed' = (crossed \/ target.outstanding # 0)
     ELSE UNCHANGED <<deviceVars, memoryVars, target, historyVars>>
  /\ UNCHANGED <<serverVars, connected, toServer, updates, resets, spent>>

CleanUpWatchStreamState ==
  /\ connected' = FALSE /\ toServer' = <<>> /\ toClient' = <<>>
  /\ target' = NoTarget /\ updates' = NoUpdates /\ resets' = FALSE
  /\ watched' = [watched EXCEPT !.on = FALSE]

Break ==
  /\ Fault("break")
  /\ connected
  /\ CleanUpWatchStreamState
  /\ UNCHANGED <<log, deviceVars, memoryVars, historyVars>>

(* Slip: the listens of before are not restored.                           *)
WatchStreamDidOpen_Silent ==
  /\ ~connected /\ connected' = TRUE
  /\ UNCHANGED <<serverVars, deviceVars, memoryVars, toServer, toClient, target, updates, resets,
                 historyVars, spent>>

WatchStreamDidOpen ==
  /\ ~connected /\ connected' = TRUE
  /\ IF listening
     THEN target' = Request(NewTarget, 1) /\ toServer' = <<Watch(listen)>>
     ELSE UNCHANGED <<target, toServer>>
  /\ UNCHANGED <<serverVars, deviceVars, memoryVars, toClient, updates, resets, historyVars, spent>>

(* Without a connection the online state becomes Offline sooner or later.  *)
WentOffline ==
  /\ ~connected /\ view.current
  /\ view' = [view EXCEPT !.current = FALSE]
  /\ UNCHANGED <<serverVars, deviceVars, listening, local, listen, streamVars, historyVars, spent>>

Crash ==
  /\ Fault("crash")
  /\ CleanUpWatchStreamState
  /\ listening' = FALSE /\ local' = NoToken /\ listen' = NoToken
  /\ view' = [current |-> FALSE, at |-> 0]
  /\ repair' = BrokenOff
  /\ UNCHANGED <<log, deviceVars, crossed>>

-----------------------------------------------------------------------------
Init ==
  /\ log = <<>> /\ watched = [on |-> FALSE, sent |-> 0]
  /\ saved = NoToken /\ keys = {} /\ cache = NoUpdates
  /\ listening = FALSE /\ local = NoToken /\ listen = NoToken /\ view = [current |-> FALSE, at |-> 0]
  /\ connected = FALSE /\ toServer = <<>> /\ toClient = <<>>
  /\ target = NoTarget /\ updates = NoUpdates /\ resets = FALSE
  /\ repair = "none" /\ crossed = FALSE
  /\ spent = [listens |-> 0, faults |-> 0]

Serve == \/ AnswerUnwatch
         \/ \E exact \in BOOLEAN : AnswerWatch(exact)
         \/ \E exact \in BOOLEAN, token \in {NoToken, Version} : Push(exact, token)

Receive ==
  \/ TargetAdded \/ TargetRemoved \/ TargetCurrent \/ TargetReset
  \/ AddDocument \/ RemoveDocument \/ HandleExistenceFilter
  \/ RaiseSnapshot \/ ProcessTargetError

Next ==
  \/ \E d \in Docs, live \in BOOLEAN : Write(d, live)
  \/ Serve \/ Receive
  \/ ResetByServer \/ RejectByServer
  \/ Listen \/ StopListening
  \/ Break \/ WatchStreamDidOpen \/ WentOffline \/ Crash

Spec == Init /\ [][Next]_vars

(* The server answers and tells what changed, the queue takes messages in, *)
(* and a stream that is needed is opened.                                  *)
FairSpec == Spec /\ WF_vars(Serve) /\ WF_vars(Receive) /\ WF_vars(WatchStreamDidOpen)

-----------------------------------------------------------------------------
Sound == repair = "none" /\ ~crossed

(* A query that is marked current is the collection at the version of its  *)
(* last snapshot: its keys are those that live, and each document has the  *)
(* contents of that version, whatever listens, breaks, crashes, resets and *)
(* filters came before.                                                    *)
CurrentIsComplete ==
  Sound /\ listening /\ view.current =>
    /\ keys = Live(view.at)
    /\ \A d \in keys : cache[d] = LastWrite(d, view.at)

(* A resume token stands for the keys that are stored: of what has not     *)
(* changed since its version they are right, so that the changes since     *)
(* then, which is all the server will send, make them complete.            *)
TokenFitsKeys ==
  Sound => \A t \in {saved, local, listen} \ {NoToken} : \A d \in Docs :
             LastWrite(d, Version) <= t => (d \in keys <=> Lives(d, Version))

(* A listen that stays catches up with the collection, unless a repair was *)
(* broken off or a rejection hit the wrong listen.                         *)
CatchesUp ==
  <>[]listening =>
    <>[](repair = "lost" \/ crossed \/ (view.current /\ keys = Live(Version)))

(* A mismatch is repaired by a full update: "Clear the resume token for    *)
(* the query, since we're in a known mismatch state" (FSTRemoteStore.mm,   *)
(* line 395).  A query that is marked current then lacks no document.      *)
MismatchIsRepaired == listening /\ view.current /\ ~crossed => Live(view.at) \subseteq keys
=============================================================================
