----------------------------- MODULE RemoteStore -----------------------------
(***************************************************************************)
(* The watch side of the Firestore SDK: the listens of the app             *)
(* (FSTRemoteStore.mm), the stream that carries them to the server         *)
(* (stream.mm, watch_stream.mm with exponential_backoff.cc) and the online *)
(* state the app's snapshots are marked with (FSTOnlineStateTracker.mm).   *)
(*                                                                         *)
(* Everything runs on the worker queue, one operation at a time: calls of  *)
(* the app, tokens that arrive, timers that elapse, and what the gRPC      *)
(* stream tells (module GrpcStream).  Calls between the three objects are  *)
(* synchronous and nested, so each operation is one action, composed of    *)
(* operators that take the record of an object and return it changed.      *)
(***************************************************************************)
EXTENDS Naturals

CONSTANTS Targets,      \* ids of the queries the app may listen to
          InitialDelay, \* kBackoffInitialDelay
          MaxDelay,     \* kBackoffMaxDelay
          MaxFailures,  \* kMaxWatchStreamFailures
          MaxStale      \* bound: tokens under way for attempts that were closed

ASSUME DelayAssumption == /\ InitialDelay \in Nat /\ MaxDelay \in Nat
                          /\ 0 < InitialDelay /\ InitialDelay <= MaxDelay
ASSUME CountAssumption == MaxFailures \in Nat \ {0} /\ MaxStale \in Nat

VARIABLES
  stream,        \* the watch stream
  tracker,       \* the online state tracker
  listenTargets, \* targets the app listens to
  enabled,       \* _isNetworkEnabled
  aggregator,    \* _watchChangeAggregator is set
  stale          \* tokens asked for before the last close

vars == <<stream, tracker, listenTargets, enabled, aggregator, stale>>

States == {"Initial", "Starting", "Open", "Error", "Backoff"}
Statuses == {"ok", "unavailable", "exhausted", "unauthenticated"}

\* token: a token was asked for under the present close count; delay: the base of the backoff
\* that was last scheduled; requested: targets whose last watch on this connection was neither
\* unwatched nor rejected.  History: former, targets with an earlier watch on this connection,
\* whose rejection may still arrive; crossed, targets whose listen such a rejection ended while
\* the later watch stayed at the server; answered, the connection carried a message; errors,
\* failed attempts since the last message or stop, up to 2; ok, no HARD_ASSERT has failed.
Streams == [state : States, token : BOOLEAN, idleTimer : BOOLEAN, backoffTimer : BOOLEAN,
            base : 0 .. MaxDelay, delay : 0 .. MaxDelay, refresh : BOOLEAN,
            requested : SUBSET Targets, former : SUBSET Targets, crossed : SUBSET Targets,
            answered : BOOLEAN, errors : 0 .. 2, ok : BOOLEAN]

Trackers == [state : {"Unknown", "Online", "Offline"}, failures : 0 .. MaxFailures,
             timer : BOOLEAN, ok : BOOLEAN]

-------------------------------------------------------------------------------
(* FSTOnlineStateTracker *)

HandleWatchStreamStart(tr) ==
  IF tr.failures = 0
  THEN [tr EXCEPT !.state = "Unknown", !.timer = TRUE, !.ok = @ /\ ~tr.timer]
  ELSE tr

\* failures stops counting at MaxFailures: beyond it nothing depends on the number.
HandleWatchStreamFailure(tr) ==
  IF tr.state = "Online"
  THEN [tr EXCEPT !.state = "Unknown", !.ok = @ /\ tr.failures = 0 /\ ~tr.timer]
  ELSE IF tr.failures + 1 >= MaxFailures
  THEN [tr EXCEPT !.failures = MaxFailures, !.timer = FALSE, !.state = "Offline"]
  ELSE [tr EXCEPT !.failures = @ + 1]

UpdateState_CountStays(tr, state) == [tr EXCEPT !.timer = FALSE, !.state = state]

UpdateState(tr, state) ==
  [tr EXCEPT !.timer = FALSE, !.failures = 0, !.state = state]

-------------------------------------------------------------------------------
(* Stream and WatchStream *)

IsOpen(s) == s.state = "Open"
IsStarted(s) == s.state \in {"Starting", "Backoff", "Open"}

\* The next base: half as much again, within the bounds (ClampDelay).
NextBase(base) ==
  LET grown == (base * 3) \div 2 IN
  IF grown < InitialDelay THEN InitialDelay ELSE IF grown > MaxDelay THEN MaxDelay ELSE grown

\* The timer runs for the present base, zero included, with jitter; then the base grows.
BackoffAndTryRestarting(s) ==
  [s EXCEPT !.state = "Backoff", !.backoffTimer = TRUE, !.delay = s.base, !.base = NextBase(@)]

RequestCredentials(s) == [s EXCEPT !.token = TRUE, !.refresh = FALSE]

Start(s) ==
  IF s.state = "Error"
  THEN BackoffAndTryRestarting(s)
  ELSE RequestCredentials([s EXCEPT !.state = "Starting", !.ok = @ /\ s.state = "Initial"])

MarkIdle(s) == IF IsOpen(s) THEN [s EXCEPT !.idleTimer = TRUE] ELSE s

WatchQuery_StaysIdle(s, t) ==
  [s EXCEPT !.ok = @ /\ IsOpen(s), !.requested = @ \cup {t},
            !.former = @ \cup ({t} \cap s.requested), !.crossed = @ \ {t}]

\* WatchQuery and UnwatchTargetId: every request cancels the idle check.
WatchQuery(s, t) ==
  [s EXCEPT !.ok = @ /\ IsOpen(s), !.idleTimer = FALSE, !.requested = @ \cup {t},
            !.former = @ \cup ({t} \cap s.requested), !.crossed = @ \ {t}]

UnwatchTargetId(s, t) ==
  [s EXCEPT !.ok = @ /\ IsOpen(s), !.idleTimer = FALSE,
            !.requested = @ \ {t}, !.former = @ \cup {t}]

\* HandleErrorStatus, or the Reset of a graceful stop: the base of the next backoff.
BaseAfter(s, status) == IF status = "ok" THEN 0 ELSE IF status = "exhausted" THEN MaxDelay ELSE s.base

\* Close up to the call of the listener; the token that is under way becomes stale.
Closed(s, status) ==
  [s EXCEPT !.ok = @ /\ IsStarted(s), !.idleTimer = FALSE, !.backoffTimer = FALSE, !.token = FALSE,
            !.base = BaseAfter(s, status), !.refresh = @ \/ status = "unauthenticated",
            !.requested = {}, !.former = {}, !.crossed = {}, !.answered = FALSE,
            !.errors = IF status = "ok" THEN 0 ELSE IF @ = 2 THEN 2 ELSE @ + 1,
            !.state = IF status = "ok" THEN "Initial" ELSE "Error"]

StaleAfterClose(s) == IF s.token THEN stale + 1 ELSE stale

-------------------------------------------------------------------------------
(* FSTRemoteStore *)

\* The objects an operation hands around.
With(s) == [stream |-> s, tracker |-> tracker, aggregator |-> aggregator]
Objects == With(stream)
Become(o) == stream' = o.stream /\ tracker' = o.tracker /\ aggregator' = o.aggregator

ShouldStartWatchStream(s, on, targets) == on /\ ~IsStarted(s) /\ targets # {}

StartWatchStream(o) ==
  [stream |-> Start(o.stream), tracker |-> HandleWatchStreamStart(o.tracker), aggregator |-> TRUE]

WatchStreamWasInterrupted_NoRetry(o, status, on, targets) ==
  [stream |-> o.stream, tracker |-> UpdateState(o.tracker, "Unknown"), aggregator |-> FALSE]

\* A stream that is still needed is started again.  Closed with the status ok it must not be
\* needed: that assertion aborts the app before anything else is done.
WatchStreamWasInterrupted(o, status, on, targets) ==
  IF ~ShouldStartWatchStream(o.stream, on, targets)
  THEN [stream |-> o.stream, tracker |-> UpdateState(o.tracker, "Unknown"), aggregator |-> FALSE]
  ELSE IF status = "ok" THEN [o EXCEPT !.stream.ok = FALSE]
  ELSE StartWatchStream([stream |-> o.stream, tracker |-> HandleWatchStreamFailure(o.tracker),
                         aggregator |-> FALSE])

Close(o, status, on, targets) ==
  WatchStreamWasInterrupted([o EXCEPT !.stream = Closed(o.stream, status)], status, on, targets)

\* Stop is Close with the status ok, which does nothing to a stream that is not started.
Stop(o, on, targets) == IF IsStarted(o.stream) THEN Close(o, "ok", on, targets) ELSE o

\* Each action is one of an app that runs: a HARD_ASSERT that fails aborts it.
Running == stream.ok /\ tracker.ok

\* The stream is closed, and its token becomes stale, in the middle of an operation.
Interrupt(o) ==
  /\ StaleAfterClose(stream) <= MaxStale
  /\ stale' = StaleAfterClose(stream)
  /\ Become(o)

Init ==
  /\ stream = [state |-> "Initial", token |-> FALSE, idleTimer |-> FALSE, backoffTimer |-> FALSE,
               base |-> 0, delay |-> 0, refresh |-> FALSE, requested |-> {}, former |-> {}, crossed |-> {},
               answered |-> FALSE, errors |-> 0, ok |-> TRUE]
  /\ tracker = [state |-> "Unknown", failures |-> 0, timer |-> FALSE, ok |-> TRUE]
  /\ listenTargets = {} /\ enabled = FALSE /\ aggregator = FALSE /\ stale = 0

ListenToTarget(t) ==
  /\ Running /\ t \notin listenTargets
  /\ listenTargets' = listenTargets \cup {t}
  /\ IF ShouldStartWatchStream(stream, enabled, listenTargets')
     THEN Become(StartWatchStream(Objects))
     ELSE Become(With(IF IsOpen(stream) THEN WatchQuery(stream, t) ELSE stream))
  /\ UNCHANGED <<enabled, stale>>

StopListeningToTarget_NoUnwatch(t) ==
  /\ Running /\ t \in listenTargets
  /\ listenTargets' = listenTargets \ {t}
  /\ stream' = IF listenTargets' = {} THEN MarkIdle(stream) ELSE stream
  /\ tracker' = IF listenTargets' = {} /\ ~IsOpen(stream) /\ enabled
                THEN UpdateState(tracker, "Unknown") ELSE tracker
  /\ UNCHANGED <<enabled, aggregator, stale>>

\* The last listen to go marks an open stream idle, after the request that would cancel it.
StopListeningToTarget(t) ==
  /\ Running /\ t \in listenTargets
  /\ listenTargets' = listenTargets \ {t}
  /\ stream' = IF ~IsOpen(stream) THEN stream
               ELSE IF listenTargets' = {} THEN MarkIdle(UnwatchTargetId(stream, t))
               ELSE UnwatchTargetId(stream, t)
  /\ tracker' = IF listenTargets' = {} /\ ~IsOpen(stream) /\ enabled
                THEN UpdateState(tracker, "Unknown") ELSE tracker
  /\ UNCHANGED <<enabled, aggregator, stale>>

Enabled(o) ==
  IF ShouldStartWatchStream(o.stream, TRUE, listenTargets)
  THEN StartWatchStream(o)
  ELSE [o EXCEPT !.tracker = UpdateState(@, "Unknown")]

EnableNetwork ==
  /\ Running
  /\ enabled' = TRUE
  /\ Become(Enabled(Objects))
  /\ UNCHANGED <<listenTargets, stale>>

\* disableNetworkInternal, then the tracker is given the state the caller wants.
Disabled(o, state) ==
  LET stopped == Stop(o, FALSE, listenTargets) IN
  [stopped EXCEPT !.aggregator = FALSE, !.tracker = UpdateState(@, state)]

DisableNetwork ==
  /\ Running
  /\ enabled' = FALSE
  /\ Interrupt(Disabled(Objects, "Offline"))
  /\ UNCHANGED listenTargets

\* The streams are torn down and made anew, for the token of the new user.
CredentialDidChange ==
  /\ Running /\ enabled
  /\ Interrupt(Enabled(Disabled(Objects, "Unknown")))
  /\ UNCHANGED <<enabled, listenTargets>>

-------------------------------------------------------------------------------
(* Tokens and timers *)

Opened_NoResend(s) == [s EXCEPT !.token = FALSE, !.state = "Open", !.ok = @ /\ s.state = "Starting"]

Opened_Healthy(s) ==
  [s EXCEPT !.token = FALSE, !.state = "Open", !.ok = @ /\ s.state = "Starting", !.base = 0,
            !.requested = listenTargets, !.former = {}, !.crossed = {}]

\* ResumeStartWithCredentials with a token: the gRPC stream is started, which tells at once that
\* it is open, and watchStreamDidOpen sends all listens.
Opened(s) ==
  [s EXCEPT !.token = FALSE, !.state = "Open", !.ok = @ /\ s.state = "Starting",
            !.requested = listenTargets, !.former = {}, !.crossed = {}]

TokenArrives ==
  /\ Running /\ stream.token
  /\ stream' = Opened(stream)
  /\ UNCHANGED <<tracker, listenTargets, enabled, aggregator, stale>>

\* No token; nothing of this attempt is left under way.
TokenFails ==
  /\ Running /\ stream.token
  /\ \E status \in Statuses \ {"ok"} :
       Become(Close(With([stream EXCEPT !.token = FALSE]), status, enabled, listenTargets))
  /\ UNCHANGED <<listenTargets, enabled, stale>>

StaleTokenArrives_Used ==
  /\ Running /\ stale > 0
  /\ stale' = stale - 1
  /\ stream' = Opened(stream)
  /\ UNCHANGED <<tracker, listenTargets, enabled, aggregator>>

\* The close count has moved on: the token is not used.
StaleTokenArrives ==
  /\ Running /\ stale > 0
  /\ stale' = stale - 1
  /\ UNCHANGED <<stream, tracker, listenTargets, enabled, aggregator>>

BackoffElapsed ==
  /\ Running /\ stream.backoffTimer
  /\ stream' = Start([stream EXCEPT !.backoffTimer = FALSE, !.ok = @ /\ stream.state = "Backoff",
                                    !.state = "Initial"])
  /\ UNCHANGED <<tracker, listenTargets, enabled, aggregator, stale>>

IdleTimeout ==
  /\ Running /\ stream.idleTimer
  /\ Interrupt(Stop(With([stream EXCEPT !.idleTimer = FALSE]), enabled, listenTargets))
  /\ UNCHANGED <<listenTargets, enabled>>

OnlineStateTimeout ==
  /\ Running /\ tracker.timer
  /\ tracker' = [tracker EXCEPT !.timer = FALSE, !.ok = @ /\ tracker.state = "Unknown",
                                !.state = "Offline"]
  /\ UNCHANGED <<stream, listenTargets, enabled, aggregator, stale>>

-------------------------------------------------------------------------------
(* What the gRPC stream tells *)

\* A message is proof of a healthy stream: the backoff is reset, the state is Online.
Answered(s) == [s EXCEPT !.base = 0, !.answered = TRUE, !.errors = 0]

\* raiseWatchSnapshot unwatches and watches again the targets whose existence filter mismatched.
Rewatched(s, mismatched) ==
  [s EXCEPT !.idleTimer = @ /\ mismatched = {}, !.requested = @ \cup mismatched,
            !.former = @ \cup mismatched]

WatchStreamDidChange ==
  /\ Running /\ IsOpen(stream)
  /\ \E mismatched \in SUBSET listenTargets : stream' = Rewatched(Answered(stream), mismatched)
  /\ tracker' = UpdateState(tracker, "Online")
  /\ UNCHANGED <<listenTargets, enabled, aggregator, stale>>

\* processTargetErrorForWatchChange: the server, which takes requests in order, gives up targets
\* by their last watch, which settles the earlier ones, or by an earlier watch.  A listen is ended
\* by either, and nothing is unwatched: a later watch stays at the server.
TargetsRejected ==
  /\ Running /\ IsOpen(stream)
  /\ \E last \in SUBSET stream.requested : \E late \in SUBSET (stream.former \ last) :
       /\ last \cup late # {}
       /\ listenTargets' = listenTargets \ (last \cup late)
       /\ stream' = [Answered(stream) EXCEPT !.requested = @ \ last, !.former = @ \ last,
                                              !.crossed = (@ \ last) \cup (late \cap listenTargets)]
  /\ tracker' = UpdateState(tracker, "Online")
  /\ UNCHANGED <<enabled, aggregator, stale>>

\* OnStreamFinish, from the gRPC stream, with the final status of the server, ok included, or for
\* a message that does not parse.
OnStreamFinish ==
  /\ Running /\ IsOpen(stream)
  /\ \E status \in Statuses : Become(Close(Objects, status, enabled, listenTargets))
  /\ UNCHANGED <<listenTargets, enabled, stale>>

-------------------------------------------------------------------------------
Next ==
  \/ \E t \in Targets : ListenToTarget(t) \/ StopListeningToTarget(t)
  \/ EnableNetwork \/ DisableNetwork \/ CredentialDidChange
  \/ TokenArrives \/ TokenFails \/ StaleTokenArrives
  \/ BackoffElapsed \/ IdleTimeout \/ OnlineStateTimeout
  \/ WatchStreamDidChange \/ TargetsRejected \/ OnStreamFinish

Spec == Init /\ [][Next]_vars

\* Timers elapse and what is enqueued runs; the credentials provider answers, and does not
\* refuse a token for ever.  Nothing is assumed of the network and the server, which may end the
\* stream at any time and with any status.
Fairness ==
  /\ WF_vars(BackoffElapsed) /\ WF_vars(IdleTimeout) /\ WF_vars(OnlineStateTimeout)
  /\ WF_vars(StaleTokenArrives)
  /\ SF_vars(TokenArrives)

FairSpec == Spec /\ Fairness
-------------------------------------------------------------------------------
(* Properties *)

\* The variables keep their types.
TypeOK ==
  /\ stream \in Streams /\ tracker \in Trackers
  /\ listenTargets \in SUBSET Targets /\ enabled \in BOOLEAN /\ aggregator \in BOOLEAN
  /\ stale \in 0 .. MaxStale

\* The server ends the stream with the status ok while there is a listen: the stream takes it for
\* a graceful stop, which must not happen to a stream that is needed (FSTRemoteStore.mm:338).
CleanEnd ==
  OnStreamFinish /\ enabled /\ listenTargets # {} /\ stream'.state = "Initial" /\ tracker'.ok

\* The app is aborted in that one way only: none of the other assertions of the three objects
\* fails, whatever order calls of the app, late tokens, timers and failures come in.  A stream is
\* started only from Initial, requests are written only to an open stream, a token resumes only
\* a stream that is starting, the online timer is not started twice and fires only in Unknown,
\* and the app itself stops no stream that is needed.
AbortsOnCleanEndOnly == [][~Running' => CleanEnd]_vars

\* While there is a listen and the network is enabled, the stream is open or on its way, also
\* after failures, idle closes and changes of the user.
NeededIsStarted == Running /\ enabled /\ listenTargets # {} => IsStarted(stream)

\* However listens came and went while the stream was closed, starting or backing off, every
\* listen is watched at the server by the connection that is open, and each request could be
\* recorded by an aggregator.  What is watched beyond the listens, a listen rejected late has left
\* there: FSTRemoteStore.mm:424-431 ends the listen that is there now for a watch before it.
OpenCarriesListens ==
  IsOpen(stream) => /\ stream.requested = listenTargets \cup stream.crossed
                    /\ listenTargets \cap stream.crossed = {}
                    /\ aggregator

\* Online is claimed only on the strength of a message on the connection that is open now, and
\* the timer that would take it back is not running.
OnlineIsProven ==
  Running /\ tracker.state = "Online" =>
    IsOpen(stream) /\ stream.answered /\ tracker.failures = 0 /\ ~tracker.timer

\* Timers belong to the state they were started in: the idle timer closes no stream with a
\* listen, the backoff timer starts no stream that was stopped, and the online timer runs for a
\* stream that is on its way.
TimersCoherent ==
  Running =>
    /\ stream.idleTimer => IsOpen(stream) /\ listenTargets = {}
    /\ stream.backoffTimer <=> stream.state = "Backoff"
    /\ tracker.timer => tracker.state = "Unknown" /\ enabled /\ IsStarted(stream)

\* A second failure without a message in between waits: opening the stream proves nothing, as it
\* is told before there is a connection.
RetriesBackOff ==
  stream.state = "Backoff" /\ stream.errors >= 2 => stream.delay >= InitialDelay

\* What makes the invariants inductive: a token under the present close count belongs to a stream
\* that is starting, a stream on its way has an aggregator, and the base has grown by the time
\* of a second failure.  An app that was aborted has left its stream in Initial.
TokenOfStarting == stream.token <=> stream.state = "Starting"

StartedRecords == IsStarted(stream) => aggregator

BaseGrows ==
  /\ stream.errors >= 1 /\ stream.state # "Error" => stream.base >= InitialDelay
  /\ stream.errors >= 2 => stream.base >= InitialDelay

IInv == IF Running
        THEN /\ NeededIsStarted /\ OpenCarriesListens /\ OnlineIsProven /\ TimersCoherent
             /\ RetriesBackOff /\ TokenOfStarting /\ StartedRecords /\ BaseGrows
        ELSE stream.state = "Initial"

\* A listen is written to an open stream in the end, unless it is stopped or the network is
\* disabled, however often the stream breaks on the way, or the app is aborted.
ListenReachesServer ==
  \A t \in Targets :
    (enabled /\ t \in listenTargets)
      ~> (t \in stream.requested \/ t \notin listenTargets \/ ~enabled \/ ~Running)

\* FSTOnlineStateTracker.mm says of the 10 seconds' timer "we transition to Offline rather than
\* waiting indefinitely": a stream that is needed and stays open does not stay Unknown.
UnknownEnds ==
  []<>~(Running /\ enabled /\ listenTargets # {} /\ IsOpen(stream) /\ tracker.state = "Unknown")
===============================================================================
