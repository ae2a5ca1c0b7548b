-------------------------- MODULE RemoteStoreProofs --------------------------
(***************************************************************************)
(* Proofs about RemoteStore, for any set of targets, any delays and any    *)
(* number of failures until Offline.                                       *)
(*                                                                         *)
(* The operations are composed of operators on the records of the stream   *)
(* and of the tracker.  So is the proof: a lemma for each operator, from   *)
(* these the lemmas for a close and for a start, and then one step for     *)
(* each action.                                                            *)
(***************************************************************************)
EXTENDS RemoteStore, TLAPS

\* The conjuncts of TypeOK and IInv about the stream alone, the tracker alone ...
GoodStream(s) ==
  /\ s \in Streams /\ s.ok
  /\ s.backoffTimer <=> s.state = "Backoff"
  /\ s.token <=> s.state = "Starting"
  /\ s.state = "Backoff" /\ s.errors >= 2 => s.delay >= InitialDelay
  /\ s.errors >= 1 /\ s.state # "Error" => s.base >= InitialDelay
  /\ s.errors >= 2 => s.base >= InitialDelay

GoodTracker(tr) ==
  /\ tr \in Trackers /\ tr.ok
  /\ tr.state = "Online" => tr.failures = 0 /\ ~tr.timer
  /\ tr.timer => tr.state = "Unknown"

\* ... and about how they stand to each other, the listens and the network.
Fitting(s, tr, ag, on, targets) ==
  /\ on /\ targets # {} => IsStarted(s)
  /\ IsStarted(s) => ag
  /\ IsOpen(s) => s.requested = targets \cup s.crossed /\ targets \cap s.crossed = {}
  /\ s.idleTimer => IsOpen(s) /\ targets = {}
  /\ tr.state = "Online" => IsOpen(s) /\ s.answered
  /\ tr.timer => on /\ IsStarted(s)

Good(o, on, targets) ==
  /\ GoodStream(o.stream) /\ GoodTracker(o.tracker) /\ o.aggregator \in BOOLEAN
  /\ Fitting(o.stream, o.tracker, o.aggregator, on, targets)

-------------------------------------------------------------------------------
(* The tracker *)

\* The ends of the range of failures.
LEMMA FailureRange == 0 \in 0 .. MaxFailures /\ MaxFailures \in 0 .. MaxFailures
BY CountAssumption

\* A start never makes the tracker Online and starts no second timer.
LEMMA StartOfTracker ==
  ASSUME NEW tr, GoodTracker(tr), ~tr.timer \/ tr.failures # 0
  PROVE  /\ GoodTracker(HandleWatchStreamStart(tr))
         /\ tr.state # "Online" => HandleWatchStreamStart(tr).state # "Online"
         /\ tr.failures = 0 => HandleWatchStreamStart(tr).state # "Online"
<1> DEFINE r == HandleWatchStreamStart(tr)
<1>1. CASE tr.failures # 0
  BY <1>1 DEF HandleWatchStreamStart
<1>2. CASE tr.failures = 0
  <2>1. r = [tr EXCEPT !.state = "Unknown", !.timer = TRUE, !.ok = @ /\ ~tr.timer]
    BY <1>2 DEF HandleWatchStreamStart
  <2>2. r \in Trackers /\ r.state = "Unknown"
    BY <2>1 DEF GoodTracker, Trackers
  <2>3. r.ok
    BY <1>2, <2>1 DEF GoodTracker, Trackers
  <2>4. QED  BY <2>2, <2>3 DEF GoodTracker
<1>3. QED  BY <1>1, <1>2

\* A failure takes Online back, and no timer is left that a start could meet.
LEMMA FailureOfTracker ==
  ASSUME NEW tr, GoodTracker(tr)
  PROVE  /\ GoodTracker(HandleWatchStreamFailure(tr))
         /\ HandleWatchStreamFailure(tr).state # "Online"
         /\ ~HandleWatchStreamFailure(tr).timer \/ HandleWatchStreamFailure(tr).failures # 0
<1> DEFINE r == HandleWatchStreamFailure(tr)
<1> USE CountAssumption
<1>1. CASE tr.state = "Online"
  <2>1. r = [tr EXCEPT !.state = "Unknown", !.ok = @ /\ tr.failures = 0 /\ ~tr.timer]
    BY <1>1 DEF HandleWatchStreamFailure
  <2>2. r \in Trackers /\ r.state = "Unknown" /\ r.timer = tr.timer
    BY <2>1 DEF GoodTracker, Trackers
  <2>3. r.ok
    BY <1>1, <2>1 DEF GoodTracker, Trackers
  <2>4. ~tr.timer
    BY <1>1 DEF GoodTracker
  <2>5. QED  BY <2>2, <2>3, <2>4 DEF GoodTracker
<1>2. CASE tr.state # "Online" /\ tr.failures + 1 >= MaxFailures
  <2>1. r = [tr EXCEPT !.failures = MaxFailures, !.timer = FALSE, !.state = "Offline"]
    BY <1>2 DEF HandleWatchStreamFailure
  <2>2. r \in Trackers
    BY <2>1, FailureRange DEF GoodTracker, Trackers
  <2>3. r.state = "Offline" /\ ~r.timer /\ r.ok = tr.ok
    BY <2>1 DEF GoodTracker, Trackers
  <2>4. QED  BY <2>2, <2>3 DEF GoodTracker
<1>3. CASE tr.state # "Online" /\ ~(tr.failures + 1 >= MaxFailures)
  <2>1. r = [tr EXCEPT !.failures = tr.failures + 1]
    BY <1>3 DEF HandleWatchStreamFailure
  <2>2. /\ r \in Trackers /\ r.state = tr.state /\ r.timer = tr.timer /\ r.ok
        /\ r.failures = tr.failures + 1 /\ tr.failures \in Nat
    BY <1>3, <2>1 DEF GoodTracker, Trackers
  <2>3. GoodTracker(r)
    BY <1>3, <2>2 DEF GoodTracker
  <2>4. QED  BY <1>3, <2>2, <2>3
<1>4. QED  BY <1>1, <1>2, <1>3

\* An update stops the timer and takes the state it is given.
LEMMA UpdateOfTracker ==
  ASSUME NEW tr, GoodTracker(tr), NEW state \in {"Unknown", "Online", "Offline"}
  PROVE  /\ GoodTracker(UpdateState(tr, state))
         /\ UpdateState(tr, state).state = state
         /\ ~UpdateState(tr, state).timer
         /\ UpdateState(tr, state).failures = 0
<1> DEFINE r == UpdateState(tr, state)
<1>1. r \in Trackers
  BY FailureRange DEF GoodTracker, Trackers, UpdateState
<1>2. r.state = state /\ ~r.timer /\ r.failures = 0 /\ r.ok = tr.ok
  BY DEF GoodTracker, Trackers, UpdateState
<1>3. QED  BY <1>1, <1>2 DEF GoodTracker

-------------------------------------------------------------------------------
(* The stream *)

\* The base of a backoff stays in its bounds, and grows at once to the initial delay.
LEMMA NextBaseType ==
  ASSUME NEW base \in 0 .. MaxDelay
  PROVE  NextBase(base) \in 0 .. MaxDelay /\ NextBase(base) >= InitialDelay
BY DelayAssumption DEF NextBase

\* Start leaves Initial or Error for a stream that is on its way.
LEMMA StartOfStream ==
  ASSUME NEW s, GoodStream(s), ~IsStarted(s)
  PROVE  /\ GoodStream(Start(s))
         /\ Start(s).state \in {"Starting", "Backoff"}
         /\ Start(s).idleTimer = s.idleTimer
<1>1. s \in Streams /\ s.base \in 0 .. MaxDelay
  BY DEF GoodStream, Streams
<1>2. NextBase(s.base) \in 0 .. MaxDelay /\ NextBase(s.base) >= InitialDelay
  BY <1>1, NextBaseType
<1>3. CASE s.state = "Error"
  <2>1. BackoffAndTryRestarting(s) \in Streams
    BY <1>1, <1>2 DEF BackoffAndTryRestarting, Streams, States
  <2>2. GoodStream(BackoffAndTryRestarting(s))
    BY <1>1, <1>2, <1>3, <2>1, DelayAssumption DEF BackoffAndTryRestarting, Streams, GoodStream
  <2>3. QED  BY <1>1, <1>3, <2>2 DEF Start, BackoffAndTryRestarting, Streams
<1>4. CASE s.state # "Error"
  <2>1. s.state = "Initial"
    BY <1>1, <1>4 DEF Streams, States, IsStarted
  <2>2. GoodStream(Start(s))
    BY <1>1, <2>1 DEF Start, RequestCredentials, Streams, States, GoodStream
  <2>3. QED  BY <1>1, <2>1, <2>2 DEF Start, RequestCredentials, Streams
<1>5. QED  BY <1>3, <1>4

\* A token that failed is no longer under way when the stream closes.
ClosableStream(s) ==
  /\ s \in Streams /\ s.ok /\ IsStarted(s)
  /\ s.errors >= 1 => s.base >= InitialDelay

\* Close leaves a stream without timers or token, whatever the status.
LEMMA CloseOfStream ==
  ASSUME NEW s, ClosableStream(s), NEW status \in Statuses
  PROVE  /\ GoodStream(Closed(s, status))
         /\ Closed(s, status).state = IF status = "ok" THEN "Initial" ELSE "Error"
         /\ ~IsStarted(Closed(s, status)) /\ ~Closed(s, status).idleTimer
<1>1. BaseAfter(s, status) \in 0 .. MaxDelay
  BY DelayAssumption DEF ClosableStream, BaseAfter, Streams
<1>2. Closed(s, status) \in Streams
  <2> DEFINE ok == s.ok /\ IsStarted(s)
             refresh == s.refresh \/ status = "unauthenticated"
             errors == IF status = "ok" THEN 0 ELSE IF s.errors = 2 THEN 2 ELSE s.errors + 1
             state == IF status = "ok" THEN "Initial" ELSE "Error"
  <2>1. ok \in BOOLEAN /\ refresh \in BOOLEAN
    BY Zenon
  <2>2. errors \in 0 .. 2 /\ state \in States /\ s \in Streams
    BY DEF ClosableStream, Streams, States
  <2>3. Closed(s, status) =
          [s EXCEPT !.ok = ok, !.idleTimer = FALSE, !.backoffTimer = FALSE, !.token = FALSE,
                    !.base = BaseAfter(s, status), !.refresh = refresh, !.requested = {},
                    !.former = {}, !.crossed = {}, !.answered = FALSE, !.errors = errors, !.state = state]
    BY DEF Closed
  <2> HIDE DEF ok, refresh, errors, state
  <2>4. QED  BY <1>1, <2>1, <2>2, <2>3 DEF Streams
<1>3. /\ Closed(s, status).state = IF status = "ok" THEN "Initial" ELSE "Error"
      /\ ~Closed(s, status).idleTimer /\ ~Closed(s, status).backoffTimer /\ ~Closed(s, status).token
      /\ Closed(s, status).base = BaseAfter(s, status)
      /\ Closed(s, status).errors = IF status = "ok" THEN 0 ELSE IF s.errors = 2 THEN 2 ELSE s.errors + 1
  BY DEF ClosableStream, Closed, Streams
<1>4. Closed(s, status).ok
  BY DEF ClosableStream, Closed, Streams
<1>5. status # "ok" /\ s.errors >= 1 => BaseAfter(s, status) >= InitialDelay
  BY DelayAssumption DEF ClosableStream, BaseAfter
<1>6. s.errors \in 0 .. 2
  BY DEF ClosableStream, Streams
<1>7. GoodStream(Closed(s, status))
  BY <1>2, <1>3, <1>4, <1>5, <1>6 DEF GoodStream
<1>8. QED  BY <1>3, <1>7 DEF IsStarted

-------------------------------------------------------------------------------
(* The operations on all three objects *)

\* Good of a record is Good of its fields.
LEMMA GoodRecord ==
  ASSUME NEW s, NEW tr, NEW ag \in BOOLEAN, NEW on, NEW targets,
         GoodStream(s), GoodTracker(tr), Fitting(s, tr, ag, on, targets)
  PROVE  Good([stream |-> s, tracker |-> tr, aggregator |-> ag], on, targets)
<1> DEFINE o == [stream |-> s, tracker |-> tr, aggregator |-> ag]
<1>1. o.stream = s /\ o.tracker = tr /\ o.aggregator = ag
  OBVIOUS
<1> HIDE DEF o
<1>2. Good(o, on, targets)
  BY <1>1 DEF Good
<1>3. QED  BY <1>2 DEF o

\* startWatchStream, from a stream and a tracker at rest.
LEMMA StartIsGood ==
  ASSUME NEW o, NEW on \in BOOLEAN, NEW targets \in SUBSET Targets,
         GoodStream(o.stream), GoodTracker(o.tracker), ~o.stream.idleTimer,
         ~o.tracker.timer \/ o.tracker.failures # 0,
         ShouldStartWatchStream(o.stream, on, targets)
  PROVE  Good(StartWatchStream(o), on, targets)
<1> DEFINE s == Start(o.stream)
           tr == HandleWatchStreamStart(o.tracker)
<1>1. GoodStream(s) /\ s.state \in {"Starting", "Backoff"} /\ ~s.idleTimer
  BY StartOfStream DEF ShouldStartWatchStream
<1>2. GoodTracker(tr) /\ tr.state # "Online"
  <2>1. o.tracker.failures = 0 \/ o.tracker.state # "Online"
    BY DEF GoodTracker
  <2>2. QED  BY <2>1, StartOfTracker
<1>3. StartWatchStream(o) = [stream |-> s, tracker |-> tr, aggregator |-> TRUE]
  BY DEF StartWatchStream
<1> HIDE DEF s, tr
<1>4. Fitting(s, tr, TRUE, on, targets)
  BY <1>1, <1>2 DEF Fitting, IsStarted, IsOpen, ShouldStartWatchStream
<1>5. QED  BY <1>1, <1>2, <1>3, <1>4, GoodRecord

\* watchStreamWasInterrupted, restarting or not.
LEMMA InterruptedIsGood ==
  ASSUME NEW o, NEW on \in BOOLEAN, NEW targets \in SUBSET Targets, NEW status \in Statuses,
         GoodStream(o.stream), GoodTracker(o.tracker), ~o.stream.idleTimer, ~IsStarted(o.stream),
         status = "ok" => ~(on /\ targets # {})
  PROVE  Good(WatchStreamWasInterrupted(o, status, on, targets), on, targets)
<1>1. CASE ShouldStartWatchStream(o.stream, on, targets)
  <2> DEFINE tr == HandleWatchStreamFailure(o.tracker)
             f == [stream |-> o.stream, tracker |-> tr, aggregator |-> FALSE]
  <2>1. GoodTracker(tr) /\ (~tr.timer \/ tr.failures # 0)
    BY FailureOfTracker
  <2>2. WatchStreamWasInterrupted(o, status, on, targets) = StartWatchStream(f)
    BY <1>1 DEF WatchStreamWasInterrupted, ShouldStartWatchStream
  <2> HIDE DEF tr
  <2>3. f.stream = o.stream /\ f.tracker = tr
    OBVIOUS
  <2> HIDE DEF f
  <2>4. Good(StartWatchStream(f), on, targets)
    BY <1>1, <2>1, <2>3, StartIsGood
  <2>5. QED  BY <2>2, <2>4
<1>2. CASE ~ShouldStartWatchStream(o.stream, on, targets)
  <2> DEFINE tr == UpdateState(o.tracker, "Unknown")
  <2>1. GoodTracker(tr) /\ tr.state = "Unknown" /\ ~tr.timer
    BY UpdateOfTracker
  <2>2. WatchStreamWasInterrupted(o, status, on, targets)
          = [stream |-> o.stream, tracker |-> tr, aggregator |-> FALSE]
    BY <1>2 DEF WatchStreamWasInterrupted
  <2> HIDE DEF tr
  <2>3. Fitting(o.stream, tr, FALSE, on, targets)
    BY <1>2, <2>1 DEF Fitting, IsStarted, IsOpen, ShouldStartWatchStream
  <2>4. QED  BY <2>1, <2>2, <2>3, GoodRecord
<1>3. QED  BY <1>1, <1>2

\* Close as a whole, with the restart it may cause.
LEMMA CloseIsGood ==
  ASSUME NEW s, NEW tr, NEW ag, NEW on \in BOOLEAN, NEW targets \in SUBSET Targets,
         NEW status \in Statuses, ClosableStream(s), GoodTracker(tr),
         status = "ok" => ~(on /\ targets # {})
  PROVE  Good(Close([stream |-> s, tracker |-> tr, aggregator |-> ag], status, on, targets), on, targets)
<1> DEFINE o == [stream |-> Closed(s, status), tracker |-> tr, aggregator |-> ag]
<1>1. Close([stream |-> s, tracker |-> tr, aggregator |-> ag], status, on, targets)
        = WatchStreamWasInterrupted(o, status, on, targets)
  BY DEF Close
<1>2. GoodStream(o.stream) /\ GoodTracker(o.tracker) /\ ~o.stream.idleTimer /\ ~IsStarted(o.stream)
  BY CloseOfStream
<1> HIDE DEF o
<1>3. QED  BY <1>1, <1>2, InterruptedIsGood

\* Close with the status ok of a stream that is needed: an assertion fails, nothing else changes.
AbortedBy(o, tr, ag) ==
  /\ o = [stream |-> o.stream, tracker |-> tr, aggregator |-> ag]
  /\ o.stream \in Streams /\ o.stream.state = "Initial" /\ ~o.stream.ok

LEMMA CloseAborts ==
  ASSUME NEW s, NEW tr, NEW ag, NEW targets, ClosableStream(s), targets # {}
  PROVE  AbortedBy(Close([stream |-> s, tracker |-> tr, aggregator |-> ag], "ok", TRUE, targets),
                   tr, ag)
<1> DEFINE c == Closed(s, "ok")
           o == [stream |-> c, tracker |-> tr, aggregator |-> ag]
           x == [c EXCEPT !.ok = FALSE]
           i == [stream |-> s, tracker |-> tr, aggregator |-> ag]
           r == Close(i, "ok", TRUE, targets)
<1>1. GoodStream(c) /\ ~IsStarted(c) /\ c.state = "Initial"
  BY CloseOfStream DEF Statuses
<1>2. r = WatchStreamWasInterrupted(o, "ok", TRUE, targets)
  <2>1. i.stream = s /\ [i EXCEPT !.stream = c] = o
    OBVIOUS
  <2> HIDE DEF i, o
  <2>2. QED  BY <2>1 DEF Close
<1> HIDE DEF c, r
<1>3. o.stream = c
  OBVIOUS
<1>4. r = [o EXCEPT !.stream.ok = FALSE]
  BY <1>1, <1>2, <1>3 DEF WatchStreamWasInterrupted, ShouldStartWatchStream
<1>5. r = [stream |-> x, tracker |-> tr, aggregator |-> ag]
  BY <1>4
<1>6. x \in Streams /\ x.state = "Initial" /\ ~x.ok
  BY <1>1 DEF GoodStream, Streams
<1> HIDE DEF x
<1>7. r.stream = x
  BY <1>5
<1>8. AbortedBy(r, tr, ag)
  BY <1>5, <1>6, <1>7 DEF AbortedBy
<1>9. QED  BY <1>8 DEF r

\* Any good stream that is started may be closed.
LEMMA GoodIsClosable ==
  ASSUME NEW s, GoodStream(s), IsStarted(s)
  PROVE  ClosableStream(s)
BY DEF GoodStream, ClosableStream, IsStarted

\* EnableNetwork, on whatever a disable before it left.
LEMMA EnabledIsGood ==
  ASSUME NEW s, NEW tr, NEW ag \in BOOLEAN, NEW on \in BOOLEAN, listenTargets \in SUBSET Targets,
         GoodStream(s), GoodTracker(tr), Fitting(s, tr, ag, on, listenTargets)
  PROVE  Good(Enabled([stream |-> s, tracker |-> tr, aggregator |-> ag]), TRUE, listenTargets)
<1> DEFINE o == [stream |-> s, tracker |-> tr, aggregator |-> ag]
<1>1. o.stream = s /\ o.tracker = tr /\ o.aggregator = ag
  OBVIOUS
<1> HIDE DEF o
<1>2. CASE ShouldStartWatchStream(s, TRUE, listenTargets)
  <2>1. ~s.idleTimer /\ ~tr.timer
    BY <1>2 DEF Fitting, IsOpen, IsStarted, ShouldStartWatchStream
  <2>2. Good(StartWatchStream(o), TRUE, listenTargets)
    BY <1>1, <1>2, <2>1, StartIsGood
  <2>3. QED  BY <1>1, <1>2, <2>2 DEF Enabled, o
<1>3. CASE ~ShouldStartWatchStream(s, TRUE, listenTargets)
  <2> DEFINE u == UpdateState(tr, "Unknown")
  <2>1. GoodTracker(u) /\ u.state = "Unknown" /\ ~u.timer
    BY UpdateOfTracker
  <2>2. Enabled(o) = [stream |-> s, tracker |-> u, aggregator |-> ag]
    BY <1>3 DEF Enabled, o
  <2> HIDE DEF u
  <2>3. Fitting(s, u, ag, TRUE, listenTargets)
    BY <1>3, <2>1 DEF Fitting, ShouldStartWatchStream
  <2>4. QED  BY <2>1, <2>2, <2>3, GoodRecord DEF o
<1>4. QED  BY <1>2, <1>3 DEF o

\* DisableNetwork: the stream is not started, whether it had to be stopped or not.
DisabledWell(d) ==
  /\ d = [stream |-> d.stream, tracker |-> d.tracker, aggregator |-> FALSE]
  /\ GoodStream(d.stream) /\ GoodTracker(d.tracker)
  /\ Fitting(d.stream, d.tracker, FALSE, FALSE, listenTargets)

LEMMA DisabledIsGood ==
  ASSUME NEW s, NEW tr, NEW ag \in BOOLEAN, NEW on \in BOOLEAN, listenTargets \in SUBSET Targets,
         GoodStream(s), GoodTracker(tr), Fitting(s, tr, ag, on, listenTargets),
         NEW state \in {"Unknown", "Offline"}
  PROVE  DisabledWell(Disabled([stream |-> s, tracker |-> tr, aggregator |-> ag], state))
<1> DEFINE o == [stream |-> s, tracker |-> tr, aggregator |-> ag]
           stopped == Stop(o, FALSE, listenTargets)
           t == stopped.stream
           u == UpdateState(stopped.tracker, state)
<1>1. Disabled(o, state) = [stopped EXCEPT !.aggregator = FALSE, !.tracker = u]
  BY DEF Disabled
<1>2. /\ GoodStream(stopped.stream) /\ GoodTracker(stopped.tracker)
      /\ ~IsStarted(stopped.stream) /\ ~stopped.stream.idleTimer
      /\ stopped = [stream |-> stopped.stream, tracker |-> stopped.tracker,
                    aggregator |-> stopped.aggregator]
  <2>1. CASE ~IsStarted(s)
    <3>1. stopped = o /\ o.stream = s /\ o.tracker = tr
      BY <2>1 DEF Stop
    <3>2. ~s.idleTimer
      BY <2>1 DEF Fitting, IsOpen, IsStarted
    <3> HIDE DEF stopped
    <3>3. QED  BY <2>1, <3>1, <3>2
  <2>2. CASE IsStarted(s)
    <3> DEFINE c == Closed(s, "ok")
               d == [stream |-> c, tracker |-> tr, aggregator |-> ag]
    <3>1. GoodStream(c) /\ ~IsStarted(c) /\ ~c.idleTimer
      BY <2>2, GoodIsClosable, CloseOfStream DEF Statuses
    <3>2. stopped = WatchStreamWasInterrupted(d, "ok", FALSE, listenTargets)
      <4>1. o.stream = s /\ [o EXCEPT !.stream = c] = d
        OBVIOUS
      <4> HIDE DEF o, d
      <4>2. QED  BY <2>2, <4>1 DEF Stop, Close
    <3> HIDE DEF c
    <3>3. stopped = [stream |-> c, tracker |-> UpdateState(tr, "Unknown"), aggregator |-> FALSE]
      BY <3>2 DEF WatchStreamWasInterrupted, ShouldStartWatchStream
    <3>4. GoodTracker(UpdateState(tr, "Unknown"))
      BY UpdateOfTracker
    <3> HIDE DEF stopped
    <3>5. QED  BY <3>1, <3>3, <3>4
  <2>3. QED  BY <2>1, <2>2
<1> HIDE DEF stopped
<1>3. Disabled(o, state) = [stream |-> t, tracker |-> u, aggregator |-> FALSE]
  BY <1>1, <1>2
<1>4. GoodTracker(u) /\ u.state = state /\ ~u.timer
  BY <1>2, UpdateOfTracker
<1> HIDE DEF u
<1>5. Fitting(t, u, FALSE, FALSE, listenTargets)
  BY <1>2, <1>4 DEF Fitting, IsOpen, IsStarted
<1>6. DisabledWell(Disabled(o, state))
  <2> DEFINE d == Disabled(o, state)
  <2>1. d.stream = t /\ d.tracker = u /\ d = [stream |-> t, tracker |-> u, aggregator |-> FALSE]
    BY <1>3
  <2> HIDE DEF d, t
  <2>2. DisabledWell(d)
    BY <1>4, <1>5, <1>2, <2>1 DEF DisabledWell, t
  <2>3. QED  BY <2>2 DEF d
<1>7. QED  BY <1>6

-------------------------------------------------------------------------------
(* What the operations leave in the variables *)

\* The invariant in terms of the parts ...
LEMMA GoodNow ==
  ASSUME TypeOK, IInv, Running
  PROVE  /\ GoodStream(stream) /\ GoodTracker(tracker)
         /\ Fitting(stream, tracker, aggregator, enabled, listenTargets)
         /\ enabled \in BOOLEAN /\ aggregator \in BOOLEAN /\ listenTargets \in SUBSET Targets
         /\ stale \in 0 .. MaxStale
<1>1. GoodStream(stream)
  BY DEF TypeOK, IInv, GoodStream, Running, TimersCoherent, TokenOfStarting, RetriesBackOff, BaseGrows
<1>2. GoodTracker(tracker)
  BY DEF TypeOK, IInv, GoodTracker, Running, OnlineIsProven, TimersCoherent
<1>3. Fitting(stream, tracker, aggregator, enabled, listenTargets)
  BY DEF IInv, Fitting, Running, NeededIsStarted, StartedRecords, OpenCarriesListens, TimersCoherent, OnlineIsProven
<1>4. QED  BY <1>1, <1>2, <1>3 DEF TypeOK

\* ... and of the parts after a step,
LEMMA GoodNext ==
  ASSUME GoodStream(stream'), GoodTracker(tracker'),
         Fitting(stream', tracker', aggregator', enabled', listenTargets'),
         enabled' \in BOOLEAN, aggregator' \in BOOLEAN, listenTargets' \in SUBSET Targets,
         stale' \in 0 .. MaxStale
  PROVE  TypeOK' /\ IInv' /\ Running'
<1>1. TypeOK'
  BY DEF TypeOK, GoodStream, GoodTracker
<1>2. Running' /\ TokenOfStarting' /\ RetriesBackOff' /\ BaseGrows'
  BY DEF Running, TokenOfStarting, RetriesBackOff, BaseGrows, GoodStream, GoodTracker
<1>3. NeededIsStarted' /\ StartedRecords'
  BY DEF NeededIsStarted, StartedRecords, Fitting
<1>4. OpenCarriesListens'
  BY DEF OpenCarriesListens, Fitting, IsOpen, IsStarted
<1>5. OnlineIsProven' /\ TimersCoherent'
  BY DEF OnlineIsProven, TimersCoherent, GoodStream, GoodTracker, Fitting
<1>6. QED  BY <1>1, <1>2, <1>3, <1>4, <1>5 DEF IInv

\* ... which an operation on all objects has made good.
LEMMA BecomesGood ==
  ASSUME NEW o, Become(o), Good(o, enabled', listenTargets'),
         enabled' \in BOOLEAN, listenTargets' \in SUBSET Targets, stale' \in 0 .. MaxStale
  PROVE  TypeOK' /\ IInv' /\ Running'
BY GoodNext DEF Become, Good

\* A request keeps an open stream good.
LEMMA RequestIsGood ==
  ASSUME NEW s, GoodStream(s), IsOpen(s), NEW t \in Targets
  PROVE  /\ GoodStream(WatchQuery(s, t)) /\ GoodStream(UnwatchTargetId(s, t))
         /\ IsOpen(WatchQuery(s, t)) /\ IsOpen(UnwatchTargetId(s, t))
         /\ ~WatchQuery(s, t).idleTimer /\ ~UnwatchTargetId(s, t).idleTimer
         /\ WatchQuery(s, t).requested = s.requested \cup {t}
         /\ UnwatchTargetId(s, t).requested = s.requested \ {t}
         /\ WatchQuery(s, t).crossed = s.crossed \ {t} /\ UnwatchTargetId(s, t).crossed = s.crossed
         /\ WatchQuery(s, t).answered = s.answered
         /\ UnwatchTargetId(s, t).answered = s.answered
<1>1. (s.ok /\ IsOpen(s)) = TRUE /\ s \in Streams /\ s.ok = TRUE
  BY Zenon DEF GoodStream, Streams
<1> DEFINE w == [s EXCEPT !.idleTimer = FALSE, !.requested = @ \cup {t},
                          !.former = @ \cup ({t} \cap s.requested), !.crossed = @ \ {t}]
           u == [s EXCEPT !.idleTimer = FALSE, !.requested = @ \ {t}, !.former = @ \cup {t}]
<1>2. WatchQuery(s, t) = w /\ UnwatchTargetId(s, t) = u
  BY <1>1 DEF WatchQuery, UnwatchTargetId, Streams
<1>3. /\ w \in Streams /\ ~w.idleTimer /\ w.requested = s.requested \cup {t}
      /\ w.answered = s.answered /\ w.crossed = s.crossed \ {t}
  BY <1>1 DEF Streams
<1>4. /\ w.ok = s.ok /\ w.state = s.state /\ w.backoffTimer = s.backoffTimer /\ w.token = s.token
      /\ w.errors = s.errors /\ w.delay = s.delay /\ w.base = s.base
  BY <1>1 DEF Streams
<1>5. /\ u \in Streams /\ ~u.idleTimer /\ u.requested = s.requested \ {t}
      /\ u.answered = s.answered /\ u.crossed = s.crossed
  BY <1>1 DEF Streams
<1>6. /\ u.ok = s.ok /\ u.state = s.state /\ u.backoffTimer = s.backoffTimer /\ u.token = s.token
      /\ u.errors = s.errors /\ u.delay = s.delay /\ u.base = s.base
  BY <1>1 DEF Streams
<1> HIDE DEF w, u
<1>7. GoodStream(w) /\ IsOpen(w)
  BY <1>1, <1>3, <1>4 DEF GoodStream, IsOpen
<1>8. GoodStream(u) /\ IsOpen(u)
  BY <1>1, <1>5, <1>6 DEF GoodStream, IsOpen
<1>9. QED  BY <1>2, <1>3, <1>5, <1>7, <1>8

\* Marking a stream idle changes nothing but the timer.
LEMMA IdleIsGood ==
  ASSUME NEW s, GoodStream(s), IsOpen(s)
  PROVE  /\ GoodStream(MarkIdle(s)) /\ IsOpen(MarkIdle(s))
         /\ MarkIdle(s).requested = s.requested /\ MarkIdle(s).answered = s.answered
         /\ MarkIdle(s).crossed = s.crossed
BY DEF GoodStream, MarkIdle, Streams, IsOpen

\* A message leaves an open stream good ...
AnsweredWell(s) ==
  /\ GoodStream(Answered(s)) /\ IsOpen(Answered(s)) /\ Answered(s).answered
  /\ Answered(s).requested = s.requested /\ Answered(s).crossed = s.crossed
  /\ Answered(s).idleTimer = s.idleTimer

LEMMA AnsweredIsGood ==
  ASSUME NEW s, GoodStream(s), IsOpen(s)
  PROVE  AnsweredWell(s)
<1>1. Answered(s) \in Streams
  <2>1. 0 \in 0 .. MaxDelay /\ 0 \in 0 .. 2
    BY DelayAssumption
  <2>2. QED  BY <2>1 DEF GoodStream, Answered, Streams
<1>2. /\ Answered(s).state = s.state /\ Answered(s).ok = s.ok /\ Answered(s).token = s.token
      /\ Answered(s).backoffTimer = s.backoffTimer /\ Answered(s).errors = 0
      /\ Answered(s).answered /\ Answered(s).requested = s.requested
      /\ Answered(s).crossed = s.crossed /\ Answered(s).idleTimer = s.idleTimer
  BY DEF GoodStream, Answered, Streams
<1>3. QED  BY <1>1, <1>2 DEF AnsweredWell, GoodStream, IsOpen

\* ... as does a mismatch of existence filters.
LEMMA RewatchedIsGood ==
  ASSUME NEW s, GoodStream(s), IsOpen(s), NEW mismatched \in SUBSET Targets
  PROVE  /\ GoodStream(Rewatched(s, mismatched)) /\ IsOpen(Rewatched(s, mismatched))
         /\ Rewatched(s, mismatched).requested = s.requested \cup mismatched
         /\ Rewatched(s, mismatched).crossed = s.crossed
         /\ Rewatched(s, mismatched).answered = s.answered
         /\ Rewatched(s, mismatched).idleTimer => s.idleTimer
<1> DEFINE idle == s.idleTimer /\ mismatched = {}
           r == [s EXCEPT !.idleTimer = idle, !.requested = @ \cup mismatched,
                          !.former = @ \cup mismatched]
<1>1. Rewatched(s, mismatched) = r
  BY DEF Rewatched
<1>2. idle \in BOOLEAN /\ (idle => s.idleTimer)
  BY Zenon
<1> HIDE DEF idle
<1>3. /\ r \in Streams /\ r.idleTimer = idle /\ r.requested = s.requested \cup mismatched
      /\ r.answered = s.answered /\ r.crossed = s.crossed
  BY <1>2 DEF GoodStream, Streams
<1>4. /\ r.ok = s.ok /\ r.state = s.state /\ r.backoffTimer = s.backoffTimer /\ r.token = s.token
      /\ r.errors = s.errors /\ r.delay = s.delay /\ r.base = s.base
  BY DEF GoodStream, Streams
<1> HIDE DEF r
<1>5. GoodStream(r) /\ IsOpen(r)
  BY <1>3, <1>4 DEF GoodStream, IsOpen
<1>6. QED  BY <1>1, <1>2, <1>3, <1>5

-------------------------------------------------------------------------------
(* The invariant *)

\* Every operation of the app, token, timer and message keeps the types and IInv, and the app
\* goes on running but for a clean end.
LEMMA Inductive ==
  ASSUME TypeOK, IInv, Next
  PROVE  TypeOK' /\ IInv' /\ (Running' \/ CleanEnd)
<1>1. /\ GoodStream(stream) /\ GoodTracker(tracker)
      /\ Fitting(stream, tracker, aggregator, enabled, listenTargets)
      /\ enabled \in BOOLEAN /\ aggregator \in BOOLEAN /\ listenTargets \in SUBSET Targets
      /\ stale \in 0 .. MaxStale
  <2>1. Running
    BY DEF Next, ListenToTarget, StopListeningToTarget, EnableNetwork, DisableNetwork, CredentialDidChange,
           TokenArrives, TokenFails, StaleTokenArrives, BackoffElapsed, IdleTimeout, OnlineStateTimeout,
           WatchStreamDidChange, TargetsRejected, OnStreamFinish
  <2>2. QED  BY <2>1, GoodNow
<1>2. /\ Objects.stream = stream /\ Objects.tracker = tracker /\ Objects.aggregator = aggregator
      /\ Objects = [stream |-> stream, tracker |-> tracker, aggregator |-> aggregator]
  BY DEF Objects, With
<1>3. ~IsStarted(stream) => ~stream.idleTimer /\ ~tracker.timer /\ tracker.state # "Online"
  BY <1>1 DEF Fitting, IsOpen, IsStarted
<1>4. ASSUME NEW t \in Targets, ListenToTarget(t) PROVE TypeOK' /\ IInv' /\ Running'
  <2>1. listenTargets' = listenTargets \cup {t} /\ UNCHANGED <<enabled, stale>>
    BY <1>4 DEF ListenToTarget
  <2>2. CASE ShouldStartWatchStream(stream, enabled, listenTargets')
    <3>1. Become(StartWatchStream(Objects))
      BY <1>4, <2>2 DEF ListenToTarget
    <3>2. ~IsStarted(stream)
      BY <2>2 DEF ShouldStartWatchStream
    <3>3. Good(StartWatchStream(Objects), enabled, listenTargets')
      BY <1>1, <1>2, <1>3, <2>1, <2>2, <3>2, StartIsGood
    <3>4. QED  BY <1>1, <2>1, <3>1, <3>3, BecomesGood
  <2>3. CASE ~ShouldStartWatchStream(stream, enabled, listenTargets') /\ IsOpen(stream)
    <3>1. stream' = WatchQuery(stream, t) /\ tracker' = tracker /\ aggregator' = aggregator
      BY <1>4, <2>3 DEF ListenToTarget, Become, With
    <3>2. /\ GoodStream(stream') /\ IsOpen(stream') /\ ~stream'.idleTimer
          /\ stream'.requested = stream.requested \cup {t} /\ stream'.answered = stream.answered
          /\ stream'.crossed = stream.crossed \ {t}
      BY <1>1, <2>3, <3>1, RequestIsGood
    <3>3. Fitting(stream', tracker', aggregator', enabled', listenTargets')
      BY <1>1, <2>1, <2>3, <3>1, <3>2 DEF Fitting, IsOpen, IsStarted
    <3>4. QED  BY <1>1, <2>1, <3>1, <3>2, <3>3, GoodNext
  <2>4. CASE ~ShouldStartWatchStream(stream, enabled, listenTargets') /\ ~IsOpen(stream)
    <3>1. stream' = stream /\ tracker' = tracker /\ aggregator' = aggregator
      BY <1>4, <2>4 DEF ListenToTarget, Become, With
    <3>2. Fitting(stream', tracker', aggregator', enabled', listenTargets')
      BY <1>1, <2>1, <2>4, <3>1 DEF Fitting, ShouldStartWatchStream
    <3>3. QED  BY <1>1, <2>1, <3>1, <3>2, GoodNext
  <2>5. QED  BY <2>2, <2>3, <2>4
<1>5. ASSUME NEW t \in Targets, StopListeningToTarget(t) PROVE TypeOK' /\ IInv' /\ Running'
  <2>1. listenTargets' = listenTargets \ {t} /\ UNCHANGED <<enabled, aggregator, stale>>
    BY <1>5 DEF StopListeningToTarget
  <2>2. CASE IsOpen(stream)
    <3> DEFINE u == UnwatchTargetId(stream, t)
    <3>1. /\ GoodStream(u) /\ IsOpen(u) /\ ~u.idleTimer
          /\ u.requested = stream.requested \ {t} /\ u.answered = stream.answered
          /\ u.crossed = stream.crossed
      BY <1>1, <2>2, RequestIsGood
    <3>2. stream' = IF listenTargets' = {} THEN MarkIdle(u) ELSE u
      BY <1>5, <2>2 DEF StopListeningToTarget
    <3>3. tracker' = tracker
      BY <1>5, <2>2 DEF StopListeningToTarget
    <3> HIDE DEF u
    <3>4. /\ GoodStream(stream') /\ IsOpen(stream') /\ stream'.requested = stream.requested \ {t}
          /\ stream'.answered = stream.answered /\ (stream'.idleTimer => listenTargets' = {})
          /\ stream'.crossed = stream.crossed
      BY <3>1, <3>2, IdleIsGood
    <3>5. /\ stream.requested = listenTargets \cup stream.crossed
          /\ listenTargets \cap stream.crossed = {} /\ t \in listenTargets
      BY <1>1, <1>5, <2>2 DEF Fitting, StopListeningToTarget
    <3>6. /\ stream'.requested = listenTargets' \cup stream'.crossed
          /\ listenTargets' \cap stream'.crossed = {}
      BY <2>1, <3>4, <3>5
    <3>7. Fitting(stream', tracker', aggregator', enabled', listenTargets')
      BY <1>1, <2>1, <2>2, <3>3, <3>4, <3>6 DEF Fitting, IsOpen, IsStarted
    <3>8. QED  BY <1>1, <2>1, <3>3, <3>4, <3>7, GoodNext
  <2>3. CASE ~IsOpen(stream)
    <3>1. stream' = stream /\ (tracker' = UpdateState(tracker, "Unknown") \/ tracker' = tracker)
      BY <1>5, <2>3 DEF StopListeningToTarget
    <3>2. /\ GoodTracker(tracker') /\ (tracker'.timer => tracker.timer)
          /\ (tracker'.state = "Online" => tracker.state = "Online")
      BY <1>1, <3>1, UpdateOfTracker
    <3>3. Fitting(stream', tracker', aggregator', enabled', listenTargets')
      BY <1>1, <2>1, <2>3, <3>1, <3>2 DEF Fitting
    <3>4. QED  BY <1>1, <2>1, <3>1, <3>2, <3>3, GoodNext
  <2>4. QED  BY <2>2, <2>3
<1>6. CASE EnableNetwork
  <2>1. Good(Enabled(Objects), TRUE, listenTargets)
    BY <1>1, <1>2, EnabledIsGood
  <2>2. enabled' = TRUE /\ Become(Enabled(Objects)) /\ UNCHANGED <<listenTargets, stale>>
    BY <1>6 DEF EnableNetwork
  <2>3. QED  BY <1>1, <2>1, <2>2, BecomesGood
<1>7. CASE DisableNetwork
  <2> DEFINE d == Disabled(Objects, "Offline")
  <2>1. DisabledWell(d)
    BY <1>1, <1>2, DisabledIsGood
  <2> HIDE DEF d
  <2>2. /\ Become(d) /\ enabled' = FALSE /\ listenTargets' = listenTargets
        /\ stale' \in 0 .. MaxStale
    BY <1>1, <1>7, CountAssumption DEF DisableNetwork, Interrupt, StaleAfterClose, d
  <2>3. Good(d, FALSE, listenTargets)
    BY <2>1, GoodRecord DEF DisabledWell
  <2>4. QED  BY <1>1, <2>2, <2>3, BecomesGood
<1>8. CASE CredentialDidChange
  <2> DEFINE d == Disabled(Objects, "Unknown")
  <2>1. DisabledWell(d)
    BY <1>1, <1>2, DisabledIsGood
  <2> HIDE DEF d
  <2>2. Good(Enabled(d), TRUE, listenTargets)
    BY <1>1, <2>1, EnabledIsGood DEF DisabledWell
  <2>3. /\ Become(Enabled(d)) /\ enabled = TRUE
        /\ UNCHANGED <<enabled, listenTargets>> /\ stale' \in 0 .. MaxStale
    BY <1>1, <1>8, CountAssumption DEF CredentialDidChange, Interrupt, StaleAfterClose, d
  <2>4. QED  BY <1>1, <2>2, <2>3, BecomesGood
<1>9. CASE TokenArrives
  <2>1. stream.state = "Starting" /\ stream' = Opened(stream)
        /\ UNCHANGED <<tracker, listenTargets, enabled, aggregator, stale>>
    BY <1>1, <1>9 DEF TokenArrives, GoodStream
  <2>2. (stream.ok /\ stream.state = "Starting") = TRUE /\ stream.ok = TRUE /\ stream \in Streams
    BY <1>1, <2>1, Zenon DEF GoodStream, Streams
  <2>3. stream' = [stream EXCEPT !.token = FALSE, !.state = "Open", !.ok = TRUE,
                                 !.requested = listenTargets, !.former = {}, !.crossed = {}]
    BY <2>1, <2>2 DEF Opened
  <2>4. /\ stream' \in Streams /\ stream'.ok /\ stream'.state = "Open" /\ ~stream'.token
        /\ stream'.requested = listenTargets /\ stream'.crossed = {}
        /\ stream'.idleTimer = stream.idleTimer
        /\ stream'.backoffTimer = stream.backoffTimer /\ stream'.errors = stream.errors
        /\ stream'.base = stream.base /\ stream'.answered = stream.answered
    BY <1>1, <2>2, <2>3 DEF Streams, States
  <2>5. GoodStream(stream')
    BY <1>1, <2>1, <2>4 DEF GoodStream
  <2>6. Fitting(stream', tracker', aggregator', enabled', listenTargets')
    BY <1>1, <2>1, <2>4 DEF Fitting, IsOpen, IsStarted
  <2>7. QED  BY <1>1, <2>1, <2>5, <2>6, GoodNext
<1>10. CASE TokenFails
  <2> DEFINE s == [stream EXCEPT !.token = FALSE]
  <2>1. PICK status \in Statuses \ {"ok"} :
          Become(Close(With([stream EXCEPT !.token = FALSE]), status, enabled, listenTargets))
    BY <1>10 DEF TokenFails
  <2>2. With(s) = [stream |-> s, tracker |-> tracker, aggregator |-> aggregator]
    BY DEF With
  <2>3. ClosableStream(s)
    <3>1. stream.token /\ stream.state = "Starting" /\ ClosableStream(stream)
      BY <1>1, <1>10, GoodIsClosable DEF TokenFails, GoodStream, IsStarted
    <3>2. QED  BY <3>1 DEF ClosableStream, Streams, IsStarted
  <2> HIDE DEF s
  <2>4. Good(Close([stream |-> s, tracker |-> tracker, aggregator |-> aggregator],
                   status, enabled, listenTargets), enabled, listenTargets)
    BY <1>1, <2>3, CloseIsGood
  <2>5. UNCHANGED <<listenTargets, enabled, stale>>
    BY <1>10 DEF TokenFails
  <2>6. Become(Close([stream |-> s, tracker |-> tracker, aggregator |-> aggregator],
                     status, enabled, listenTargets))
    BY <2>1, <2>2 DEF s
  <2>7. QED  BY <1>1, <2>4, <2>5, <2>6, BecomesGood
<1>11. CASE StaleTokenArrives
  <2>1. UNCHANGED <<stream, tracker, listenTargets, enabled, aggregator>>
    BY <1>11 DEF StaleTokenArrives
  <2>2. stale' \in 0 .. MaxStale
    BY <1>1, <1>11, CountAssumption DEF StaleTokenArrives
  <2>3. /\ GoodStream(stream') /\ GoodTracker(tracker')
        /\ Fitting(stream', tracker', aggregator', enabled', listenTargets')
    BY <1>1, <2>1
  <2>4. enabled' \in BOOLEAN /\ aggregator' \in BOOLEAN /\ listenTargets' \in SUBSET Targets
    BY <1>1, <2>1
  <2>5. QED  BY <2>2, <2>3, <2>4, GoodNext
<1>12. CASE BackoffElapsed
  <2> DEFINE s == [stream EXCEPT !.backoffTimer = FALSE, !.ok = TRUE, !.state = "Initial"]
  <2>1. stream.state = "Backoff" /\ stream.backoffTimer /\ stream \in Streams /\ ~stream.token
    BY <1>1, <1>12 DEF BackoffElapsed, GoodStream
  <2>2. (stream.ok /\ stream.state = "Backoff") = TRUE
    BY <1>1, <2>1, Zenon DEF GoodStream
  <2>3. stream' = Start(s) /\ UNCHANGED <<tracker, listenTargets, enabled, aggregator, stale>>
    BY <1>12, <2>2 DEF BackoffElapsed
  <2>4. /\ s \in Streams /\ s.ok /\ s.state = "Initial" /\ ~s.token /\ ~s.backoffTimer
        /\ s.errors = stream.errors /\ s.base = stream.base /\ s.idleTimer = stream.idleTimer
    BY <2>1 DEF Streams, States
  <2> HIDE DEF s
  <2>5. GoodStream(s) /\ ~IsStarted(s)
    BY <1>1, <2>1, <2>4 DEF GoodStream, IsStarted
  <2>6. /\ GoodStream(stream') /\ stream'.state \in {"Starting", "Backoff"}
        /\ stream'.idleTimer = stream.idleTimer
    BY <2>3, <2>4, <2>5, StartOfStream
  <2>7. Fitting(stream', tracker', aggregator', enabled', listenTargets')
    BY <1>1, <2>1, <2>3, <2>6 DEF Fitting, IsOpen, IsStarted
  <2>8. QED  BY <1>1, <2>3, <2>6, <2>7, GoodNext
<1>13. CASE IdleTimeout
  <2> DEFINE s == [stream EXCEPT !.idleTimer = FALSE]
             o == [stream |-> s, tracker |-> tracker, aggregator |-> aggregator]
  <2>1. IsOpen(stream) /\ listenTargets = {} /\ stream \in Streams
    BY <1>1, <1>13 DEF IdleTimeout, Fitting, GoodStream
  <2>2. With(s) = o /\ o.stream = s
    BY DEF With
  <2>3. ClosableStream(s) /\ IsStarted(s)
    <3>1. ClosableStream(stream)
      BY <1>1, <2>1, GoodIsClosable DEF IsOpen, IsStarted
    <3>2. QED  BY <3>1 DEF ClosableStream, Streams, IsStarted
  <2> HIDE DEF s
  <2>4. Good(Close(o, "ok", enabled, listenTargets), enabled, listenTargets)
    BY <1>1, <2>1, <2>3, CloseIsGood DEF Statuses
  <2>5. Stop(o, enabled, listenTargets) = Close(o, "ok", enabled, listenTargets)
    BY <2>2, <2>3 DEF Stop
  <2>6. /\ Become(Stop(o, enabled, listenTargets))
        /\ UNCHANGED <<listenTargets, enabled>> /\ stale' \in 0 .. MaxStale
    <3>1. Interrupt(Stop(o, enabled, listenTargets)) /\ UNCHANGED <<listenTargets, enabled>>
      BY <1>13, <2>2 DEF IdleTimeout, s
    <3> HIDE DEF o
    <3>2. QED  BY <1>1, <3>1, CountAssumption DEF Interrupt, StaleAfterClose
  <2> HIDE DEF o
  <2>7. QED  BY <1>1, <2>4, <2>5, <2>6, BecomesGood
<1>14. CASE OnlineStateTimeout
  <2>1. tracker.state = "Unknown" /\ tracker.timer /\ tracker \in Trackers
        /\ UNCHANGED <<stream, listenTargets, enabled, aggregator, stale>>
    BY <1>1, <1>14 DEF OnlineStateTimeout, GoodTracker
  <2>2. (tracker.ok /\ tracker.state = "Unknown") = TRUE
    BY <1>1, <2>1, Zenon DEF GoodTracker
  <2>3. tracker' = [tracker EXCEPT !.timer = FALSE, !.ok = TRUE, !.state = "Offline"]
    BY <1>14, <2>2 DEF OnlineStateTimeout
  <2>4. GoodTracker(tracker') /\ ~tracker'.timer /\ tracker'.state = "Offline"
    BY <2>1, <2>3 DEF GoodTracker, Trackers
  <2>5. Fitting(stream', tracker', aggregator', enabled', listenTargets')
    BY <1>1, <2>1, <2>4 DEF Fitting
  <2>6. QED  BY <1>1, <2>1, <2>4, <2>5, GoodNext
<1>15. CASE WatchStreamDidChange
  <2>1. PICK mismatched \in SUBSET listenTargets : stream' = Rewatched(Answered(stream), mismatched)
    BY <1>15 DEF WatchStreamDidChange
  <2>2. IsOpen(stream) /\ tracker' = UpdateState(tracker, "Online")
        /\ UNCHANGED <<listenTargets, enabled, aggregator, stale>>
    BY <1>15 DEF WatchStreamDidChange
  <2>3. /\ AnsweredWell(stream) /\ stream.requested = listenTargets \cup stream.crossed
        /\ listenTargets \cap stream.crossed = {}
    BY <1>1, <2>2, AnsweredIsGood DEF Fitting
  <2> DEFINE w == Answered(stream)
  <2>8. GoodStream(w) /\ IsOpen(w) /\ w.answered /\ w.requested = listenTargets \cup stream.crossed
        /\ w.crossed = stream.crossed /\ w.idleTimer = stream.idleTimer
    BY <2>3 DEF AnsweredWell
  <2>9. mismatched \in SUBSET Targets /\ stream' = Rewatched(w, mismatched)
    BY <1>1, <2>1
  <2> HIDE DEF w
  <2>4. /\ GoodStream(stream') /\ IsOpen(stream') /\ stream'.answered
        /\ stream'.requested = listenTargets \cup stream'.crossed
        /\ stream'.crossed = stream.crossed
        /\ (stream'.idleTimer => stream.idleTimer)
    <3>1. /\ GoodStream(stream') /\ IsOpen(stream') /\ stream'.answered = w.answered
          /\ stream'.requested = w.requested \cup mismatched /\ stream'.crossed = w.crossed
          /\ (stream'.idleTimer => w.idleTimer)
      BY <2>8, <2>9, RewatchedIsGood
    <3>2. (listenTargets \cup stream.crossed) \cup mismatched = listenTargets \cup stream.crossed
      OBVIOUS
    <3>3. QED  BY <2>8, <3>1, <3>2
  <2>5. /\ GoodTracker(tracker') /\ tracker'.state = "Online" /\ ~tracker'.timer
    BY <1>1, <2>2, UpdateOfTracker
  <2>6. Fitting(stream', tracker', aggregator', enabled', listenTargets')
    BY <1>1, <2>2, <2>3, <2>4, <2>5 DEF Fitting, IsOpen, IsStarted
  <2>7. QED  BY <1>1, <2>2, <2>4, <2>5, <2>6, GoodNext
<1>16. CASE TargetsRejected
  <2>1. PICK last \in SUBSET stream.requested : \E late \in SUBSET (stream.former \ last) :
          /\ last \cup late # {}
          /\ listenTargets' = listenTargets \ (last \cup late)
          /\ stream' = [Answered(stream) EXCEPT !.requested = @ \ last, !.former = @ \ last,
                                                 !.crossed = (@ \ last) \cup (late \cap listenTargets)]
    BY <1>16 DEF TargetsRejected
  <2>2. PICK late \in SUBSET (stream.former \ last) :
          /\ listenTargets' = listenTargets \ (last \cup late)
          /\ stream' = [Answered(stream) EXCEPT !.requested = @ \ last, !.former = @ \ last,
                                                 !.crossed = (@ \ last) \cup (late \cap listenTargets)]
    BY <2>1
  <2>3. IsOpen(stream) /\ tracker' = UpdateState(tracker, "Online")
        /\ UNCHANGED <<enabled, aggregator, stale>>
    BY <1>16 DEF TargetsRejected
  <2>4. /\ AnsweredWell(stream) /\ stream.requested = listenTargets \cup stream.crossed
        /\ listenTargets \cap stream.crossed = {}
    BY <1>1, <2>3, AnsweredIsGood DEF Fitting
  <2> DEFINE w == Answered(stream)
             crossed == (stream.crossed \ last) \cup (late \cap listenTargets)
  <2>5. /\ GoodStream(w) /\ IsOpen(w) /\ w.answered /\ w.requested = stream.requested
        /\ w.crossed = stream.crossed /\ w.idleTimer = stream.idleTimer /\ w \in Streams
    BY <2>4 DEF AnsweredWell, GoodStream
  <2>6. stream' = [w EXCEPT !.requested = @ \ last, !.former = @ \ last, !.crossed = crossed]
    BY <2>2, <2>5
  <2>7. crossed \in SUBSET Targets
    BY <1>1 DEF GoodStream, Streams
  <2> HIDE DEF w
  <2>8. /\ GoodStream(stream') /\ IsOpen(stream') /\ stream'.answered
        /\ stream'.requested = stream.requested \ last /\ stream'.crossed = crossed
        /\ stream'.idleTimer = stream.idleTimer
    <3> HIDE DEF crossed
    <3>1. /\ stream' \in Streams /\ stream'.answered /\ stream'.requested = stream.requested \ last
          /\ stream'.crossed = crossed /\ stream'.idleTimer = stream.idleTimer
      BY <2>5, <2>6, <2>7 DEF Streams
    <3>2. /\ stream'.ok = w.ok /\ stream'.state = w.state /\ stream'.token = w.token
          /\ stream'.backoffTimer = w.backoffTimer /\ stream'.errors = w.errors
          /\ stream'.delay = w.delay /\ stream'.base = w.base
      BY <2>5, <2>6 DEF Streams
    <3>3. QED  BY <2>5, <3>1, <3>2 DEF GoodStream, IsOpen
  <2>9. /\ stream'.requested = listenTargets' \cup stream'.crossed
        /\ listenTargets' \cap stream'.crossed = {}
    BY <2>2, <2>4, <2>8
  <2>10. /\ GoodTracker(tracker') /\ tracker'.state = "Online" /\ ~tracker'.timer
    BY <1>1, <2>3, UpdateOfTracker
  <2>11. listenTargets' \in SUBSET Targets /\ (listenTargets = {} => listenTargets' = {})
    BY <1>1, <2>2
  <2> HIDE DEF crossed
  <2>12. Fitting(stream', tracker', aggregator', enabled', listenTargets')
    BY <1>1, <2>3, <2>8, <2>9, <2>10, <2>11 DEF Fitting, IsOpen, IsStarted
  <2>13. QED  BY <1>1, <2>3, <2>8, <2>10, <2>11, <2>12, GoodNext
<1>17. CASE OnStreamFinish
  <2>1. PICK status \in Statuses : Become(Close(Objects, status, enabled, listenTargets))
    BY <1>17 DEF OnStreamFinish
  <2>2. ClosableStream(stream)
    BY <1>1, <1>17, GoodIsClosable DEF OnStreamFinish, IsOpen, IsStarted
  <2>3. UNCHANGED <<listenTargets, enabled, stale>>
    BY <1>17 DEF OnStreamFinish
  <2>4. CASE status = "ok" => ~(enabled /\ listenTargets # {})
    <3>1. Good(Close(Objects, status, enabled, listenTargets), enabled, listenTargets)
      BY <1>1, <1>2, <2>2, <2>4, CloseIsGood
    <3>2. QED  BY <1>1, <2>1, <2>3, <3>1, BecomesGood
  <2>5. CASE status = "ok" /\ enabled /\ listenTargets # {}
    <3> DEFINE r == Close(Objects, "ok", TRUE, listenTargets)
    <3>1. AbortedBy(r, tracker, aggregator)
      BY <1>2, <2>2, <2>5, CloseAborts
    <3>2. Become(r)
      <4>1. enabled = TRUE
        BY <1>1, <2>5
      <4>2. QED  BY <2>1, <2>5, <4>1
    <3> HIDE DEF r
    <3>3. /\ stream' \in Streams /\ stream'.state = "Initial" /\ ~stream'.ok
          /\ tracker' = tracker /\ aggregator' = aggregator
      BY <3>1, <3>2 DEF AbortedBy, Become
    <3>4. TypeOK'
      BY <1>1, <2>3, <3>3 DEF TypeOK, GoodTracker
    <3>5. IInv'
      BY <3>3 DEF IInv, Running
    <3>6. CleanEnd
      BY <1>1, <1>17, <2>5, <3>3 DEF CleanEnd, GoodTracker
    <3>7. QED  BY <3>4, <3>5, <3>6
  <2>6. QED  BY <2>4, <2>5
<1>18. QED
  BY <1>4, <1>5, <1>6, <1>7, <1>8, <1>9, <1>10, <1>11, <1>12, <1>13, <1>14, <1>15, <1>16, <1>17
     DEF Next

\* The program starts in the invariant.
LEMMA Initial ==
  ASSUME Init
  PROVE  TypeOK /\ IInv
<1> USE DEF Init
<1>1. 0 \in 0 .. MaxDelay /\ 0 \in 0 .. MaxFailures /\ 0 \in 0 .. MaxStale /\ 0 \in 0 .. 2
  BY DelayAssumption, CountAssumption
<1>2. stream \in Streams /\ tracker \in Trackers
  BY <1>1 DEF Streams, Trackers, States
<1>3. TypeOK
  BY <1>1, <1>2 DEF TypeOK
<1>4. Running /\ NeededIsStarted /\ OpenCarriesListens /\ OnlineIsProven
  BY DEF Running, NeededIsStarted, OpenCarriesListens, OnlineIsProven, IsOpen
<1>5. TimersCoherent /\ RetriesBackOff /\ TokenOfStarting /\ StartedRecords /\ BaseGrows
  BY DEF TimersCoherent, RetriesBackOff, TokenOfStarting, StartedRecords, BaseGrows, IsStarted
<1>6. QED  BY <1>3, <1>4, <1>5 DEF IInv

\* Nothing is done after an abort, so every step keeps the types and IInv.
LEMMA StepKeeps ==
  ASSUME TypeOK, IInv, [Next]_vars
  PROVE  TypeOK' /\ IInv' /\ [~Running' => CleanEnd]_vars
<1>1. CASE Next
  BY <1>1, Inductive
<1>2. CASE UNCHANGED vars
  <2>1. TypeOK'
    BY <1>2 DEF vars, TypeOK
  <2>2. IInv'
    BY <1>2 DEF vars, IInv, Running, NeededIsStarted, OpenCarriesListens, OnlineIsProven, TimersCoherent,
                RetriesBackOff, TokenOfStarting, StartedRecords, BaseGrows, IsOpen, IsStarted
  <2>3. QED  BY <1>2, <2>1, <2>2
<1>3. QED  BY <1>1, <1>2

\* The types and the inductive invariant hold of every reachable state.
THEOREM Invariance == Spec => [](TypeOK /\ IInv)
<1>1. Init => TypeOK /\ IInv
  BY Initial
<1>2. TypeOK /\ IInv /\ [Next]_vars => TypeOK' /\ IInv'
  BY StepKeeps
<1>3. QED  BY <1>1, <1>2, PTL DEF Spec

\* The app is aborted only when the server ends with the status ok a stream that is needed: no
\* other assertion of the stream, the remote store or the online state tracker fails, in whatever
\* order calls, late tokens, timers and failures come.
THEOREM OnlyCleanEndAborts == Spec => AbortsOnCleanEndOnly
<1>1. TypeOK /\ IInv /\ [Next]_vars => [~Running' => CleanEnd]_vars
  BY StepKeeps
<1>2. QED  BY <1>1, Invariance, PTL DEF Spec, AbortsOnCleanEndOnly

\* A listen always has its stream: while the network is enabled and something is listened to,
\* the stream is started, whatever is listened to, left, broken or restarted before.
THEOREM NeededIsThere == Spec => []NeededIsStarted
<1>1. IInv => NeededIsStarted
  BY DEF IInv, NeededIsStarted
<1>2. QED  BY <1>1, Invariance, PTL

\* A stream that is open has everything watched that is listened to; what it has watched beyond
\* that, a rejection that came late has left.
THEOREM ListensAreServed == Spec => []OpenCarriesListens
<1>1. IInv => OpenCarriesListens
  BY DEF IInv, OpenCarriesListens, IsOpen
<1>2. QED  BY <1>1, Invariance, PTL

\* Online is claimed only with a message of the connection that is open.
THEOREM OnlineHasProof == Spec => []OnlineIsProven
<1>1. IInv => OnlineIsProven
  BY DEF IInv, OnlineIsProven
<1>2. QED  BY <1>1, Invariance, PTL

\* The timers are those of the present state.
THEOREM TimersFitState == Spec => []TimersCoherent
<1>1. IInv => TimersCoherent
  BY DEF IInv, TimersCoherent
<1>2. QED  BY <1>1, Invariance, PTL

\* A second failure waits at least the initial delay, whatever the delays are.
THEOREM RetriesWait == Spec => []RetriesBackOff
<1>1. IInv => RetriesBackOff
  BY DEF IInv, RetriesBackOff
<1>2. QED  BY <1>1, Invariance, PTL
===============================================================================
