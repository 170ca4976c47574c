----------------------- MODULE EnvironmentWorkerProofs -----------------------
(***************************************************************************)
(* However many workers and items there are, whatever the lease's time to  *)
(* live and whatever fails: a worker that cannot renew its lease gives its *)
(* item up in bounded time, and it stops an item only after its heartbeat  *)
(* loop is over and has not reported the lease lost; it reports an item    *)
(* completed only if it was, and does not stop another worker's item until *)
(* a whole lease after its own last success.                               *)
(***************************************************************************)
EXTENDS EnvironmentWorker, TLAPS

\* How stale the lease can be at each point of the heartbeat loop: a beat that
\* failed while it was no staler than TTL is followed by a wait of an interval
\* and by a beat that may take another.
Punctual(s) ==
  /\ s.beat = "wait" => s.since <= TTL + s.timer
  /\ s.beat \in {"sent", "reply"} /\ s.reply # "timeout" =>
       s.timer = 0 /\ s.since <= TTL + Interval
  /\ s.beat = "reply" /\ s.reply = "timeout" => s.since <= TTL + Interval + s.timer
  /\ s.reply # "none" => s.beat = "reply"

\* The loop is alive for as long as nobody cancelled it.
Guarded(s) ==
  /\ s.at \in {"setup", "run"} /\ ~s.cancelled => s.beat \in {"sent", "reply", "wait"}
  /\ s.at = "stop" => s.beat = "done" /\ s.cause \in {"none", "stop_requested"}
  /\ s.beat \in {"sent", "reply", "wait"} => s.at \in {"setup", "run", "close"}
  /\ s.item = NoWork <=> Unemployed(s)

Sound(s) == s \in WorkerRecords /\ Punctual(s) /\ Guarded(s)

IInv == TypeOK /\ \A k \in Workers : Sound(wk[k])

-----------------------------------------------------------------------------
\* A heartbeat interval is at least a second (clampHeartbeatInterval).
LEMMA IntervalRange == Interval \in Nat /\ Interval >= 1
<1>1. Half \in Nat
  BY TTLAssumption DEF Half
<1> QED
  BY <1>1 DEF Interval

\* The bound of a saturating counter.
LEMMA AtMostRange ==
  ASSUME NEW n \in Nat, NEW max \in Nat
  PROVE  AtMost(n, max) \in 0..max /\ AtMost(n, max) <= n
BY DEF AtMost

\* A worker between two items is sound.
LEMMA PollingSound ==
  \A b \in BOOLEAN :
     /\ Sound(Polling) /\ Sound([Polling EXCEPT !.at = "down"])
     /\ Sound([Polling EXCEPT !.shutdown = b])
<1>1. Polling \in WorkerRecords
  BY IntervalRange, TTLAssumption DEF Polling, WorkerRecords, MaxStale, Causes
<1> QED
  BY <1>1 DEF Polling, WorkerRecords, Sound, Punctual, Guarded, Unemployed

\* A new worker has no item and no heartbeat.
LEMMA InitIInv == Init => IInv
<1> SUFFICES ASSUME Init PROVE IInv
  OBVIOUS
<1>1. NewWork \in WorkRecords
  BY TTLAssumption DEF NewWork, WorkRecords
<1>2. Polling \in WorkerRecords /\ Sound(Polling)
  BY PollingSound DEF Sound
<1>3. TypeOK
  BY <1>1, <1>2, BoundAssumption DEF Init, TypeOK, Sound, Guarded
<1> QED
  BY <1>2, <1>3 DEF Init, IInv

-----------------------------------------------------------------------------
(* Steps                                                                   *)

\* What keeps IInv: one worker takes a sound step, work and faults stay typed.
LEMMA WorkerStep ==
  ASSUME IInv, NEW k \in Workers, NEW s, Sound(s), wk' = [wk EXCEPT ![k] = s],
         work' \in [Works -> WorkRecords], faults' \in 0..MaxFaults
  PROVE  IInv'
<1>1. wk' \in [Workers -> WorkerRecords]
  BY DEF IInv, TypeOK, Sound
<1>2. \A j \in Workers : wk'[j] = IF j = k THEN s ELSE wk[j]
  BY DEF IInv, TypeOK
<1>3. \A j \in Workers : Sound(wk'[j])
  BY <1>2 DEF IInv
<1>4. \A j \in Workers : wk'[j].item = NoWork <=> Unemployed(wk'[j])
  BY <1>3 DEF Sound, Guarded
<1> QED
  BY <1>1, <1>3, <1>4 DEF IInv, TypeOK, Unemployed

\* The number of faults stays within its bound.
LEMMA FaultTyped ==
  ASSUME TypeOK, NEW kind, Fault(kind)
  PROVE  faults' \in 0..MaxFaults
BY BoundAssumption DEF TypeOK, Fault

\* A work item is stopped, claimed or handed out: the queue stays typed.
LEMMA WorkTyped ==
  ASSUME TypeOK, NEW k \in Workers, NEW w,
         \/ Stopped(w) \/ Claim(k, w) \/ UNCHANGED work
         \/ work' = [work EXCEPT ![w] = NewWork]
         \/ work' = [work EXCEPT ![w].state = "active", ![w].age = 0]
         \/ work' = [work EXCEPT ![w].state = "stopping"]
  PROVE  work' \in [Works -> WorkRecords]
<1>1. 0 \in 0..TTL + 1
  BY TTLAssumption
<1> QED
  BY <1>1 DEF TypeOK, WorkRecords, Stopped, Claim, NewWork

\* Where a worker is outside the heartbeat loop may change freely, as long as
\* it does not start to stop an item.
LEMMA GoesSound ==
  ASSUME NEW s, Sound(s),
         NEW at \in {"poll", "ack", "discard", "drop", "sleep", "down"},
         NEW i \in Works \cup {NoWork}, s.at \notin {"setup", "run", "close"},
         i = NoWork <=> at \in {"poll", "sleep", "down"}
  PROVE  Sound([s EXCEPT !.at = at, !.item = i])
BY DEF Sound, WorkerRecords, Punctual, Guarded, Unemployed

\* The poller's steps.
LEMMA PollerStep ==
  ASSUME IInv, NEW k \in Workers, Poller(k)
  PROVE  IInv'
<1> DEFINE s == wk[k]
<1>0. TypeOK /\ Sound(s) /\ faults \in 0..MaxFaults /\ s.item \in Works \cup {NoWork}
  BY DEF IInv, TypeOK, Sound, WorkerRecords
<1>a. s.item = NoWork <=> Unemployed(s)
  BY <1>0 DEF Sound, Guarded
<1>1. CASE \E w \in Works : Poll(k, w)
  <2>1. PICK w \in Works : Poll(k, w)
    BY <1>1
  <2>2. PICK at \in {"ack", "discard"} : wk' = [wk EXCEPT ![k] = [s EXCEPT !.at = at, !.item = w]]
    BY <1>0, <2>1 DEF Poll, TypeOK, Sound, WorkerRecords
  <2>3. Sound([s EXCEPT !.at = at, !.item = w])
    BY <1>0, <2>1, NamesAssumption, GoesSound DEF Poll
  <2> QED
    BY <1>0, <2>1, <2>2, <2>3, WorkTyped, WorkerStep DEF Poll
<1>2. CASE PollFails(k)
  <2>1. PICK at \in {"sleep", "down"} : Goes(k, at)
    BY <1>2 DEF PollFails
  <2>2. wk' = [wk EXCEPT ![k] = [s EXCEPT !.at = at, !.item = s.item]]
    BY <1>0, <2>1 DEF Goes, TypeOK, Sound, WorkerRecords
  <2>3. Sound([s EXCEPT !.at = at, !.item = s.item])
    BY <1>0, <1>a, <1>2, GoesSound DEF PollFails, Unemployed
  <2>4. faults' \in 0..MaxFaults
    BY <1>0, <1>2, FaultTyped DEF PollFails
  <2> QED
    BY <1>0, <1>2, <2>2, <2>3, <2>4, WorkTyped, WorkerStep DEF PollFails
<1>3. CASE AckAccepted(k)
  <2> DEFINE r == Handling(s.item, s.shutdown)
  <2>1. r \in WorkerRecords
    BY <1>0, IntervalRange, TTLAssumption
    DEF Sound, Handling, WorkerRecords, MaxStale, Causes
  <2>2. Sound(r)
    BY <1>a, <1>3, <2>1, IntervalRange, TTLAssumption
    DEF AckAccepted, Handling, Sound, Punctual, Guarded, Unemployed
  <2> QED
    BY <1>0, <1>3, <2>2, WorkTyped, WorkerStep DEF AckAccepted
<1>4. CASE AckConflicts(k)
  <2>1. wk' = [wk EXCEPT ![k] = [s EXCEPT !.at = "poll", !.item = NoWork]]
    BY <1>0, <1>4 DEF AckConflicts, TypeOK, Sound, WorkerRecords
  <2>2. Sound([s EXCEPT !.at = "poll", !.item = NoWork])
    BY <1>0, <1>4, GoesSound DEF AckConflicts
  <2> QED
    BY <1>0, <1>4, <2>1, <2>2, WorkTyped, WorkerStep DEF AckConflicts
<1>5. CASE AckFails(k)
  <2>1. PICK at \in {"sleep", "down", "poll"} :
           wk' = [wk EXCEPT ![k] = [s EXCEPT !.at = at, !.item = NoWork]]
    BY <1>0, <1>5 DEF AckFails, TypeOK, Sound, WorkerRecords
  <2>2. Sound([s EXCEPT !.at = at, !.item = NoWork])
    BY <1>0, <1>5, GoesSound DEF AckFails
  <2>3. faults' \in 0..MaxFaults
    BY <1>0, <1>5, FaultTyped DEF AckFails
  <2>4. work' \in [Works -> WorkRecords]
    BY <1>0, <1>5, WorkTyped DEF AckFails
  <2> QED
    BY <2>1, <2>2, <2>3, <2>4, WorkerStep
<1>6. CASE DiscardClaimed(k)
  <2>1. wk' = [wk EXCEPT ![k] = [s EXCEPT !.at = "drop", !.item = s.item]]
    BY <1>0, <1>6 DEF DiscardClaimed, Goes, TypeOK, Sound, WorkerRecords
  <2>2. Sound([s EXCEPT !.at = "drop", !.item = s.item])
    BY <1>0, <1>a, <1>6, GoesSound DEF DiscardClaimed, Unemployed
  <2> QED
    BY <1>0, <1>6, <2>1, <2>2, WorkTyped, WorkerStep DEF DiscardClaimed
<1>7. CASE DiscardStopped(k)
  <2>1. wk' = [wk EXCEPT ![k] = [s EXCEPT !.at = "sleep", !.item = NoWork]]
    BY <1>0, <1>7 DEF DiscardStopped, TypeOK, Sound, WorkerRecords
  <2>2. Sound([s EXCEPT !.at = "sleep", !.item = NoWork])
    BY <1>0, <1>7, GoesSound DEF DiscardStopped
  <2>3. faults' \in 0..MaxFaults
    BY <1>0, <1>7, FaultTyped DEF DiscardStopped
  <2> QED
    BY <1>0, <1>7, <2>1, <2>2, <2>3, WorkTyped, WorkerStep DEF DiscardStopped
<1>8. CASE SleepEnds(k)
  <2>1. wk' = [wk EXCEPT ![k] = [s EXCEPT !.at = "poll", !.item = s.item]]
    BY <1>0, <1>8 DEF SleepEnds, Goes, TypeOK, Sound, WorkerRecords
  <2>2. Sound([s EXCEPT !.at = "poll", !.item = s.item])
    BY <1>0, <1>a, <1>8, GoesSound DEF SleepEnds, Unemployed
  <2> QED
    BY <1>0, <1>8, <2>1, <2>2, WorkTyped, WorkerStep DEF SleepEnds
<1>9. CASE RunReturns(k)
  BY <1>0, <1>9, PollingSound, WorkTyped, WorkerStep DEF RunReturns
<1> QED
  BY <1>1, <1>2, <1>3, <1>4, <1>5, <1>6, <1>7, <1>8, <1>9 DEF Poller

\* An item that is over: its worker closes the runner with workCtx cancelled.
LEMMA LeavesStep ==
  ASSUME IInv, NEW k \in Workers, NEW exit \in {"done", "failed", "cancelled"},
         wk[k].at \in {"setup", "run"}, Leaves(k, exit), UNCHANGED work,
         faults' \in 0..MaxFaults
  PROVE  IInv'
<1> DEFINE s == wk[k]
           r == [s EXCEPT !.at = "close", !.exit = exit, !.cancelled = TRUE]
<1>1. TypeOK /\ Sound(s)
  BY DEF IInv
<1>2. r \in WorkerRecords
  BY <1>1 DEF Sound, WorkerRecords
<1>a. /\ r.at = "close" /\ r.item = s.item /\ r.beat = s.beat /\ r.reply = s.reply
      /\ r.timer = s.timer /\ r.since = s.since
  BY <1>1 DEF Sound, WorkerRecords
<1>b. Sound(r)
  BY <1>1, <1>2, <1>a DEF Sound, Punctual, Guarded, Unemployed
<1>3. wk' = [wk EXCEPT ![k] = r]
  BY <1>1 DEF Leaves, TypeOK, Sound, WorkerRecords
<1>4. work' \in [Works -> WorkRecords]
  BY <1>1 DEF TypeOK
<1> QED
  BY <1>b, <1>3, <1>4, WorkerStep

\* The steps of handleItem.
LEMMA ItemStep ==
  ASSUME IInv, NEW k \in Workers, Item(k)
  PROVE  IInv'
<1> DEFINE s == wk[k]
<1>0. TypeOK /\ Sound(s) /\ faults \in 0..MaxFaults /\ work \in [Works -> WorkRecords]
  BY DEF IInv, TypeOK
<1>1. s.shutdown \in BOOLEAN
  BY <1>0 DEF Sound, WorkerRecords
<1>2. Sound(NextItem(k))
  BY <1>1, PollingSound DEF NextItem
<1>3. CASE SetupEnds(k)
  <2> DEFINE r == [s EXCEPT !.at = "run"]
  <2>1. Sound(r)
    BY <1>0, <1>3 DEF SetupEnds, Sound, WorkerRecords, Punctual, Guarded, Unemployed
  <2>2. wk' = [wk EXCEPT ![k] = r]
    BY <1>0, <1>3 DEF SetupEnds, Goes, TypeOK
  <2> QED
    BY <1>0, <1>3, <2>1, <2>2, WorkerStep DEF SetupEnds
<1>4. CASE SetupFails(k)
  <2>1. faults' \in 0..MaxFaults
    BY <1>0, <1>4, FaultTyped DEF SetupFails
  <2> QED
    BY <1>4, <2>1, LeavesStep DEF SetupFails
<1>5. CASE RunnerEnds(k)
  <2>1. faults' \in 0..MaxFaults
    BY <1>0, <1>5, FaultTyped DEF RunnerEnds
  <2> QED
    BY <1>5, <2>1, LeavesStep DEF RunnerEnds
<1>6. CASE ItemEnds(k)
  <2> DEFINE r == [s EXCEPT !.at = "stop"]
  <2>1. CASE ShouldStopItem(s.cause)
    <3>1. Sound(r)
      BY <1>0, <1>6, <2>1
      DEF ItemEnds, HeartbeatOver, ShouldStopItem, Sound, WorkerRecords, Punctual, Guarded,
          Unemployed
    <3>2. wk' = [wk EXCEPT ![k] = r]
      BY <1>0, <1>6, <2>1 DEF ItemEnds, TypeOK
    <3> QED
      BY <1>0, <1>6, <3>1, <3>2, WorkerStep DEF ItemEnds
  <2>2. CASE ~ShouldStopItem(s.cause)
    <3>1. wk' = [wk EXCEPT ![k] = NextItem(k)]
      BY <1>0, <1>6, <2>2 DEF ItemEnds, TypeOK
    <3> QED
      BY <1>0, <1>2, <1>6, <3>1, WorkerStep DEF ItemEnds
  <2> QED
    BY <2>1, <2>2
<1>7. CASE StopItem(k)
  <2>1. work' \in [Works -> WorkRecords]
    BY <1>0, <1>7, WorkTyped DEF StopItem
  <2>2. faults' \in 0..MaxFaults
    BY <1>0, <1>7, FaultTyped DEF StopItem
  <2> QED
    BY <1>2, <1>7, <2>1, <2>2, WorkerStep DEF StopItem
<1> QED
  BY <1>3, <1>4, <1>5, <1>6, <1>7 DEF Item

-----------------------------------------------------------------------------
\* A reply arrives, or turns out to be lost, in the interval of its request.
LEMMA RepliedSound ==
  ASSUME NEW s, Sound(s), s.beat \in {"sent", "reply"}, s.reply # "timeout",
         NEW r \in {"ok", "stopping", "refused", "expired", "error", "timeout", "fatal"},
         NEW c \in BOOLEAN
  PROVE  Sound([s EXCEPT !.beat = "reply", !.reply = r, !.current = c])
<1> DEFINE n == [s EXCEPT !.beat = "reply", !.reply = r, !.current = c]
<1>1. n \in WorkerRecords
  BY DEF Sound, WorkerRecords
<1>2. /\ n.at = s.at /\ n.item = s.item /\ n.beat = "reply" /\ n.reply = r
      /\ n.timer = s.timer /\ n.since = s.since /\ n.cancelled = s.cancelled
  BY DEF Sound, WorkerRecords
<1> HIDE DEF n
<1>3. s.timer = 0 /\ s.since <= TTL + Interval
  BY DEF Sound, Punctual
<1>4. Punctual(n)
  BY <1>2, <1>3, IntervalRange, TTLAssumption DEF Punctual
<1>5. Guarded(n)
  BY <1>2 DEF Sound, Guarded, Unemployed
<1>6. Sound(n)
  BY <1>1, <1>4, <1>5 DEF Sound
<1> QED
  BY <1>6 DEF n

\* A request that gets no reply but an error.
LEMMA RepliedStep ==
  ASSUME IInv, NEW k \in Workers, wk[k].beat \in {"sent", "reply"}, wk[k].reply # "timeout",
         NEW r \in {"stopping", "refused", "expired", "error", "timeout", "fatal"},
         Replied(k, r), UNCHANGED work, faults' \in 0..MaxFaults
  PROVE  IInv'
<1> DEFINE s == wk[k]
           n == [s EXCEPT !.beat = "reply", !.reply = r, !.current = s.current]
<1>1. TypeOK /\ Sound(s)
  BY DEF IInv
<1>2. s.current \in BOOLEAN
  BY <1>1 DEF Sound, WorkerRecords
<1>3. Sound(n)
  BY <1>1, <1>2, RepliedSound
<1>4. wk' = [wk EXCEPT ![k] = n]
  BY <1>1 DEF Replied, TypeOK, Sound, WorkerRecords
<1>5. work' \in [Works -> WorkRecords]
  BY <1>1 DEF TypeOK
<1> QED
  BY <1>3, <1>4, <1>5, WorkerStep

\* The loop is over: whoever handles the item is told by the cancelled context.
LEMMA HeartbeatEndsStep ==
  ASSUME IInv, NEW k \in Workers, wk[k].beat \in {"sent", "reply", "wait"},
         NEW cause \in Causes, HeartbeatEnds(k, cause), UNCHANGED <<work, faults>>
  PROVE  IInv'
<1> DEFINE s == wk[k]
           n == [s EXCEPT !.beat = "done", !.reply = "none", !.timer = 0,
                          !.cause = cause, !.cancelled = TRUE]
<1>1. TypeOK /\ Sound(s)
  BY DEF IInv
<1>0. 0 \in 0..Interval
  BY IntervalRange
<1>2. n \in WorkerRecords
  BY <1>0, <1>1 DEF Sound, WorkerRecords
<1>a. n.at = s.at /\ n.item = s.item /\ n.beat = "done" /\ n.reply = "none" /\ n.cancelled
  BY <1>1 DEF Sound, WorkerRecords
<1>b. Sound(n)
  BY <1>1, <1>2, <1>a DEF Sound, Punctual, Guarded, Unemployed
<1>3. wk' = [wk EXCEPT ![k] = n]
  BY <1>1 DEF HeartbeatEnds, TypeOK, Sound, WorkerRecords
<1> QED
  BY <1>1, <1>b, <1>3, WorkerStep DEF TypeOK

\* The loop goes on after a success, or after a failure that is not too old.
LEMMA HeartbeatGoesOnStep ==
  ASSUME IInv, NEW k \in Workers, wk[k].beat = "reply", NEW since \in 0..TTL,
         NEW c \in BOOLEAN, HeartbeatGoesOn(k, since, c), UNCHANGED <<work, faults>>
  PROVE  IInv'
<1> DEFINE s == wk[k]
           n == [s EXCEPT !.beat = "wait", !.reply = "none", !.timer = 0,
                          !.since = since, !.current = c]
<1>1. TypeOK /\ Sound(s)
  BY DEF IInv
<1>2. since \in 0..MaxStale + 1
  BY IntervalRange, TTLAssumption DEF MaxStale
<1>0. 0 \in 0..Interval
  BY IntervalRange
<1>3. n \in WorkerRecords
  BY <1>0, <1>1, <1>2 DEF Sound, WorkerRecords
<1>a. /\ n.at = s.at /\ n.item = s.item /\ n.beat = "wait" /\ n.reply = "none" /\ n.timer = 0
      /\ n.since = since
  BY <1>1 DEF Sound, WorkerRecords
<1>b. Sound(n)
  BY <1>1, <1>3, <1>a, TTLAssumption DEF Sound, Punctual, Guarded, Unemployed
<1>4. wk' = [wk EXCEPT ![k] = n]
  BY <1>1 DEF HeartbeatGoesOn, TypeOK, Sound, WorkerRecords
<1> QED
  BY <1>1, <1>b, <1>4, WorkerStep DEF TypeOK

\* The steps of heartbeatLoop.
LEMMA HeartbeatStep ==
  ASSUME IInv, NEW k \in Workers, HeartbeatLoop(k)
  PROVE  IInv'
<1> DEFINE s == wk[k]
<1>0. TypeOK /\ Sound(s) /\ faults \in 0..MaxFaults /\ work \in [Works -> WorkRecords]
  BY DEF IInv, TypeOK
<1>1. s.beat # "reply" => s.reply = "none"
  BY <1>0 DEF Sound, Punctual
<1>2. CASE Beat(k)
  <2>0. s.beat = "sent" /\ s.reply = "none" /\ UNCHANGED faults
    BY <1>1, <1>2 DEF Beat
  <2> DEFINE w == s.item
  <2>1. CASE BeatExtends(k, w)
    <3> DEFINE n == [s EXCEPT !.beat = "reply", !.reply = "ok", !.current = FALSE]
    <3>1. Sound(n)
      BY <1>0, <2>0, RepliedSound
    <3>2. wk' = [wk EXCEPT ![k] = n]
      BY <1>0, <2>1 DEF BeatExtends, TypeOK, Sound, WorkerRecords
    <3>3. work' \in [Works -> WorkRecords]
      BY <1>0, <2>1, WorkTyped DEF BeatExtends
    <3> QED
      BY <1>0, <2>0, <3>1, <3>2, <3>3, WorkerStep
  <2>2. CASE BeatMeetsStop(k, w)
    BY <1>0, <2>0, <2>2, RepliedStep DEF BeatMeetsStop
  <2>3. CASE BeatRefused(k, w)
    BY <1>0, <2>0, <2>3, RepliedStep DEF BeatRefused
  <2> QED
    BY <1>2, <2>1, <2>2, <2>3 DEF Beat
<1>3. CASE BeatFails(k)
  <2>1. faults' \in 0..MaxFaults
    BY <1>0, <1>3, FaultTyped DEF BeatFails
  <2>2. PICK r \in {"error", "timeout", "fatal"} : Replied(k, r)
    BY <1>3 DEF BeatFails
  <2>3. s.beat \in {"sent", "reply"} /\ s.reply # "timeout" /\ UNCHANGED work
    BY <1>1, <1>3 DEF BeatFails
  <2> QED
    BY <2>1, <2>2, <2>3, RepliedStep
<1>4. CASE BeatReturns(k)
  <2>1. s.since \in Nat /\ s.current \in BOOLEAN
    BY <1>0, IntervalRange, TTLAssumption DEF Sound, WorkerRecords, MaxStale
  <2>2. CASE \E cause \in Causes : HeartbeatEnds(k, cause)
    BY <1>4, <2>2, HeartbeatEndsStep DEF BeatReturns
  <2>3. CASE HeartbeatGoesOn(k, 0, TRUE)
    <3>1. 0 \in 0..TTL
      BY TTLAssumption
    <3> QED
      BY <1>4, <2>3, <3>1, HeartbeatGoesOnStep DEF BeatReturns
  <2>4. CASE ~TooStale(k) /\ HeartbeatGoesOn(k, s.since, s.current)
    <3>1. s.since \in 0..TTL
      BY <2>1, <2>4, TTLAssumption DEF TooStale
    <3> QED
      BY <1>4, <2>1, <2>4, <3>1, HeartbeatGoesOnStep DEF BeatReturns
  <2>5. {"none", "lease_lost", "lease_not_extended", "stop_requested", "heartbeat_lost",
         "heartbeat_permanent_failure"} \subseteq Causes
    BY DEF Causes
  <2> QED
    BY <1>4, <2>2, <2>3, <2>4, <2>5 DEF BeatReturns
<1>5. CASE NextBeat(k)
  <2> DEFINE n == [s EXCEPT !.beat = "sent", !.timer = 0]
  <2>0. 0 \in 0..Interval
    BY IntervalRange
  <2>1. n \in WorkerRecords
    BY <1>0, <2>0 DEF Sound, WorkerRecords
  <2>2. /\ n.at = s.at /\ n.item = s.item /\ n.beat = "sent" /\ n.reply = "none" /\ n.timer = 0
        /\ n.since = s.since /\ n.cancelled = s.cancelled
    BY <1>0, <1>1, <1>5 DEF NextBeat, Sound, WorkerRecords
  <2>3. s.since <= TTL + Interval
    BY <1>0, <1>5 DEF NextBeat, Sound, Punctual
  <2>4. Sound(n)
    BY <1>0, <1>5, <2>1, <2>2, <2>3 DEF NextBeat, Sound, Punctual, Guarded, Unemployed
  <2>5. wk' = [wk EXCEPT ![k] = n]
    BY <1>0, <1>5 DEF NextBeat, TypeOK, Sound, WorkerRecords
  <2> QED
    BY <1>0, <1>5, <2>4, <2>5, WorkerStep DEF NextBeat
<1>6. CASE HeartbeatCancelled(k)
  BY <1>6, HeartbeatEndsStep DEF HeartbeatCancelled, Causes
<1> QED
  BY <1>2, <1>3, <1>4, <1>5, <1>6 DEF HeartbeatLoop

-----------------------------------------------------------------------------
\* A second that a worker waits through, in a state that is timed.
LEMMA TickedSound ==
  ASSUME NEW s, Sound(s), s.beat = "wait" \/ s.reply = "timeout", s.timer < Interval
  PROVE  Sound([s EXCEPT !.timer = @ + 1, !.since = AtMost(@ + 1, MaxStale + 1)])
<1> DEFINE n == [s EXCEPT !.timer = @ + 1, !.since = AtMost(@ + 1, MaxStale + 1)]
<1>1. MaxStale \in Nat /\ TTL \in Nat /\ Interval \in Nat
  BY IntervalRange, TTLAssumption DEF MaxStale
<1>2. s.timer \in 0..Interval /\ s.since \in 0..MaxStale + 1
  BY DEF Sound, WorkerRecords
<1>a. s.since + 1 \in Nat /\ MaxStale + 1 \in Nat
  BY <1>1, <1>2
<1>3. AtMost(s.since + 1, MaxStale + 1) \in 0..MaxStale + 1
      /\ AtMost(s.since + 1, MaxStale + 1) <= s.since + 1
  BY <1>a, AtMostRange
<1>4. s.timer + 1 \in 0..Interval
  BY <1>1, <1>2
<1>5. n \in WorkerRecords
  BY <1>3, <1>4 DEF Sound, WorkerRecords
<1>6. /\ n.at = s.at /\ n.item = s.item /\ n.beat = s.beat /\ n.reply = s.reply /\ n.cancelled = s.cancelled
      /\ n.cause = s.cause /\ n.timer = s.timer + 1
      /\ n.since = AtMost(s.since + 1, MaxStale + 1)
  BY DEF Sound, WorkerRecords
<1> HIDE DEF n
<1>7. s.beat = "wait" \/ (s.beat = "reply" /\ s.reply = "timeout")
  BY DEF Sound, Punctual
<1>8. s.beat = "wait" => s.reply = "none"
  BY DEF Sound, Punctual
<1>9. Punctual(n)
  BY <1>1, <1>2, <1>3, <1>6, <1>7, <1>8 DEF Sound, Punctual
<1>10. Guarded(n)
  BY <1>6 DEF Sound, Guarded, Unemployed
<1>11. Sound(n)
  BY <1>5, <1>9, <1>10 DEF Sound
<1> QED
  BY <1>11 DEF n

\* Time passes only while every worker has time left to wait.
LEMMA TickStep ==
  ASSUME IInv, Tick
  PROVE  IInv'
<1>0. TypeOK /\ \A k \in Workers : Sound(wk[k])
  BY DEF IInv
<1>1. work' \in [Works -> WorkRecords]
  <2>1. ASSUME NEW w \in Works
        PROVE  [work[w] EXCEPT !.age = AtMost(@ + 1, TTL + 1)] \in WorkRecords
    <3>1. work[w] \in WorkRecords /\ work[w].age \in 0..TTL + 1
      BY <1>0 DEF TypeOK, WorkRecords
    <3>a. work[w].age + 1 \in Nat /\ TTL + 1 \in Nat
      BY <3>1, TTLAssumption
    <3>2. AtMost(work[w].age + 1, TTL + 1) \in 0..TTL + 1
      BY <3>a, AtMostRange
    <3> QED
      BY <3>1, <3>2 DEF WorkRecords
  <2> QED
    BY <1>0, <2>1 DEF Tick, TypeOK
<1>2. ASSUME NEW k \in Workers
      PROVE  Sound(wk'[k])
  <2>1. CASE Timed(k)
    <3>1. wk[k].beat \in {"sent", "reply", "wait"}
      BY <1>0, <2>1 DEF Timed, Sound, Punctual
    <3>2. wk[k].timer < Interval
      BY <3>1 DEF Tick, Waits
    <3>3. wk'[k] = [wk[k] EXCEPT !.timer = @ + 1, !.since = AtMost(@ + 1, MaxStale + 1)]
      BY <2>1 DEF Tick
    <3>4. Sound([wk[k] EXCEPT !.timer = @ + 1, !.since = AtMost(@ + 1, MaxStale + 1)])
      BY <1>0, <2>1, <3>2, TickedSound DEF Timed
    <3> QED
      BY <3>3, <3>4
  <2>2. CASE ~Timed(k)
    BY <1>0, <2>2 DEF Tick
  <2> QED
    BY <2>1, <2>2
<1>3. wk' \in [Workers -> WorkerRecords]
  BY <1>2 DEF Tick, Sound
<1>4. \A k \in Workers : wk'[k].item = NoWork <=> Unemployed(wk'[k])
  BY <1>2 DEF Sound, Guarded
<1> QED
  BY <1>0, <1>1, <1>2, <1>3, <1>4 DEF IInv, TypeOK, Tick, Unemployed

\* The clock, the control plane's stops, shutdowns, crashes and restarts.
LEMMA EnvironmentStep ==
  ASSUME IInv, Environment
  PROVE  IInv'
<1>0. TypeOK /\ (\A k \in Workers : Sound(wk[k])) /\ faults \in 0..MaxFaults
      /\ work \in [Works -> WorkRecords]
  BY DEF IInv, TypeOK
<1>1. CASE Tick
  BY <1>1, TickStep
<1>2. ASSUME NEW w \in Works, StopRequested(w) \/ StopExpires(w)
      PROVE  IInv'
  <2>1. work' \in [Works -> WorkRecords]
    BY <1>0, <1>2 DEF StopRequested, StopExpires, Stopped, WorkRecords
  <2>2. faults' \in 0..MaxFaults
    BY <1>0, <1>2, FaultTyped DEF StopRequested, StopExpires
  <2> QED
    BY <1>0, <1>2, <2>1, <2>2 DEF IInv, TypeOK, StopRequested, StopExpires
<1>3. ASSUME NEW k \in Workers, Shutdown(k)
      PROVE  IInv'
  <2> DEFINE s == wk[k]
             c == s.at \in {"setup", "run", "close", "stop"}
             n == [s EXCEPT !.shutdown = TRUE, !.cancelled = c]
  <2>1. faults' \in 0..MaxFaults
    BY <1>0, <1>3, FaultTyped DEF Shutdown
  <2> HIDE DEF c
  <2>a. c \in BOOLEAN
    BY DEF c
  <2>2. n \in WorkerRecords
    BY <1>0, <2>a DEF Sound, WorkerRecords
  <2>3. /\ n.at = s.at /\ n.item = s.item /\ n.beat = s.beat /\ n.reply = s.reply /\ n.timer = s.timer
        /\ n.since = s.since /\ n.cause = s.cause
        /\ n.cancelled = c
    BY <1>0 DEF Sound, WorkerRecords
  <2>4. Punctual(n)
    BY <1>0, <2>3 DEF Sound, Punctual
  <2>5. Guarded(n)
    BY <1>0, <2>3 DEF c, Sound, Guarded, Unemployed
  <2>6. wk' = [wk EXCEPT ![k] = n]
    BY <1>0, <1>3 DEF c, Shutdown, TypeOK, Sound, WorkerRecords
  <2> QED
    BY <1>0, <1>3, <2>1, <2>2, <2>4, <2>5, <2>6, WorkerStep DEF Sound, Shutdown
<1>4. ASSUME NEW k \in Workers, Crash(k) \/ Restart(k)
      PROVE  IInv'
  <2>1. faults' \in 0..MaxFaults
    BY <1>0, <1>4, FaultTyped DEF Crash, Restart
  <2>2. PICK n \in {Polling, [Polling EXCEPT !.at = "down"]} : wk' = [wk EXCEPT ![k] = n]
    BY <1>4 DEF Crash, Restart
  <2>3. Sound(n)
    BY PollingSound
  <2> QED
    BY <1>0, <1>4, <2>1, <2>2, <2>3, WorkerStep DEF Crash, Restart
<1> QED
  BY <1>1, <1>2, <1>3, <1>4 DEF Environment

-----------------------------------------------------------------------------
(* Who ended the item, and whose lease it is: a second invariant.          *)

\* A context that is over was cancelled by a shutdown or by the heartbeat loop,
\* which then left its cause.
Blamed(s) ==
  /\ s.cause # "none" => s.beat = "done"
  /\ s.cancelled /\ ~s.shutdown /\ s.at \in {"setup", "run"} => s.cause # "none"
  /\ s.exit = "cancelled" /\ ~s.shutdown => s.cause # "none"

Handles(s) == s.at \in {"setup", "run", "close", "stop"}

\* The lease is the worker's, and no older than its last success; or a whole
\* lease has passed since that success.
LeaseHeld(k) ==
  LET r == work[wk[k].item]
  IN  /\ r.owner = k /\ r.state # "queued" /\ r.age <= wk[k].since
      /\ wk[k].reply = "ok" => r.age = 0

LeaseOver(k) ==
  /\ work[wk[k].item].owner # k
  /\ wk[k].since >= TTL /\ wk[k].reply # "ok"

BlameInv == \A k \in Workers : Blamed(wk[k])
LeaseInv == \A k \in Workers : Handles(wk[k]) => LeaseHeld(k) \/ LeaseOver(k)

\* What one worker does leaves the record of every other as it is.
LEMMA OthersStay ==
  ASSUME IInv, NEW j \in Workers, NEW k \in Workers, j # k,
         \/ Poller(j) \/ Item(j) \/ HeartbeatLoop(j)
         \/ Shutdown(j) \/ Crash(j) \/ Restart(j)
  PROVE  wk'[k] = wk[k]
<1>0. wk \in [Workers -> WorkerRecords]
  BY DEF IInv, TypeOK
<1>1. CASE Poller(j)
  BY <1>0, <1>1
  DEF Poller, Poll, PollFails, AckAccepted, AckConflicts, AckFails, DiscardClaimed,
      DiscardStopped, SleepEnds, RunReturns, Goes
<1>2. CASE Item(j)
  BY <1>0, <1>2 DEF Item, SetupEnds, SetupFails, RunnerEnds, ItemEnds, StopItem, Goes, Leaves
<1>3. CASE HeartbeatLoop(j)
  BY <1>0, <1>3
  DEF HeartbeatLoop, Beat, BeatExtends, BeatMeetsStop, BeatRefused, BeatFails, BeatReturns,
      NextBeat, HeartbeatCancelled, Replied, HeartbeatEnds, HeartbeatGoesOn
<1>4. CASE Shutdown(j) \/ Crash(j) \/ Restart(j)
  BY <1>0, <1>4 DEF Shutdown, Crash, Restart
<1> QED
  BY <1>1, <1>2, <1>3, <1>4

\* A step of the poller leaves its worker without an item in hand, or begins one.
LEMMA PollerEffect ==
  ASSUME IInv, NEW k \in Workers, Poller(k)
  PROVE  \/ /\ ~Handles(wk'[k])
            /\ \/ wk'[k] = [Polling EXCEPT !.at = "down"]
               \/ /\ wk'[k].cause = wk[k].cause /\ wk'[k].beat = wk[k].beat
                  /\ wk'[k].exit = wk[k].exit /\ wk'[k].shutdown = wk[k].shutdown
         \/ /\ wk[k].at = "ack" /\ Claim(k, wk[k].item)
            /\ wk'[k] = Handling(wk[k].item, wk[k].shutdown)
<1>0. wk \in [Workers -> WorkerRecords] /\ wk[k] \in WorkerRecords
  BY DEF IInv, TypeOK
<1>1. CASE AckAccepted(k)
  BY <1>0, <1>1 DEF AckAccepted
<1>2. CASE RunReturns(k)
  BY <1>0, <1>2 DEF RunReturns, Handles, Polling
<1>3. CASE \E w \in Works : Poll(k, w)
  <2>1. PICK w \in Works, at \in {"discard", "ack"} :
           wk' = [wk EXCEPT ![k].item = w, ![k].at = at]
    BY <1>3 DEF Poll
  <2> QED
    BY <1>0, <2>1 DEF Handles, WorkerRecords
<1>6. CASE PollFails(k) \/ SleepEnds(k)
  BY <1>0, <1>6 DEF PollFails, SleepEnds, Goes, Handles, WorkerRecords
<1>4. CASE AckConflicts(k) \/ AckFails(k)
  BY <1>0, <1>4 DEF AckConflicts, AckFails, Handles, WorkerRecords
<1>5. CASE DiscardClaimed(k) \/ DiscardStopped(k)
  BY <1>0, <1>5 DEF DiscardClaimed, DiscardStopped, Goes, Handles, WorkerRecords
<1> QED
  BY <1>1, <1>2, <1>3, <1>4, <1>5, <1>6 DEF Poller

\* A worker that begins anew has nothing to be blamed for.
LEMMA PollingBlamed ==
  \A b \in BOOLEAN : Blamed(Polling) /\ Blamed([Polling EXCEPT !.at = "down"])
                     /\ Blamed([Polling EXCEPT !.shutdown = b])
BY DEF Polling, Blamed

\* Every context that is over has someone to blame, whatever the step.
LEMMA BlameStep == IInv /\ BlameInv /\ [Next]_vars => BlameInv'
<1> SUFFICES ASSUME IInv, BlameInv, [Next]_vars, NEW k \in Workers
             PROVE  Blamed(wk'[k])
  BY DEF BlameInv
<1> DEFINE s == wk[k]
           r == wk'[k]
<1>0. /\ wk \in [Workers -> WorkerRecords] /\ s \in WorkerRecords
      /\ Sound(s) /\ Blamed(s) /\ s.shutdown \in BOOLEAN
  BY DEF IInv, TypeOK, BlameInv, WorkerRecords
<1>1. CASE wk'[k] = wk[k]
  BY <1>0, <1>1
<1>2. CASE Poller(k)
  <2>1. CASE r = Handling(s.item, s.shutdown)
    BY <2>1 DEF Handling, Blamed
  <2>2. CASE r = [Polling EXCEPT !.at = "down"]
    BY <2>2, PollingBlamed
  <2> QED
    BY <1>0, <1>2, <2>1, <2>2, PollerEffect DEF Blamed, Handles
<1>3. CASE Item(k)
  <2>1. CASE SetupEnds(k)
    BY <1>0, <1>3, <2>1 DEF SetupEnds, Goes, WorkerRecords, Blamed
  <2>2. ASSUME NEW exit \in {"done", "failed", "cancelled"}, Leaves(k, exit),
               exit = "cancelled" => s.cancelled /\ s.at = "run"
        PROVE  Blamed(r)
    BY <1>0, <2>2 DEF Leaves, WorkerRecords, Blamed
  <2>3. CASE SetupFails(k) \/ RunnerEnds(k)
    BY <2>2, <2>3 DEF SetupFails, RunnerEnds
  <2>4. CASE ItemEnds(k) \/ StopItem(k)
    <3>1. CASE r = NextItem(k)
      BY <1>0, <3>1, PollingBlamed DEF NextItem
    <3>2. CASE r = [s EXCEPT !.at = "stop"]
      BY <1>0, <3>2 DEF WorkerRecords, Blamed
    <3> QED
      BY <1>0, <2>4, <3>1, <3>2 DEF ItemEnds, StopItem
  <2> QED
    BY <1>3, <2>1, <2>3, <2>4 DEF Item
<1>4. CASE HeartbeatLoop(k)
  <2>1. s.beat \in {"sent", "reply", "wait"} /\ s.cause = "none"
    BY <1>0, <1>4
    DEF HeartbeatLoop, Beat, BeatFails, BeatReturns, NextBeat, HeartbeatCancelled, Blamed
  <2>2. CASE Beat(k) \/ BeatFails(k) \/ NextBeat(k)
    BY <1>0, <2>1, <2>2
    DEF Beat, BeatExtends, BeatMeetsStop, BeatRefused, BeatFails, NextBeat, Replied,
        WorkerRecords, Blamed
  <2>3. ASSUME NEW cause \in Causes, HeartbeatEnds(k, cause), cause = "none" => s.cancelled
        PROVE  Blamed(r)
    <3>1. /\ r.cause = cause /\ r.beat = "done" /\ r.at = s.at /\ r.exit = s.exit
          /\ r.shutdown = s.shutdown
      BY <1>0, <2>3 DEF HeartbeatEnds, WorkerRecords
    <3> QED
      BY <1>0, <2>1, <2>3, <3>1 DEF Blamed
  <2>4. ASSUME NEW since, NEW c, HeartbeatGoesOn(k, since, c)
        PROVE  Blamed(r)
    BY <1>0, <2>1, <2>4 DEF HeartbeatGoesOn, WorkerRecords, Blamed
  <2>5. CASE BeatReturns(k) \/ HeartbeatCancelled(k)
    BY <2>3, <2>4, <2>5 DEF BeatReturns, HeartbeatCancelled, Causes
  <2> QED
    BY <1>4, <2>2, <2>5 DEF HeartbeatLoop
<1>5. CASE Tick
  BY <1>0, <1>5 DEF Tick, WorkerRecords, Blamed
<1>6. CASE Shutdown(k) \/ Crash(k) \/ Restart(k)
  <2>1. CASE Shutdown(k)
    BY <1>0, <2>1 DEF Shutdown, WorkerRecords, Blamed
  <2>2. CASE Crash(k) \/ Restart(k)
    BY <1>0, <2>2, PollingBlamed DEF Crash, Restart
  <2> QED
    BY <1>6, <2>1, <2>2
<1>7. CASE (\E w \in Works : StopRequested(w) \/ StopExpires(w)) \/ UNCHANGED vars
  BY <1>1, <1>7 DEF StopRequested, StopExpires, vars
<1> QED
  BY <1>1, <1>2, <1>3, <1>4, <1>5, <1>6, <1>7, OthersStay DEF Next, Environment

\* The lease of an item in hand survives a step that leaves the worker's own
\* record as it is: another worker gets the item only when the lease is over.
LEMMA LeaseOfOthers ==
  ASSUME IInv, LeaseInv, NEW k \in Workers, Handles(wk[k]), wk'[k] = wk[k],
         NEW j \in Workers, j # k, Poller(j) \/ Item(j) \/ HeartbeatLoop(j)
  PROVE  LeaseHeld(k)' \/ LeaseOver(k)'
<1> DEFINE i == wk[k].item
<1>0. /\ work \in [Works -> WorkRecords] /\ i \in Works /\ work[i] \in WorkRecords
      /\ wk[k].since \in Nat /\ work[i].age \in Nat
  BY IntervalRange, TTLAssumption
  DEF IInv, TypeOK, Sound, Guarded, Unemployed, Handles, WorkerRecords, WorkRecords, MaxStale
<1>1. CASE work'[i] = work[i]
  BY <1>0, <1>1 DEF LeaseInv, LeaseHeld, LeaseOver
<1>2. CASE work'[i] = [work[i] EXCEPT !.state = "stopped"]
  BY <1>0, <1>2 DEF LeaseInv, LeaseHeld, LeaseOver, WorkRecords
<1>3. CASE work'[i] = NewWork /\ Claimable(i)
  <2>1. work'[i].owner # k
    BY <1>3, NamesAssumption DEF NewWork
  <2>2. wk[k].since >= TTL /\ wk[k].reply # "ok"
    BY <1>0, <1>3, TTLAssumption DEF Claimable, LeaseInv, LeaseHeld, LeaseOver
  <2> QED
    BY <2>1, <2>2 DEF LeaseOver
<1>4. CASE work'[i].owner = j /\ (work[i].state = "queued" \/ work[i].owner = j)
  BY <1>0, <1>4 DEF LeaseInv, LeaseHeld, LeaseOver
<1>5. CASE Poller(j)
  <2>1. CASE \E w \in Works : Poll(j, w)
    BY <1>0, <1>1, <1>3, <2>1 DEF Poll
  <2>2. ASSUME NEW w, Claim(j, w)
        PROVE  LeaseHeld(k)' \/ LeaseOver(k)'
    BY <1>0, <1>1, <1>4, <2>2 DEF Claim
  <2>3. ASSUME NEW w, Stopped(w)
        PROVE  LeaseHeld(k)' \/ LeaseOver(k)'
    BY <1>0, <1>1, <1>2, <2>3 DEF Stopped
  <2> QED
    BY <1>0, <1>1, <1>5, <2>1, <2>2, <2>3
    DEF Poller, PollFails, AckAccepted, AckConflicts, AckFails, DiscardClaimed, DiscardStopped,
        SleepEnds, RunReturns
<1>6. CASE Item(j)
  BY <1>0, <1>1, <1>2, <1>6
  DEF Item, SetupEnds, SetupFails, RunnerEnds, ItemEnds, StopItem, Stopped
<1>7. CASE HeartbeatLoop(j)
  <2>1. CASE \E w : BeatExtends(j, w)
    <3>1. PICK w : BeatExtends(j, w)
      BY <2>1
    <3>2. CASE w = i
      BY <1>0, <1>4, <3>1, <3>2 DEF BeatExtends, WorkRecords
    <3>3. CASE w # i
      BY <1>0, <1>1, <3>1, <3>3 DEF BeatExtends
    <3> QED
      BY <3>2, <3>3
  <2>2. CASE UNCHANGED work
    BY <1>1, <2>2
  <2> QED
    BY <1>7, <2>1, <2>2
    DEF HeartbeatLoop, Beat, BeatMeetsStop, BeatRefused, BeatFails, BeatReturns, NextBeat,
        HeartbeatCancelled
<1> QED
  BY <1>5, <1>6, <1>7

\* The worker's own steps: its last success is never later than the lease.
LEMMA LeaseOfOwn ==
  ASSUME IInv, LeaseInv, NEW k \in Workers, Handles(wk'[k]),
         Poller(k) \/ Item(k) \/ HeartbeatLoop(k)
  PROVE  LeaseHeld(k)' \/ LeaseOver(k)'
<1> DEFINE s == wk[k]
           i == wk[k].item
<1>0. /\ wk \in [Workers -> WorkerRecords] /\ s \in WorkerRecords
      /\ work \in [Works -> WorkRecords] /\ i \in Works \cup {NoWork}
      /\ i = NoWork <=> Unemployed(s)
      /\ s.since \in Nat /\ Punctual(s)
  BY IntervalRange, TTLAssumption
  DEF IInv, TypeOK, Sound, Guarded, WorkerRecords, MaxStale
<1>a. ASSUME Handles(s), wk'[k].item = i, wk'[k].since = s.since, wk'[k].reply # "ok",
             work'[i].owner = work[i].owner, work'[i].age = work[i].age,
             work'[i].state \in {work[i].state, "stopped"}
      PROVE  LeaseHeld(k)' \/ LeaseOver(k)'
  BY <1>0, <1>a DEF LeaseInv, LeaseHeld, LeaseOver
<1>b. ASSUME Handles(s), wk'[k].item = i, wk'[k].since = s.since, wk'[k].reply = s.reply,
             UNCHANGED work
      PROVE  LeaseHeld(k)' \/ LeaseOver(k)'
  BY <1>0, <1>b DEF LeaseInv, LeaseHeld, LeaseOver
<1>1. CASE Poller(k)
  <2>1. s.at = "ack" /\ Claim(k, i) /\ wk'[k] = Handling(i, s.shutdown)
    BY <1>1, PollerEffect
  <2>2. i \in Works
    BY <1>0, <2>1 DEF Unemployed
  <2>3. /\ work'[i] = [state |-> "starting", owner |-> k, age |-> 0]
        /\ wk'[k].item = i /\ wk'[k].since = 0 /\ wk'[k].reply = "none"
    BY <1>0, <2>1, <2>2 DEF Claim, Handling
  <2> QED
    BY <2>3 DEF LeaseHeld
<1>2. CASE Item(k)
  <2>1. /\ Handles(s) /\ UNCHANGED work
        /\ wk'[k].item = i /\ wk'[k].since = s.since /\ wk'[k].reply = s.reply
    BY <1>0, <1>2
    DEF Item, SetupEnds, SetupFails, RunnerEnds, ItemEnds, StopItem, Goes, Leaves, NextItem,
        Polling, Handles, WorkerRecords
  <2> QED
    BY <2>1, <1>b
<1>3. CASE HeartbeatLoop(k)
  <2>a. wk'[k].at = s.at /\ wk'[k].item = i
    <3>1. CASE Beat(k) \/ BeatFails(k)
      BY <1>0, <3>1
      DEF Beat, BeatExtends, BeatMeetsStop, BeatRefused, BeatFails, Replied, WorkerRecords
    <3>2. CASE BeatReturns(k)
      BY <1>0, <3>2 DEF BeatReturns, HeartbeatEnds, HeartbeatGoesOn, WorkerRecords
    <3>3. CASE NextBeat(k) \/ HeartbeatCancelled(k)
      BY <1>0, <3>3 DEF NextBeat, HeartbeatCancelled, HeartbeatEnds, WorkerRecords
    <3> QED
      BY <1>3, <3>1, <3>2, <3>3 DEF HeartbeatLoop
  <2>0. Handles(s) /\ i \in Works /\ wk'[k].item = i
    BY <1>0, <2>a DEF Handles, Unemployed
  <2>1. CASE BeatExtends(k, i)
    <3>1. /\ work'[i].owner = k /\ work'[i].state = "active" /\ work'[i].age = 0
          /\ wk'[k].since = s.since
      BY <1>0, <2>0, <2>1 DEF BeatExtends, WorkerRecords, WorkRecords
    <3> QED
      BY <1>0, <2>0, <3>1 DEF LeaseHeld
  <2>2. ASSUME NEW q \in {"stopping", "refused", "expired", "error", "timeout", "fatal"},
               Replied(k, q), UNCHANGED work
        PROVE  LeaseHeld(k)' \/ LeaseOver(k)'
    BY <1>0, <1>a, <2>0, <2>2 DEF Replied, WorkerRecords
  <2>3. CASE Beat(k) \/ BeatFails(k)
    BY <2>1, <2>2, <2>3 DEF Beat, BeatMeetsStop, BeatRefused, BeatFails
  <2>4. ASSUME NEW cause, HeartbeatEnds(k, cause), UNCHANGED work
        PROVE  LeaseHeld(k)' \/ LeaseOver(k)'
    BY <1>0, <1>a, <2>0, <2>4 DEF HeartbeatEnds, WorkerRecords
  <2>5. CASE HeartbeatGoesOn(k, s.since, s.current) /\ UNCHANGED work
    BY <1>0, <1>a, <2>0, <2>5 DEF HeartbeatGoesOn, WorkerRecords
  <2>6. CASE s.reply = "ok" /\ HeartbeatGoesOn(k, 0, TRUE) /\ UNCHANGED work
    <3>1. LeaseHeld(k)
      BY <2>0, <2>6 DEF LeaseInv, LeaseOver
    <3>2. wk'[k].since = 0 /\ wk'[k].reply = "none"
      BY <1>0, <2>6 DEF HeartbeatGoesOn, WorkerRecords
    <3> QED
      BY <2>0, <2>6, <3>1, <3>2 DEF LeaseHeld
  <2>7. CASE BeatReturns(k)
    BY <2>4, <2>5, <2>6, <2>7 DEF BeatReturns
  <2>8. CASE NextBeat(k)
    BY <1>0, <1>b, <2>0, <2>8 DEF NextBeat, WorkerRecords
  <2>9. CASE HeartbeatCancelled(k)
    BY <2>4, <2>9 DEF HeartbeatCancelled
  <2> QED
    BY <1>3, <2>3, <2>7, <2>8, <2>9 DEF HeartbeatLoop
<1> QED
  BY <1>1, <1>2, <1>3

\* A second passes for the lease and for the worker that holds it, or, in a
\* worker whose heartbeats are over and that has nothing to drain, for neither.
LEMMA LeaseTick ==
  ASSUME IInv, LeaseInv, "drain" \notin Faults, Tick, NEW k \in Workers, Handles(wk[k])
  PROVE  LeaseHeld(k)' \/ LeaseOver(k)'
<1> DEFINE s == wk[k]
           i == wk[k].item
           b == work[i].age
<1>0. /\ s \in WorkerRecords /\ Sound(s) /\ i \in Works /\ work[i] \in WorkRecords
      /\ s.since \in 0..MaxStale + 1 /\ b \in 0..TTL + 1
  BY DEF IInv, TypeOK, Sound, Guarded, Unemployed, Handles, WorkerRecords, WorkRecords
<1>1. MaxStale \in Nat /\ TTL \in Nat /\ MaxStale >= TTL
  BY IntervalRange, TTLAssumption DEF MaxStale
<1>2. Timed(k)
  <2>1. s.at \in {"setup", "run"} /\ ~s.cancelled
    BY DEF Tick, Waits, Handles
  <2>2. s.beat \in {"sent", "reply", "wait"}
    BY <1>0, <2>1 DEF Sound, Guarded
  <2> QED
    BY <2>2 DEF Tick, Waits
<1>3. wk'[k] = [s EXCEPT !.timer = s.timer + 1, !.since = AtMost(s.since + 1, MaxStale + 1)]
  BY <1>2 DEF Tick
<1>4. /\ wk'[k].item = i /\ wk'[k].reply = s.reply
      /\ wk'[k].since = AtMost(s.since + 1, MaxStale + 1)
  BY <1>0, <1>3 DEF WorkerRecords
<1>5. s.reply # "ok"
  BY <1>0, <1>2 DEF Timed, Sound, Punctual
<1>6. /\ work'[i].owner = work[i].owner /\ work'[i].state = work[i].state
      /\ work'[i].age \in {b, AtMost(b + 1, TTL + 1)}
  BY <1>0 DEF Tick, WorkRecords
<1>7. /\ b <= s.since => AtMost(b + 1, TTL + 1) <= AtMost(s.since + 1, MaxStale + 1)
      /\ b <= s.since => b <= AtMost(s.since + 1, MaxStale + 1)
      /\ s.since >= TTL => AtMost(s.since + 1, MaxStale + 1) >= TTL
  BY <1>0, <1>1 DEF AtMost
<1> QED
  BY <1>4, <1>5, <1>6, <1>7 DEF LeaseInv, LeaseHeld, LeaseOver

\* Every lease is held, or over for the worker too, whatever the step.
LEMMA LeaseStep ==
  ASSUME "drain" \notin Faults, IInv, LeaseInv, [Next]_vars
  PROVE  LeaseInv'
<1> SUFFICES ASSUME NEW k \in Workers, Handles(wk'[k])
             PROVE  LeaseHeld(k)' \/ LeaseOver(k)'
  BY DEF LeaseInv, Handles
<1>0. wk \in [Workers -> WorkerRecords] /\ wk[k] \in WorkerRecords
  BY DEF IInv, TypeOK
<1>1. ASSUME NEW j \in Workers, Poller(j) \/ Item(j) \/ HeartbeatLoop(j)
      PROVE  LeaseHeld(k)' \/ LeaseOver(k)'
  <2>1. CASE j = k
    BY <1>1, <2>1, LeaseOfOwn
  <2>2. CASE j # k
    <3>1. wk'[k] = wk[k]
      BY <1>1, <2>2, OthersStay
    <3> QED
      BY <1>1, <2>2, <3>1, LeaseOfOthers
  <2> QED
    BY <2>1, <2>2
<1>2. CASE Tick
  <2>1. wk'[k].at = wk[k].at
    BY <1>0, <1>2 DEF Tick, WorkerRecords
  <2> QED
    BY <1>2, <2>1, LeaseTick DEF Handles
<1>3. ASSUME NEW w \in Works, StopRequested(w) \/ StopExpires(w)
      PROVE  LeaseHeld(k)' \/ LeaseOver(k)'
  <2>1. work \in [Works -> WorkRecords] /\ wk[k].item \in Works
    BY <1>0, <1>3
    DEF IInv, TypeOK, Sound, Guarded, Unemployed, Handles, StopRequested, StopExpires,
        WorkerRecords
  <2> QED
    BY <1>3, <2>1
    DEF StopRequested, StopExpires, Stopped, LeaseInv, LeaseHeld, LeaseOver, Handles, WorkRecords
<1>4. ASSUME NEW j \in Workers, Shutdown(j) \/ Crash(j) \/ Restart(j)
      PROVE  LeaseHeld(k)' \/ LeaseOver(k)'
  <2>1. /\ UNCHANGED work /\ Handles(wk[k])
        /\ wk'[k].item = wk[k].item /\ wk'[k].since = wk[k].since /\ wk'[k].reply = wk[k].reply
    BY <1>0, <1>4 DEF Shutdown, Crash, Restart, Polling, Handles, WorkerRecords
  <2> QED
    BY <2>1 DEF LeaseInv, LeaseHeld, LeaseOver
<1>5. CASE UNCHANGED vars
  BY <1>5 DEF vars, LeaseInv, LeaseHeld, LeaseOver, Handles
<1> QED
  BY <1>1, <1>2, <1>3, <1>4, <1>5 DEF Next, Environment

-----------------------------------------------------------------------------
(* Theorems                                                                *)

\* Every worker's heartbeat loop is punctual, and guards its item, for ever.
THEOREM Invariant == Spec => []IInv
<1>1. IInv /\ [Next]_vars => IInv'
  <2> SUFFICES ASSUME IInv, [Next]_vars PROVE IInv'
    OBVIOUS
  <2>1. CASE Next
    BY <2>1, EnvironmentStep, PollerStep, ItemStep, HeartbeatStep DEF Next
  <2>2. CASE UNCHANGED vars
    BY <2>2 DEF vars, IInv, TypeOK, Sound, Punctual, Guarded, Unemployed
  <2> QED
    BY <2>1, <2>2
<1> QED
  BY <1>1, InitIInv, PTL DEF Spec

\* The types of the workers' state and of the control plane's.
THEOREM TypeCorrect == Spec => []TypeOK
<1>1. IInv => TypeOK
  BY DEF IInv
<1> QED
  BY <1>1, Invariant, PTL

\* A worker that handles an item has had a heartbeat within MaxStale seconds,
\* whatever is lost or refused (heartbeatLoop's give-up rule).
THEOREM LeaseGivenUp == Spec => []StaleLeaseIsGivenUp
<1>1. IInv => StaleLeaseIsGivenUp
  <2> SUFFICES ASSUME IInv, NEW k \in Workers, wk[k].at \in {"setup", "run"}, ~wk[k].cancelled
               PROVE  wk[k].since <= MaxStale
    BY DEF StaleLeaseIsGivenUp
  <2> DEFINE s == wk[k]
  <2>1. Sound(s)
    BY DEF IInv
  <2>2. s.beat \in {"sent", "reply", "wait"}
    BY <2>1 DEF Sound, Guarded
  <2>3. s.timer \in 0..Interval /\ s.since \in 0..MaxStale + 1
    BY <2>1 DEF Sound, WorkerRecords
  <2>4. s.since <= TTL + Interval + s.timer \/ s.since <= TTL + s.timer \/ s.since <= TTL + Interval
    BY <2>1, <2>2 DEF Sound, Punctual
  <2> QED
    BY <2>3, <2>4, IntervalRange, TTLAssumption DEF MaxStale
<1> QED
  BY <1>1, Invariant, PTL

\* A stop is sent only after the heartbeat loop is over, and never after it
\* reported the lease lost (handleItem's deferred calls).
THEOREM StopsQuietly == Spec => []QuietBeforeStop
<1>1. IInv => QuietBeforeStop
  BY DEF IInv, Sound, Guarded, QuietBeforeStop
<1> QED
  BY <1>1, Invariant, PTL

\* Work is reported completed only when its session ended it, not after a
\* shutdown, a stop or a failure (stopReasonForExit).
THEOREM CompletedIsDone == Spec => CompletedMeansDone
<1>1. Init => BlameInv
  BY PollingBlamed DEF Init, BlameInv
<1>2. IInv /\ BlameInv /\ [Next]_vars
        => [\A k \in Workers : StopSent(k) /\ StopReason(k) = "completed" => wk[k].exit = "done"]_vars
  <2> SUFFICES ASSUME IInv, BlameInv, NEW k \in Workers, wk[k].at = "stop",
                      StopReason(k) = "completed"
               PROVE  wk[k].exit = "done"
    BY DEF StopSent
  <2>1. wk[k].cause \in {"none", "stop_requested"} /\ Blamed(wk[k])
    BY DEF IInv, Sound, Guarded, BlameInv
  <2> QED
    BY <2>1 DEF StopReason, Blamed
<1> QED
  BY <1>1, <1>2, BlameStep, Invariant, PTL DEF Spec, CompletedMeansDone

\* A stop by force ends another worker's work only a whole lease after the last
\* heartbeat that succeeded, if the runner has nothing to drain (shouldStopItem
\* and the causes that heartbeatLoop and the poller set).
THEOREM StopsAfterLease ==
  ASSUME "drain" \notin Faults
  PROVE  Spec => StopsOthersOnlyAfterLease
<1>1. Init => LeaseInv
  BY DEF Init, LeaseInv, Polling, Handles
<1>2. IInv /\ LeaseInv /\ [Next]_vars => LeaseInv'
  BY LeaseStep
<1>3. IInv /\ LeaseInv /\ [Next]_vars
        => [\A k \in Workers : StopSent(k) /\ work[wk[k].item].owner \notin {k, NoWorker}
              => wk[k].since >= TTL]_vars
  <2> SUFFICES ASSUME LeaseInv, NEW k \in Workers, wk[k].at = "stop",
                      work[wk[k].item].owner # k
               PROVE  wk[k].since >= TTL
    BY DEF StopSent
  <2> QED
    BY DEF LeaseInv, Handles, LeaseHeld, LeaseOver
<1> QED
  BY <1>1, <1>2, <1>3, Invariant, PTL DEF Spec, StopsOthersOnlyAfterLease
=============================================================================
