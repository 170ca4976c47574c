-------------------------- MODULE EnvironmentWorker --------------------------
(***************************************************************************)
(* lib/environments: the workers of one environment.  EnvironmentWorker.Run*)
(* polls and acknowledges work items (WorkPoller, which it uses with       *)
(* AutoStop off) and handles them one after the other; while an item is    *)
(* handled, heartbeatLoop keeps its lease in a goroutine of its own, and   *)
(* the deferred calls of handleItem decide whether to stop the work.       *)
(*                                                                         *)
(* The queue and its leases belong to the control plane (external).  A tick*)
(* of the clock is a second.  What a worker does takes no time unless it   *)
(* waits: in a session, between heartbeats, for a request that times out.  *)
(***************************************************************************)
EXTENDS Naturals

CONSTANTS Workers, Works,
          Invalid,         \* work items that carry no session id
          NoWorker, NoWork,
          TTL,             \* the lease's time to live, in seconds
          Faults,          \* the kinds of fault that may happen ...
          MaxFaults        \* ... and how many of them (bounds the model)

\* A tick is a second: half of an odd ttl would not be a number of ticks, except
\* for the ttl whose half is clamped.
ASSUME TTLAssumption == TTL \in Nat \ {0} /\ (TTL = 1 \/ TTL % 2 = 0)
ASSUME BoundAssumption == MaxFaults \in Nat
ASSUME InvalidAssumption == Invalid \subseteq Works
ASSUME NamesAssumption == NoWorker \notin Workers /\ NoWork \notin Works

VARIABLES work,    \* control plane: the queue and its leases
          wk,      \* the workers
          faults

vars == <<work, wk, faults>>

Fault(kind) == kind \in Faults /\ faults < MaxFaults /\ faults' = faults + 1

-----------------------------------------------------------------------------
(* Values                                                                  *)

\* clampHeartbeatInterval of half the ttl.
Half == TTL \div 2
Interval == CASE Half < 1 -> 1 [] Half > 30 -> 30 [] OTHER -> Half

\* The longest a worker goes on without a heartbeat that succeeded: the beat
\* that notices starts an interval after the last tolerated failure and may take
\* an interval itself.
MaxStale == TTL + 2 * Interval

Causes == {"none", "lease_lost", "lease_not_extended", "stop_requested",
           "heartbeat_lost", "heartbeat_permanent_failure"}

WorkRecords == [state : {"queued", "starting", "active", "stopping", "stopped"},
                owner : Workers \cup {NoWorker},
                age   : 0..TTL + 1]       \* of the lease

WorkerRecords ==
  [at        : {"poll", "ack", "discard", "drop", "sleep", "setup", "run", "close",
                "stop", "down"},
   item      : Works \cup {NoWork},
   beat      : {"off", "sent", "reply", "wait", "done"},   \* heartbeatLoop
   reply     : {"none", "ok", "stopping", "refused", "expired", "error", "timeout", "fatal"},
   timer     : 0..Interval,
   since     : 0..MaxStale + 1,           \* lastSuccess
   current   : BOOLEAN,                   \* its token is the control plane's
   cancelled : BOOLEAN,                   \* workCtx
   cause     : Causes,
   exit      : {"none", "done", "failed", "cancelled"},    \* handleItem's err
   shutdown  : BOOLEAN]                   \* ctx

Unemployed(s) == s.at \in {"poll", "sleep", "down"}

\* The types; and a worker has an item exactly while it is busy with one.
TypeOK ==
  /\ work \in [Works -> WorkRecords]
  /\ wk \in [Workers -> WorkerRecords]
  /\ \A k \in Workers : wk[k].item = NoWork <=> Unemployed(wk[k])
  /\ faults \in 0..MaxFaults

NewWork == [state |-> "queued", owner |-> NoWorker, age |-> 0]

Polling == [at |-> "poll", item |-> NoWork, beat |-> "off", reply |-> "none", timer |-> 0,
            since |-> 0, current |-> FALSE, cancelled |-> FALSE, cause |-> "none",
            exit |-> "none", shutdown |-> FALSE]

Init == /\ work = [w \in Works |-> NewWork]
        /\ wk = [k \in Workers |-> Polling]
        /\ faults = 0

Goes(k, at) == wk' = [wk EXCEPT ![k].at = at]

-----------------------------------------------------------------------------
(* WorkPoller                                                              *)

\* The queue hands out an item whose lease has expired, too.
Claimable(w) ==
  \/ work[w].state = "queued"
  \/ work[w].state \in {"starting", "active"} /\ work[w].age > TTL

Poll(k, w) ==
  /\ wk[k].at = "poll" /\ ~wk[k].shutdown
  /\ Claimable(w)
  /\ work' = [work EXCEPT ![w] = NewWork]
  /\ wk' = [wk EXCEPT ![k].item = w, ![k].at = IF w \in Invalid THEN "discard" ELSE "ack"]
  /\ UNCHANGED faults

\* A failed poll is repeated after a pause, a permanent error ends the worker.
PollFails(k) ==
  /\ wk[k].at = "poll" /\ ~wk[k].shutdown
  /\ \/ Fault("network") /\ Goes(k, "sleep")
     \/ Fault("auth") /\ Goes(k, "down")
  /\ UNCHANGED work

\* queued -> starting, for one of the workers that were given the item.
Claim(k, w) ==
  /\ work[w].state = "queued"
  /\ work' = [work EXCEPT ![w] = [state |-> "starting", owner |-> k, age |-> 0]]

\* handleItem: the first heartbeat goes out at once.
Handling(w, shutdown) ==
  [at |-> "setup", item |-> w, beat |-> "sent", reply |-> "none", timer |-> 0, since |-> 0,
   current |-> TRUE, cancelled |-> shutdown, cause |-> "none", exit |-> "none",
   shutdown |-> shutdown]

AckAccepted(k) ==
  /\ wk[k].at = "ack"
  /\ Claim(k, wk[k].item)
  /\ wk' = [wk EXCEPT ![k] = Handling(wk[k].item, wk[k].shutdown)]
  /\ UNCHANGED faults

\* Faulty: an item that could not be claimed is stopped.
AckConflictStops(k) ==
  /\ wk[k].at \in {"ack", "discard"} /\ work[wk[k].item].state # "queued"
  /\ Goes(k, "stop")
  /\ UNCHANGED <<work, faults>>

\* Another worker was faster: the item is left alone.
AckConflicts(k) ==
  /\ wk[k].at \in {"ack", "discard"} /\ work[wk[k].item].state # "queued"
  /\ wk' = [wk EXCEPT ![k].at = "poll", ![k].item = NoWork]
  /\ UNCHANGED <<work, faults>>

\* Faulty: the item of a failed ack is not forgotten.
AckFailsKeepingItem(k) ==
  /\ wk[k].at \in {"ack", "discard"}
  /\ Fault("network")
  /\ Goes(k, "sleep")
  /\ UNCHANGED work

\* An error (of the network, or a cancelled context's) leaves it open whether the
\* item was claimed; only a permanent one ends the worker, and only the ack of a
\* valid item backs off.
AckFails(k) ==
  /\ wk[k].at \in {"ack", "discard"}
  /\ \/ /\ Fault("network") \/ (wk[k].shutdown /\ UNCHANGED faults)
        /\ UNCHANGED work \/ Claim(k, wk[k].item)
        /\ wk' = [wk EXCEPT ![k].item = NoWork,
                            ![k].at = IF @ = "ack" THEN "sleep" ELSE "poll"]
     \/ /\ Fault("auth")
        /\ UNCHANGED work
        /\ wk' = [wk EXCEPT ![k].item = NoWork,
                            ![k].at = IF @ = "ack" THEN "down" ELSE "poll"]

\* discardInvalidWork: acknowledged, then stopped by force.
DiscardClaimed(k) ==
  /\ wk[k].at = "discard"
  /\ Claim(k, wk[k].item)
  /\ Goes(k, "drop")
  /\ UNCHANGED faults

Stopped(w) == work' = [work EXCEPT ![w].state = "stopped"]

DiscardStopped(k) ==
  /\ wk[k].at = "drop"
  /\ \/ Stopped(wk[k].item) /\ UNCHANGED faults
     \/ Fault("network") /\ UNCHANGED work
  /\ wk' = [wk EXCEPT ![k].at = "sleep", ![k].item = NoWork]

SleepEnds(k) ==
  /\ wk[k].at = "sleep"
  /\ Goes(k, "poll")
  /\ UNCHANGED <<work, faults>>

\* Next returns false once ctx is done, and Run returns.
RunReturns(k) ==
  /\ wk[k].at = "poll" /\ wk[k].shutdown
  /\ wk' = [wk EXCEPT ![k] = [Polling EXCEPT !.at = "down"]]
  /\ UNCHANGED <<work, faults>>

Poller(k) ==
  \/ \E w \in Works : Poll(k, w)
  \/ PollFails(k) \/ AckAccepted(k) \/ AckConflicts(k) \/ AckFails(k)
  \/ DiscardClaimed(k) \/ DiscardStopped(k) \/ SleepEnds(k) \/ RunReturns(k)

-----------------------------------------------------------------------------
(* handleItem                                                              *)

SetupEnds(k) ==
  /\ wk[k].at = "setup" /\ ~wk[k].cancelled
  /\ Goes(k, "run")
  /\ UNCHANGED <<work, faults>>

\* handleItem is over: the runner is closed, then workCtx is cancelled.
Leaves(k, exit) ==
  wk' = [wk EXCEPT ![k].at = "close", ![k].exit = exit, ![k].cancelled = TRUE]

SetupFails(k) ==
  /\ wk[k].at = "setup"
  /\ \/ Fault("setup") /\ Leaves(k, "failed")
     \/ wk[k].cancelled /\ Leaves(k, "failed") /\ UNCHANGED faults
  /\ UNCHANGED work

\* The runner ends idle or with its session, with an error, or cancelled.
RunnerEnds(k) ==
  /\ wk[k].at = "run"
  /\ \/ Leaves(k, "done") /\ UNCHANGED faults
     \/ Fault("runner") /\ Leaves(k, "failed")
     \/ wk[k].cancelled /\ Leaves(k, "cancelled") /\ UNCHANGED faults
  /\ UNCHANGED work

\* After these causes the worker cannot tell whose lease it is.
ShouldStopItem(cause) == cause \in {"none", "stop_requested"}

NextItem(k) == [Polling EXCEPT !.shutdown = wk[k].shutdown]

\* Faulty: the deferred call looks at the cause at once.
HeartbeatNotAwaited(k) == TRUE

\* The deferred call waits for heartbeatLoop to be done before it looks at the cause.
HeartbeatOver(k) == wk[k].beat = "done"

ItemEnds(k) ==
  /\ wk[k].at = "close" /\ HeartbeatOver(k)
  /\ wk' = [wk EXCEPT ![k] = IF ShouldStopItem(@.cause) THEN [@ EXCEPT !.at = "stop"]
                                                        ELSE NextItem(k)]
  /\ UNCHANGED <<work, faults>>

\* Faulty: the work is left as it is.
LeaveItem(k) ==
  /\ wk[k].at = "stop"
  /\ wk' = [wk EXCEPT ![k] = NextItem(k)]
  /\ UNCHANGED <<work, faults>>

\* The request names the work item, but neither the worker nor its lease.
StopItem(k) ==
  /\ wk[k].at = "stop"
  /\ \/ Stopped(wk[k].item) /\ UNCHANGED faults
     \/ Fault("network") /\ UNCHANGED work
  /\ wk' = [wk EXCEPT ![k] = NextItem(k)]

\* Faulty: an item that ended without an error of its own is taken for completed.
ReasonOfError(k) ==
  IF wk[k].cause = "stop_requested" THEN "none"
  ELSE IF wk[k].exit # "failed"     THEN "completed"
  ELSE "worker_abnormal"

\* stopReasonForExit, of the worker's err or, without one, of its context's.
StopReason(k) ==
  IF wk[k].cause = "stop_requested" THEN "none"
  ELSE IF \/ wk[k].exit = "done"
          \/ wk[k].exit = "cancelled" /\ ~wk[k].shutdown
       THEN "completed"
  ELSE "worker_abnormal"

Item(k) ==
  SetupEnds(k) \/ SetupFails(k) \/ RunnerEnds(k) \/ ItemEnds(k) \/ StopItem(k)

-----------------------------------------------------------------------------
(* heartbeatLoop                                                           *)

Replied(k, r) == wk' = [wk EXCEPT ![k].beat = "reply", ![k].reply = r]

\* The lease is extended; the token changes, and the worker does not know it yet.
BeatExtends(k, w) ==
  /\ work[w].owner = k /\ wk[k].current /\ work[w].state \in {"starting", "active"}
  /\ work' = [work EXCEPT ![w].state = "active", ![w].age = 0]
  /\ wk' = [wk EXCEPT ![k].beat = "reply", ![k].reply = "ok", ![k].current = FALSE]

BeatMeetsStop(k, w) ==
  /\ work[w].owner = k /\ work[w].state \in {"stopping", "stopped"}
  /\ Replied(k, "stopping")
  /\ UNCHANGED work

\* Another owner, or a token that is not the last one.
BeatRefused(k, w) ==
  /\ \/ work[w].owner # k /\ (Replied(k, "refused") \/ Replied(k, "expired"))
     \/ /\ work[w].owner = k /\ ~wk[k].current
        /\ work[w].state \in {"starting", "active"}
        /\ Replied(k, "refused")
  /\ UNCHANGED work

Beat(k) ==
  /\ wk[k].beat = "sent"
  /\ LET w == wk[k].item
     IN BeatExtends(k, w) \/ BeatMeetsStop(k, w) \/ BeatRefused(k, w)
  /\ UNCHANGED faults

\* The request or its reply is lost, at once or until the request times out, or
\* the credentials are refused.
BeatFails(k) ==
  /\ \/ /\ wk[k].beat \in {"sent", "reply"} /\ wk[k].reply \notin {"error", "timeout"}
        /\ \/ Fault("heartbeat") /\ Replied(k, "error")
           \/ Fault("timeout") /\ Replied(k, "timeout")
     \/ wk[k].beat = "sent" /\ Fault("auth") /\ Replied(k, "fatal")
  /\ UNCHANGED work

HeartbeatEnds(k, cause) ==
  wk' = [wk EXCEPT ![k].beat = "done", ![k].reply = "none", ![k].timer = 0,
                   ![k].cause = cause, ![k].cancelled = TRUE]

HeartbeatGoesOn(k, since, current) ==
  wk' = [wk EXCEPT ![k].beat = "wait", ![k].reply = "none", ![k].timer = 0,
                   ![k].since = since, ![k].current = current]

\* Faulty: a failed heartbeat is always tolerated.
NeverTooStale(k) == FALSE

\* A failure is tolerated while the last success is no older than the ttl; what
\* timers of the ttl's length measured is older.
TooStale(k) == wk[k].since >= TTL

BeatReturns(k) ==
  /\ wk[k].beat = "reply"
  /\ LET r == wk[k].reply
     IN \/ r = "refused" /\ HeartbeatEnds(k, "lease_lost")
        \/ r \in {"error", "timeout", "fatal"} /\ wk[k].cancelled /\ HeartbeatEnds(k, "none")
        \/ r = "fatal" /\ ~wk[k].cancelled /\ HeartbeatEnds(k, "heartbeat_permanent_failure")
        \/ /\ r = "error" \/ (r = "timeout" /\ wk[k].timer = Interval)
           /\ ~wk[k].cancelled
           /\ IF TooStale(k) THEN HeartbeatEnds(k, "heartbeat_lost")
                             ELSE HeartbeatGoesOn(k, wk[k].since, wk[k].current)
        \/ r = "stopping" /\ HeartbeatEnds(k, "stop_requested")
        \/ r = "expired" /\ HeartbeatEnds(k, "lease_not_extended")
        \/ r = "ok" /\ HeartbeatGoesOn(k, 0, TRUE)
  /\ UNCHANGED <<work, faults>>

NextBeat(k) ==
  /\ wk[k].beat = "wait" /\ wk[k].timer = Interval /\ ~wk[k].cancelled
  /\ wk' = [wk EXCEPT ![k].beat = "sent", ![k].timer = 0]
  /\ UNCHANGED <<work, faults>>

\* Cancelled: the timer's select and the request under way give up.
HeartbeatCancelled(k) ==
  /\ wk[k].cancelled /\ wk[k].beat \in {"sent", "wait", "reply"}
  /\ HeartbeatEnds(k, "none")
  /\ UNCHANGED <<work, faults>>

HeartbeatLoop(k) ==
  Beat(k) \/ BeatFails(k) \/ BeatReturns(k) \/ NextBeat(k) \/ HeartbeatCancelled(k)

-----------------------------------------------------------------------------
(* The environment: time, the control plane's stops, the workers' deaths   *)

AtMost(n, max) == IF n < max THEN n ELSE max

Timed(k) == wk[k].beat = "wait" \/ wk[k].reply = "timeout"

\* Time passes while every worker waits.  A cancelled item is over at once,
\* unless its runner has to drain a tool that goes on ("drain").
Waits(k) ==
  /\ wk[k].at \notin {"close", "stop"}
  /\ wk[k].cancelled => wk[k].at # "setup" /\ (wk[k].at = "run" => "drain" \in Faults)
  /\ wk[k].beat \in {"sent", "reply", "wait"} => Timed(k) /\ wk[k].timer < Interval

Tick ==
  /\ \A k \in Workers : Waits(k)
  /\ work' = [w \in Works |->
                IF work[w].state \in {"starting", "active", "stopping"}
                THEN [work[w] EXCEPT !.age = AtMost(@ + 1, TTL + 1)] ELSE work[w]]
  /\ wk' = [k \in Workers |->
              IF Timed(k)
              THEN [wk[k] EXCEPT !.timer = @ + 1, !.since = AtMost(@ + 1, MaxStale + 1)]
              ELSE wk[k]]
  /\ UNCHANGED faults

StopRequested(w) ==
  /\ work[w].state \in {"starting", "active"} /\ Fault("stop")
  /\ work' = [work EXCEPT ![w].state = "stopping"]
  /\ UNCHANGED wk

\* A stop that no worker carries out is over when the lease is.
StopExpires(w) ==
  /\ work[w].state = "stopping" /\ work[w].age > TTL
  /\ Stopped(w)
  /\ UNCHANGED <<wk, faults>>

\* Run's context is cancelled.
Shutdown(k) ==
  /\ wk[k].at # "down" /\ ~wk[k].shutdown /\ Fault("shutdown")
  /\ wk' = [wk EXCEPT ![k].shutdown = TRUE,
                      ![k].cancelled = wk[k].at \in {"setup", "run", "close", "stop"}]
  /\ UNCHANGED work

Crash(k) ==
  /\ wk[k].at # "down" /\ Fault("crash")
  /\ wk' = [wk EXCEPT ![k] = [Polling EXCEPT !.at = "down"]]
  /\ UNCHANGED work

Restart(k) ==
  /\ wk[k].at = "down"
  /\ wk' = [wk EXCEPT ![k] = Polling]
  /\ UNCHANGED <<work, faults>>

Environment ==
  \/ Tick
  \/ \E w \in Works : StopRequested(w) \/ StopExpires(w)
  \/ \E k \in Workers : Shutdown(k) \/ Crash(k) \/ Restart(k)

Next == Environment \/ \E k \in Workers : Poller(k) \/ Item(k) \/ HeartbeatLoop(k)

Spec == Init /\ [][Next]_vars

-----------------------------------------------------------------------------
(* Properties                                                              *)

StopSent(k) == wk[k].at = "stop" /\ wk'[k].at = "poll"

\* "Otherwise it may terminate the one that won the race" (the poller's comment
\* on stopping work it cannot prove to own): a worker never stops a work item
\* that another worker has claimed since.
StopsOnlyOwnWork ==
  [][\A k \in Workers : StopSent(k) => work[wk[k].item].owner \in {k, NoWorker}]_vars

\* If it does so all the same, its last heartbeat that succeeded is a whole lease ago: while
\* the control plane honours the lease, a stop by force ends nobody else's work, however the
\* acknowledgement, the heartbeats and the end of the runner went, if the runner has nothing to
\* drain (shouldStopItem and the
\* causes that HeartbeatLoop and the poller set).
StopsOthersOnlyAfterLease ==
  [][\A k \in Workers : StopSent(k) /\ work[wk[k].item].owner \notin {k, NoWorker}
        => wk[k].since >= TTL]_vars

\* A worker never goes on with an item for longer than MaxStale without a
\* heartbeat that succeeded.
StaleLeaseIsGivenUp ==
  \A k \in Workers : wk[k].at \in {"setup", "run"} /\ ~wk[k].cancelled => wk[k].since <= MaxStale

\* While a worker stops its work, no heartbeat of it is under way, and the
\* control plane has not told it that the lease is gone.
QuietBeforeStop ==
  \A k \in Workers : wk[k].at = "stop" =>
     wk[k].beat = "done" /\ wk[k].cause \in {"none", "stop_requested"}

\* Work is reported completed only when its session ended it: not after a
\* shutdown, a stop or a failure.
CompletedMeansDone ==
  [][\A k \in Workers : StopSent(k) /\ StopReason(k) = "completed" => wk[k].exit = "done"]_vars

-----------------------------------------------------------------------------
(* Liveness                                                                *)

\* Every goroutine goes on, sessions end, time passes, a worker is restarted.
\* Workers poll fairly: an item is offered again and again while it waits.
Fairness ==
  /\ WF_vars(Tick) /\ WF_vars(\E w \in Works : StopExpires(w))
  /\ \A k \in Workers :
       /\ WF_vars(Poller(k)) /\ WF_vars(Item(k)) /\ WF_vars(HeartbeatLoop(k))
       /\ WF_vars(Restart(k))

FairSpec == Spec /\ Fairness

\* Every work item of the queue is stopped in the end, whatever crashes, lost
\* replies and expired leases come first.
EveryWorkEnds == \A w \in Works : <>(work[w].state = "stopped")
=============================================================================
