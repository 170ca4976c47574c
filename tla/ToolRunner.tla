----------------------------- MODULE ToolRunner -----------------------------
(***************************************************************************)
(* selfhosted/session_tool_runner.go: the runner of one session's tool     *)
(* calls, with the control plane's event log, the ledger on the disk and   *)
(* the goroutines around it.                                               *)
(*                                                                         *)
(* One goroutine, the event loop, owns rs.  pc is where it stands; a step  *)
(* is the code between two points where it waits, sends, or goes round a   *)
(* loop.  executeTool and the tool's own goroutine run beside it.  The     *)
(* process may die anywhere and a new runner starts on the same ledger.    *)
(***************************************************************************)
EXTENDS RunnerState

CONSTANTS Modes,           \* "stream": the API streams events; "list": it does not
          HasStore,        \* a ResultStore is configured
          SendRetries,     \* sessionRunnerSendRetries
          ConflictRetries, \* sessionRunnerConflictSendRetries
          Faults,          \* the kinds of fault that may happen ...
          MaxFaults,       \* ... and how many of them (bounds the model)
          MaxLog           \* the longest event log (bounds the model)

ASSUME ModesAssumption == Modes \subseteq {"stream", "list"}
ASSUME HasStoreAssumption == HasStore \in BOOLEAN
ASSUME RetriesAssumption == {SendRetries, ConflictRetries} \subseteq Nat \ {0}
ASSUME BoundsAssumption == {MaxFaults, MaxLog} \subseteq Nat

VARIABLES
  mode, log, net, ledger,           \* control plane and disk
  pc, rs, seen, stream, lp, todo,   \* event loop
  send, wake, cancelled, outcome,
  exec, running,                    \* executeTool and the tools' goroutines
  executed, ever, faults            \* history and bound

plane == <<mode, log, net>>
loop == <<pc, rs, seen, stream, lp, todo, send, wake, cancelled, outcome>>
tools == <<exec, running>>
history == <<executed, ever>>
vars == <<mode, log, net, ledger, pc, rs, seen, stream, lp, todo, send, wake,
          cancelled, outcome, exec, running, executed, ever, faults>>

Fault(kind) == kind \in Faults /\ faults < MaxFaults /\ faults' = faults + 1

-----------------------------------------------------------------------------
(* Values                                                                  *)

UseEvent(c) == [type |-> "use", call |-> c]
ResultEvent(c, r) == [type |-> "result", call |-> c, result |-> r]
ConfirmEvent(c, v) == [type |-> "confirm", call |-> c, verdict |-> v]
InterruptEvent(t) == [type |-> "interrupt", thread |-> t]
RequiresActionEvent(refs) == [type |-> "requires_action", refs |-> refs]
StatusEvent(type) == [type |-> type]

Events == {UseEvent(c) : c \in Calls}
          \cup {ResultEvent(c, r) : c \in Calls, r \in Results}
          \cup {ConfirmEvent(c, v) : c \in Calls, v \in {"allow", "deny"}}
          \cup {InterruptEvent(t) : t \in Threads \cup {AnyThread}}
          \cup {RequiresActionEvent(refs) : refs \in SUBSET Refs}
          \cup {StatusEvent(type) : type \in {"running", "end_turn", "terminated"}}

\* A ledger entry: the state of the record, or the result in state "result".
Entries == {"absent", "started", "sent"} \cup Results

FreshState ==
  [answered |-> {}, pendingResults |-> [c \in Calls |-> NoResult], recovered |-> {},
   pendingAsk |-> {}, confirmations |-> [c \in Calls |-> "none"], external |-> {},
   toolUses |-> {}, mapped |-> {}, scheduled |-> {}, queue |-> <<>>, active |-> NoCall,
   sessionToolUses |-> {}, sinceStatus |-> {}, blocking |-> {}, pendingBlocking |-> {},
   fallback |-> {}, candidates |-> {}, fallbackAllowed |-> FALSE, known |-> FALSE,
   armed |-> FALSE, armPending |-> FALSE]

PCs == {"down", "open", "list", "event", "pending", "handle", "top", "flush",
        "select", "sleep", "send", "sent"}

Listings == [on : BOOLEAN, next : Nat, end : Nat, complete : BOOLEAN, uses : Seq(Calls),
             replayed : SUBSET Calls, touched : BOOLEAN, lastEndTurn : BOOLEAN]
PostStates == [call : Calls \cup {NoCall}, result : Results \cup {NoResult}, attempt : Nat,
               from : {"none", "use", "finish", "flush"}, back : PCs,
               outcome : {"none", "posted", "kept", "refused"}]
ExecStates == [call : Calls \cup {NoCall}, result : Results \cup {NoResult}, cancelled : BOOLEAN]

NoList == [on |-> FALSE, next |-> 1, end |-> 0, complete |-> TRUE, uses |-> <<>>,
           replayed |-> {}, touched |-> FALSE, lastEndTurn |-> FALSE]
NoSend == [call |-> NoCall, result |-> NoResult, attempt |-> 0, from |-> "none",
           back |-> "down", outcome |-> "none"]
NoExec == [call |-> NoCall, result |-> NoResult, cancelled |-> FALSE]

TypeOK ==
  /\ mode \in Modes
  /\ log \in Seq(Events)
  /\ net \subseteq Calls \X Results
  /\ ledger \in [Calls -> Entries]
  /\ pc \in PCs
  /\ rs \in RunnerStates
  /\ seen \subseteq Nat
  /\ stream \in Nat
  /\ lp \in Listings
  /\ todo \subseteq Calls
  /\ send \in PostStates
  /\ wake \in PCs
  /\ cancelled \in BOOLEAN
  /\ outcome \in {"none", "idle", "terminated", "cancelled", "error", "died"}
  /\ exec \in ExecStates
  /\ running \subseteq Calls
  /\ executed \subseteq Calls /\ ever \subseteq Calls
  /\ faults \in Nat

Init == /\ mode \in Modes
        /\ log = <<>> /\ net = {}
        /\ ledger = [c \in Calls |-> "absent"]
        /\ pc = "down" /\ rs = FreshState /\ seen = {} /\ stream = 0
        /\ lp = NoList /\ todo = {} /\ send = NoSend /\ wake = "down"
        /\ cancelled = FALSE /\ outcome = "none"
        /\ exec = NoExec /\ running = {}
        /\ executed = {} /\ ever = {} /\ faults = 0

-----------------------------------------------------------------------------
(* The control plane (external): an agent that runs, uses tools, waits for *)
(* them, ends its turn; users who confirm and interrupt; other runners.    *)

Used == {log[i].call : i \in {i \in DOMAIN log : log[i].type = "use"}}

HasResult(c) == \E i \in DOMAIN log : log[i].type = "result" /\ log[i].call = c

InterruptedIn(S, c) ==
  \E i \in S, j \in S :
     /\ i < j
     /\ log[i] = UseEvent(c)
     /\ log[j].type = "interrupt" /\ Matches(c, log[j].thread)

Denied(c) == Permission[c] = "deny" \/ \E i \in DOMAIN log : log[i] = ConfirmEvent(c, "deny")

Resolved(c) == HasResult(c) \/ InterruptedIn(DOMAIN log, c) \/ Denied(c)

OpenCalls == {c \in Used : ~Resolved(c)}

StatusTypes == {"running", "requires_action", "end_turn", "terminated"}

Status ==
  LET at == {i \in DOMAIN log : log[i].type \in StatusTypes}
  IN IF at = {} THEN "running" ELSE log[CHOOSE i \in at : \A j \in at : j <= i].type

Emit(e) == /\ Status # "terminated" /\ Len(log) < MaxLog
           /\ log' = Append(log, e)
           /\ UNCHANGED <<mode, net, ledger, loop, tools, history>>

AgentUses(c) ==
  Status = "running" /\ c \notin Used /\ Emit(UseEvent(c)) /\ UNCHANGED faults

\* The status lists the events of the open calls, or an id nobody has seen.
AgentWaits ==
  /\ Status = "running" /\ OpenCalls # {}
  /\ \E refs \in {{EventId(c) : c \in OpenCalls}} \cup {{OpaqueId(o)} : o \in Opaque} :
        Emit(RequiresActionEvent(refs))
  /\ UNCHANGED faults

AgentEndsTurn ==
  /\ Status = "running" /\ OpenCalls = {} /\ log # <<>>
  /\ Emit(StatusEvent("end_turn"))
  /\ UNCHANGED faults

AgentRuns ==
  /\ \/ Status = "end_turn"
     \/ Status = "requires_action" /\ OpenCalls = {}
  /\ Emit(StatusEvent("running"))
  /\ UNCHANGED faults

Rescheduled == Fault("reschedule") /\ OpenCalls # {} /\ Emit(StatusEvent("running"))

Terminated == Fault("terminate") /\ Emit(StatusEvent("terminated"))

UserConfirms(c, v) ==
  /\ Permission[c] = "ask" /\ c \in OpenCalls
  /\ \A i \in DOMAIN log : ~(log[i].type = "confirm" /\ log[i].call = c)
  /\ Emit(ConfirmEvent(c, v))
  /\ UNCHANGED faults

UserInterrupts(t) ==
  /\ \E c \in OpenCalls : Matches(c, t)
  /\ Fault("interrupt")
  /\ Emit(InterruptEvent(t))

OthersAnswer(c) ==
  c \in OpenCalls \ Owned /\ Emit(ResultEvent(c, "done")) /\ UNCHANGED faults

\* A request that timed out at the client reaches the control plane after all.
LateDelivery(m) ==
  /\ m \in net
  /\ net' = net \ {m}
  /\ log' = IF Resolved(m[1]) THEN log ELSE Append(log, ResultEvent(m[1], m[2]))
  /\ UNCHANGED <<mode, ledger, loop, tools, history, faults>>

ControlPlane ==
  \/ \E c \in Calls : AgentUses(c) \/ OthersAnswer(c) \/ UserConfirms(c, "allow") \/ UserConfirms(c, "deny")
  \/ AgentWaits \/ AgentEndsTurn \/ AgentRuns \/ Rescheduled \/ Terminated
  \/ \E t \in Threads \cup {AnyThread} : UserInterrupts(t)
  \/ \E m \in net : LateDelivery(m)

-----------------------------------------------------------------------------
(* The disk                                                                *)

\* Faulty: the record of a call stays "started" whatever becomes of the call.
PersistNothing(c, entry) == UNCHANGED <<ledger, faults>>

\* A method of the store that rewrites c's record; its error is only logged.
Persist(c, entry) ==
  IF ~HasStore \/ ledger[c] = "absent"
  THEN UNCHANGED <<ledger, faults>>
  ELSE \/ ledger' = [ledger EXCEPT ![c] = entry] /\ UNCHANGED faults
       \/ Fault("store") /\ UNCHANGED ledger

\* Discard of every call of S; where it fails the record stays.
Discard(S) ==
  \E gone \in SUBSET S :
     /\ \/ gone = S /\ UNCHANGED faults
        \/ gone # S /\ HasStore /\ Fault("store")
     /\ ledger' = [c \in Calls |-> IF c \in gone THEN "absent" ELSE ledger[c]]
     /\ executed' = executed \ gone /\ UNCHANGED ever

-----------------------------------------------------------------------------
(* Goroutines of the tools                                                 *)

\* The state becomes s; if s has a new active call its tool is started.
Become(s) ==
  /\ rs' = s
  /\ IF s.active \in {NoCall, rs.active}
     THEN UNCHANGED <<exec, running, history>>
     ELSE /\ exec' = [NoExec EXCEPT !.call = s.active]
          /\ running' = running \cup {s.active}
          /\ executed' = executed \cup {s.active}
          /\ ever' = ever \cup {s.active}

Returned(r) == exec.call # NoCall /\ exec.result = NoResult /\ exec' = [exec EXCEPT !.result = r]

ToolReturns ==
  /\ Returned("done")
  /\ running' = running \ {exec.call}
  /\ UNCHANGED <<plane, ledger, loop, history, faults>>

\* executeWithTimeout gives up on the tool; its goroutine is left running.
ToolTimesOut ==
  /\ Returned("timedout") /\ Fault("timeout")
  /\ UNCHANGED <<plane, ledger, loop, running, history>>

ToolCancelled ==
  /\ exec.cancelled \/ cancelled
  /\ Returned("cancelled")
  /\ UNCHANGED <<plane, ledger, loop, running, history, faults>>

AbandonedToolEnds(c) ==
  /\ c \in running /\ ~(exec.call = c /\ exec.result = NoResult)
  /\ running' = running \ {c}
  /\ UNCHANGED <<plane, ledger, loop, exec, history, faults>>

-----------------------------------------------------------------------------
(* Start and end of the runner                                             *)

\* What is left of a runner that ended.
Gone(why) ==
  /\ pc' = "down" /\ outcome' = why
  /\ rs' = FreshState /\ seen' = {} /\ stream' = 0 /\ lp' = NoList /\ todo' = {}
  /\ send' = NoSend /\ wake' = "down" /\ cancelled' = FALSE
  /\ exec' = NoExec

Exit(why) == Gone(why) /\ UNCHANGED <<plane, ledger, running, history>>

\* Faulty: a record found started is taken for a result to send.
RecoveredWithStarted(found) ==
  [FreshState EXCEPT
     !.answered = {c \in Calls : found[c] = "sent"},
     !.pendingResults = [c \in Calls |-> IF found[c] \in {"absent", "sent"} THEN NoResult ELSE "started"]]

\* Recover: results not sent yet, and calls found started, whose result is unknown.
Recovered(found) ==
  [FreshState EXCEPT
     !.answered = {c \in Calls : found[c] = "sent"},
     !.pendingResults = [c \in Calls |-> IF found[c] \in Results THEN found[c] ELSE NoResult],
     !.recovered = {c \in Calls : found[c] \in Results}]

\* Faulty: a call found started is forgotten, as if it had never run.
ForgetStarted(found) ==
  [c \in Calls |-> IF found[c] = "started" THEN "absent" ELSE found[c]]

SettleStarted(found) ==
  [c \in Calls |-> IF found[c] = "started" THEN UnknownResult ELSE found[c]]

Connect == IF mode = "stream" THEN "open" ELSE "list"

Start ==
  /\ pc = "down" /\ Status # "terminated"
  /\ ledger' = SettleStarted(ledger)
  /\ rs' = Recovered(SettleStarted(ledger))
  /\ pc' = Connect
  /\ outcome' = "none"
  /\ UNCHANGED <<plane, seen, stream, lp, todo, send, wake, cancelled, tools, history, faults>>

Crash ==
  /\ pc # "down" /\ Fault("crash")
  /\ Gone("died")
  /\ running' = {}
  /\ UNCHANGED <<plane, ledger, history>>

\* The worker closes the runner or loses its lease: the context is cancelled,
\* and wherever the loop looks at it the runner ends.
Cancel ==
  /\ pc # "down" /\ ~cancelled /\ Fault("cancel")
  /\ cancelled' = TRUE
  /\ UNCHANGED <<plane, ledger, pc, rs, seen, stream, lp, todo, send, wake, outcome, tools, history>>

CancelSeen ==
  /\ cancelled /\ pc \in {"open", "list", "pending", "handle", "select", "sleep"}
  /\ Exit("cancelled") /\ UNCHANGED faults

IdleTimeout ==
  /\ pc \in {"select", "sleep"} /\ rs.armed
  /\ Exit("idle") /\ UNCHANGED faults

-----------------------------------------------------------------------------
(* Listing: reconcileOnce, consumeList and processListedEvents             *)

\* Where the loop goes round: consumeStream flushes first, consumeList lists.
Round == IF mode = "stream" THEN "top" ELSE "list"

Sleep(then) == pc' = "sleep" /\ wake' = then

StreamOpens ==
  /\ pc = "open"
  /\ stream' = Len(log) + 1
  /\ pc' = "list"
  /\ UNCHANGED <<plane, ledger, rs, seen, lp, todo, send, wake, cancelled, outcome, tools, history, faults>>

StreamFails ==
  /\ pc = "open" /\ Fault("network")
  /\ Sleep("open")
  /\ UNCHANGED <<plane, ledger, rs, seen, stream, lp, todo, send, cancelled, outcome, tools, history>>

\* A permanent 4xx ends a streaming runner, wherever it talks to the session.
StreamRefused ==
  /\ mode = "stream" /\ pc \in {"open", "list", "select"} /\ Fault("refuse")
  /\ Exit("error")

List(n, complete) == lp' = [NoList EXCEPT !.on = TRUE, !.end = n, !.complete = complete]

EventsListed ==
  /\ pc = "list"
  /\ List(Len(log), TRUE)
  /\ pc' = "event"
  /\ UNCHANGED <<plane, ledger, rs, seen, stream, todo, send, wake, cancelled, outcome, tools, history, faults>>

ReconcileFails ==
  /\ pc = "list" /\ mode = "stream" /\ Fault("network")
  /\ Sleep("list")
  /\ UNCHANGED <<plane, ledger, rs, seen, stream, lp, todo, send, cancelled, outcome, tools, history>>

\* consumeList processes the pages it got before one failed.
PollFails ==
  /\ pc = "list" /\ mode = "list" /\ Fault("network")
  /\ \E n \in 0..Len(log) :
        IF n = 0 THEN pc' = "select" /\ UNCHANGED lp
                 ELSE pc' = "event" /\ List(n, FALSE)
  /\ UNCHANGED <<plane, ledger, rs, seen, stream, todo, send, wake, cancelled, outcome, tools, history>>

\* The bookkeeping of the idle timer: only events not seen before count.
Touch(e, new) ==
  IF new /\ e.type # "confirm"
  THEN [lp EXCEPT !.next = @ + 1, !.touched = TRUE, !.lastEndTurn = (e.type = "end_turn")]
  ELSE [lp EXCEPT !.next = @ + 1]

\* A listed tool use waits until the whole list is processed.
Collect(l, c) ==
  [l EXCEPT !.replayed = @ \cup {c}, !.uses = IF c \in Range(@) THEN @ ELSE Append(@, c)]

\* An interrupt found while reconciling is older than the uses listed after it.
Eligible == IF mode = "stream" THEN lp.replayed ELSE Calls

\* The loop over the listed events; consumeList passes over those seen before.
Current == log[lp.next]
AtEvent == pc = "event" /\ lp.next <= lp.end
Observed == ObserveSessionState(rs, Current)

SeenBefore ==
  /\ AtEvent /\ mode = "list" /\ lp.next \in seen
  /\ lp' = [lp EXCEPT !.next = @ + 1]
  /\ UNCHANGED <<plane, ledger, pc, rs, seen, stream, todo, send, wake, cancelled, outcome, tools, history, faults>>

AtNewEvent ==
  AtEvent /\ (mode = "stream" \/ lp.next \notin seen)

ListedTermination ==
  /\ AtNewEvent /\ Current.type = "terminated"
  /\ Exit("terminated") /\ UNCHANGED faults

CancelMatching(thread, eligible) ==
  exec' = IF rs.active \in eligible /\ Matches(rs.active, thread)
          THEN [exec EXCEPT !.cancelled = TRUE] ELSE exec

ListedInterrupt ==
  /\ AtNewEvent /\ Current.type = "interrupt"
  /\ seen' = seen \cup {lp.next}
  /\ lp' = Touch(Current, lp.next \notin seen)
  /\ rs' = HandleInterrupt(Observed, Current.thread, Eligible)
  /\ CancelMatching(Current.thread, Eligible)
  /\ Discard(Interrupted(Observed, Current.thread, Eligible))
  /\ UNCHANGED <<plane, pc, stream, todo, send, wake, cancelled, outcome, running>>

\* Events that only change what the runner knows.
Learn(s, e) ==
  CASE e.type = "confirm" -> RecordConfirmation(s, e.call, e.verdict)
    [] e.type = "result"  -> MarkAnswered(s, e.call)
    [] OTHER              -> s

ListedEvent ==
  /\ AtNewEvent /\ Current.type \notin {"terminated", "interrupt"}
  /\ seen' = seen \cup {lp.next}
  /\ lp' = LET l == Touch(Current, lp.next \notin seen)
           IN IF Current.type = "use" THEN Collect(l, Current.call) ELSE l
  /\ rs' = Learn(Observed, Current)
  /\ UNCHANGED <<plane, ledger, pc, stream, todo, send, wake, cancelled, outcome, tools, history, faults>>

\* After the events: the recovered results are checked against what the session
\* waits for, then the collected tool uses are handled one by one.
ListEnds ==
  /\ pc = "event" /\ lp.next > lp.end
  /\ LET s == ReconcileUnmatchedRequiresAction(rs)
         t == ReconcileRecoveredResults(s)
     IN /\ rs' = IF lp.touched THEN DisarmIdle(t) ELSE t
        /\ Discard(StaleRecovered(s))
  /\ pc' = "pending"
  /\ UNCHANGED <<plane, seen, stream, lp, todo, send, wake, cancelled, outcome, tools>>

PassOver ==
  /\ pc = "pending" /\ lp.uses # <<>>
  /\ LET c == Head(lp.uses) IN c \in rs.answered \/ ~ShouldHandleToolUse(rs, c)
  /\ lp' = [lp EXCEPT !.uses = Tail(@)]
  /\ UNCHANGED <<plane, ledger, pc, rs, seen, stream, todo, send, wake, cancelled, outcome, tools, history, faults>>

\* releaseConfirmedToolUses handles the calls whose confirmation has arrived.
Ready(s) == {c \in s.pendingAsk : s.confirmations[c] # "none"}

PendingDone ==
  /\ pc = "pending" /\ lp.uses = <<>>
  /\ pc' = "handle" /\ todo' = Ready(rs)
  /\ UNCHANGED <<plane, ledger, rs, seen, stream, lp, send, wake, cancelled, outcome, tools, history, faults>>

\* Back to the loop: consumeList flushes only after a complete listing.
AfterList == IF mode = "stream" \/ lp.complete THEN "top" ELSE "select"

HandleDone ==
  /\ pc = "handle" /\ todo = {}
  /\ rs' = IF lp.on /\ lp.touched /\ lp.lastEndTurn THEN ArmIdle(rs) ELSE rs
  /\ pc' = IF lp.on THEN AfterList ELSE "top"
  /\ lp' = NoList
  /\ UNCHANGED <<plane, ledger, seen, stream, todo, send, wake, cancelled, outcome, tools, history, faults>>

Listing ==
  \/ StreamOpens \/ StreamFails \/ StreamRefused \/ EventsListed \/ ReconcileFails \/ PollFails
  \/ SeenBefore \/ ListedTermination \/ ListedInterrupt \/ ListedEvent
  \/ ListEnds \/ PassOver \/ PendingDone \/ HandleDone

-----------------------------------------------------------------------------
(* handleToolUse, for a listed tool use or one the stream brought          *)

\* c is the call the loop handles next, and the loop moves on.
Handles(c) ==
  \/ /\ pc = "pending" /\ lp.uses # <<>> /\ c = Head(lp.uses)
     /\ c \notin rs.answered /\ ShouldHandleToolUse(rs, c)
     /\ lp' = [lp EXCEPT !.uses = Tail(@)] /\ UNCHANGED todo
  \/ /\ pc = "handle" /\ c \in todo
     /\ todo' = todo \ {c} /\ UNCHANGED lp

\* Nothing is known of the call yet: it is neither settled, queued nor waiting
\* for its result to be sent.
Untouched(c) ==
  c \notin rs.answered \cup rs.scheduled /\ rs.pendingResults[c] = NoResult

\* Faulty: any confirmation is taken for consent.
DecisionIgnoringVerdict(c) ==
  IF Permission[c] # "ask" THEN Permission[c]
  ELSE IF rs.confirmations[c] = "none" THEN "none" ELSE "allow"

Decision(c) == IF Permission[c] = "ask" THEN rs.confirmations[c] ELSE Permission[c]

StartSend(c, r, from, back) ==
  /\ send' = [NoSend EXCEPT !.call = c, !.result = r, !.from = from, !.back = back]
  /\ pc' = "send"

Remaining == <<plane, seen, stream, wake, cancelled, outcome>>

HandleSettled(c) ==
  /\ Handles(c)
  /\ \/ c \in rs.answered \cup rs.scheduled
     \/ c \in rs.recovered /\ rs.pendingResults[c] # NoResult
  /\ UNCHANGED <<Remaining, ledger, pc, rs, send, tools, history, faults>>

ResendResult(c) ==
  /\ Handles(c)
  /\ c \notin rs.answered \cup rs.scheduled \cup rs.recovered
  /\ rs.pendingResults[c] # NoResult
  /\ StartSend(c, rs.pendingResults[c], "use", pc)
  /\ UNCHANGED <<Remaining, ledger, rs, tools, history, faults>>

SkipExternal(c) ==
  /\ Handles(c) /\ Untouched(c) /\ c \notin Owned
  /\ rs' = MaybeArmPendingIdle([rs EXCEPT !.external = @ \cup {c}])
  /\ UNCHANGED <<Remaining, ledger, pc, send, tools, history, faults>>

AwaitConfirmation(c) ==
  /\ Handles(c) /\ Untouched(c) /\ c \in Owned /\ Decision(c) = "none"
  /\ rs' = [rs EXCEPT !.pendingAsk = @ \cup {c}]
  /\ UNCHANGED <<Remaining, ledger, pc, send, tools, history, faults>>

ResolveWithoutPost(c) ==
  /\ Handles(c) /\ Untouched(c) /\ c \in Owned /\ Decision(c) = "deny"
  /\ rs' = MarkAnswered(rs, c)
  /\ UNCHANGED <<Remaining, ledger, pc, send, tools, history, faults>>

Allowed(c) == Handles(c) /\ Untouched(c) /\ c \in Owned /\ Decision(c) = "allow"

\* Begin finds no record (or there is no store): the call is queued.
BeginFresh(c) ==
  /\ Allowed(c)
  /\ ledger[c] = "absent"
  /\ ledger' = IF HasStore THEN [ledger EXCEPT ![c] = "started"] ELSE ledger
  /\ Become(Schedule(rs, c))
  /\ UNCHANGED <<Remaining, pc, send, faults>>

\* Begin finds a record: the call was sent already, or its result (unknown, if
\* it was only started) is sent instead of executing it again.
BeginRecorded(c) ==
  /\ Allowed(c) /\ ledger[c] # "absent"
  /\ LET r == SettleStarted(ledger)[c]
     IN /\ ledger' = [ledger EXCEPT ![c] = r]
        /\ IF r = "sent"
           THEN rs' = MarkAnswered(rs, c) /\ UNCHANGED <<pc, send>>
           ELSE rs' = [rs EXCEPT !.pendingResults[c] = r] /\ StartSend(c, r, "use", pc)
  /\ UNCHANGED <<Remaining, tools, history, faults>>

\* Begin fails, with or without its effect on the disk, and the runner ends.
BeginFails(c) ==
  /\ Allowed(c) /\ HasStore /\ Fault("store")
  /\ ledger' \in {ledger, [ledger EXCEPT ![c] = IF @ = "absent" THEN "started" ELSE @]}
  /\ Gone("error")
  /\ UNCHANGED <<plane, running, history>>

HandleToolUse(c) ==
  \/ HandleSettled(c) \/ ResendResult(c) \/ SkipExternal(c) \/ AwaitConfirmation(c)
  \/ ResolveWithoutPost(c) \/ BeginFresh(c) \/ BeginRecorded(c) \/ BeginFails(c)

-----------------------------------------------------------------------------
(* finishToolExecution, and the sending of results                         *)

\* The loop takes a result from executionDone where it waits.
FinishAnswered ==
  /\ pc \in {"select", "sleep"} /\ exec.result # NoResult
  /\ exec.call \in rs.answered
  /\ LET s == StartNext(ClearActive(rs))
     IN /\ rs' = s
        /\ exec' = IF s.active = NoCall THEN NoExec ELSE [NoExec EXCEPT !.call = s.active]
        /\ running' = running \cup ({s.active} \ {NoCall})
        /\ executed' = executed \cup ({s.active} \ {NoCall})
        /\ ever' = ever \cup ({s.active} \ {NoCall})
  /\ pc' = IF pc = "select" THEN Round ELSE pc
  /\ UNCHANGED <<plane, ledger, seen, stream, lp, todo, send, wake, cancelled, outcome, faults>>

\* postResult: the result is saved, kept as pending and sent; the next tool
\* starts once that is over.
FinishUnanswered ==
  /\ pc \in {"select", "sleep"} /\ exec.result # NoResult
  /\ exec.call \notin rs.answered
  /\ Persist(exec.call, exec.result)
  /\ rs' = IF HasStore
           THEN [ClearActive(rs) EXCEPT !.pendingResults[exec.call] = exec.result]
           ELSE ClearActive(rs)
  /\ StartSend(exec.call, exec.result, "finish", IF pc = "select" THEN Round ELSE pc)
  /\ exec' = NoExec
  /\ UNCHANGED <<plane, seen, stream, lp, todo, wake, cancelled, outcome, running, history>>

Sending == <<mode, ledger, rs, seen, stream, lp, todo, wake, cancelled, outcome, tools, history>>

Answered(how) == pc' = "sent" /\ send' = [send EXCEPT !.outcome = how]

\* The control plane takes the result of an open call, and takes the result of
\* an answered call again without a second event.
SendAccepted ==
  /\ pc = "send"
  /\ \/ ~Resolved(send.call) /\ log' = Append(log, ResultEvent(send.call, send.result))
     \/ HasResult(send.call) /\ UNCHANGED log
  /\ Answered("posted")
  /\ UNCHANGED <<Sending, net, faults>>

\* A permanent 4xx: always possible for a call that is resolved already.
SendRefused ==
  /\ pc = "send"
  /\ \/ Resolved(send.call) /\ UNCHANGED faults
     \/ Fault("refuse")
  /\ Answered("refused")
  /\ UNCHANGED <<Sending, log, net>>

\* Faulty: a result whose retries ran out is taken for delivered.
RetryOrForget(limit, early) ==
  \/ /\ send.attempt + 1 < limit /\ ~cancelled
     /\ send' = [send EXCEPT !.attempt = @ + 1] /\ UNCHANGED pc
  \/ /\ send.attempt + 1 >= limit \/ cancelled \/ early
     /\ Answered("posted")

\* An attempt that failed is repeated within the budget of its error; the
\* window of the conflicts may close earlier.
RetryOrKeep(limit, early) ==
  \/ /\ send.attempt + 1 < limit /\ ~cancelled
     /\ send' = [send EXCEPT !.attempt = @ + 1] /\ UNCHANGED pc
  \/ /\ send.attempt + 1 >= limit \/ cancelled \/ early
     /\ Answered("kept")

SendConflicts ==
  /\ pc = "send" /\ Fault("conflict")
  /\ RetryOrKeep(ConflictRetries, TRUE)
  /\ UNCHANGED <<Sending, log, net>>

\* The request, its reply, or a request still under way is lost to the client.
SendFails ==
  /\ pc = "send" /\ Fault("send")
  /\ \/ UNCHANGED <<log, net>>
     \/ ~Resolved(send.call) /\ log' = Append(log, ResultEvent(send.call, send.result)) /\ UNCHANGED net
     \/ net' = net \cup {<<send.call, send.result>>} /\ UNCHANGED log
  /\ RetryOrKeep(SendRetries, FALSE)
  /\ UNCHANGED Sending

\* Faulty: a result that could not be delivered counts as an answer.
AfterAnySend(s) ==
  IF send.outcome = "refused" THEN s ELSE MarkAnswered(s, send.call)

\* What sendResult (and flushResults) does with the outcome.
AfterSend(s) ==
  CASE send.outcome = "posted" -> MarkAnswered(s, send.call)
    [] send.outcome = "kept"   -> [s EXCEPT !.pendingResults[send.call] = send.result]
    [] OTHER                   -> s

SendEnds ==
  /\ pc = "sent"
  /\ Become(IF send.from = "finish" THEN StartNext(AfterSend(rs)) ELSE AfterSend(rs))
  /\ IF send.outcome = "posted" THEN Persist(send.call, "sent") ELSE UNCHANGED <<ledger, faults>>
  /\ pc' = send.back
  /\ send' = NoSend
  /\ UNCHANGED <<plane, seen, stream, lp, todo, wake, cancelled, outcome>>

\* sendResult may find the context cancelled instead of reporting the call.
SendCancelled ==
  /\ pc = "sent" /\ cancelled /\ send.from # "flush"
  /\ IF send.outcome = "posted" THEN Persist(send.call, "sent") ELSE UNCHANGED <<ledger, faults>>
  /\ Gone("cancelled")
  /\ UNCHANGED <<plane, running, history>>

\* flushResults sends again what was not delivered, except what a restart
\* recovered and the session's status has not confirmed yet.
Flushable(s) == {c \in Calls : s.pendingResults[c] # NoResult} \ s.recovered

FlushStarts ==
  /\ pc = "top"
  /\ pc' = "flush" /\ todo' = Flushable(rs)
  /\ UNCHANGED <<plane, ledger, rs, seen, stream, lp, send, wake, cancelled, outcome, tools, history, faults>>

FlushNext(c) ==
  /\ pc = "flush" /\ c \in todo
  /\ todo' = todo \ {c}
  /\ StartSend(c, rs.pendingResults[c], "flush", "flush")
  /\ UNCHANGED <<plane, ledger, rs, seen, stream, lp, wake, cancelled, outcome, tools, history, faults>>

FlushEnds ==
  /\ pc = "flush" /\ todo = {}
  /\ rs' = MaybeArmPendingIdle(rs)
  /\ pc' = "select"
  /\ UNCHANGED <<plane, ledger, seen, stream, lp, todo, send, wake, cancelled, outcome, tools, history, faults>>

Delivery ==
  \/ FinishAnswered \/ FinishUnanswered
  \/ SendAccepted \/ SendRefused \/ SendConflicts \/ SendFails \/ SendEnds \/ SendCancelled
  \/ FlushStarts \/ \E c \in Calls : FlushNext(c)
  \/ FlushEnds

-----------------------------------------------------------------------------
(* Waiting: consumeStream's select, consumeList's ticker, sleepOrIdle      *)

AtStream == pc = "select" /\ mode = "stream" /\ stream <= Len(log)
Arrived == log[stream]
Noted == NoteIdleEvent(ReconcileRecoveredResults(ObserveSessionState(rs, Arrived)), Arrived)

Consume ==
  /\ stream' = stream + 1
  /\ seen' = seen \cup {stream}

StreamSeenBefore ==
  /\ AtStream /\ stream \in seen
  /\ Consume /\ pc' = "top"
  /\ UNCHANGED <<plane, ledger, rs, lp, todo, send, wake, cancelled, outcome, tools, history, faults>>

StreamTermination ==
  /\ AtStream /\ stream \notin seen /\ Arrived.type = "terminated"
  /\ Exit("terminated") /\ UNCHANGED faults

StreamInterrupt ==
  /\ AtStream /\ stream \notin seen /\ Arrived.type = "interrupt"
  /\ Consume /\ pc' = "top"
  /\ rs' = HandleInterrupt(Noted, Arrived.thread, Calls)
  /\ CancelMatching(Arrived.thread, Calls)
  /\ Discard(Interrupted(Noted, Arrived.thread, Calls)
             \cup StaleRecovered(ObserveSessionState(rs, Arrived)))
  /\ UNCHANGED <<plane, lp, todo, send, wake, cancelled, outcome, running>>

\* A tool use, or a confirmation that releases the calls waiting for one, leads
\* to handleToolUse; any other event only changes what the runner knows.
StreamEvent ==
  /\ AtStream /\ stream \notin seen /\ Arrived.type \notin {"terminated", "interrupt"}
  /\ Consume
  /\ LET s == Learn(Noted, Arrived)
     IN /\ rs' = s
        /\ todo' = CASE Arrived.type = "use"     -> {Arrived.call}
                     [] Arrived.type = "confirm" -> Ready(s)
                     [] OTHER                    -> {}
  /\ pc' = IF todo' = {} THEN "top" ELSE "handle"
  /\ Discard(StaleRecovered(ObserveSessionState(rs, Arrived)))
  /\ UNCHANGED <<plane, lp, send, wake, cancelled, outcome, tools>>

Disconnected ==
  /\ pc = "select" /\ mode = "stream" /\ Fault("network")
  /\ stream' = 0
  /\ Sleep("open")
  /\ UNCHANGED <<plane, ledger, rs, seen, lp, todo, send, cancelled, outcome, tools, history>>

SleepEnds ==
  /\ pc = "sleep"
  /\ pc' = wake /\ wake' = "down"
  /\ UNCHANGED <<plane, ledger, rs, seen, stream, lp, todo, send, cancelled, outcome, tools, history, faults>>

Tick ==
  /\ pc = "select" /\ mode = "list"
  /\ pc' = "list"
  /\ UNCHANGED <<plane, ledger, rs, seen, stream, lp, todo, send, wake, cancelled, outcome, tools, history, faults>>

Waiting ==
  \/ StreamSeenBefore \/ StreamTermination \/ StreamInterrupt \/ StreamEvent
  \/ Disconnected \/ SleepEnds \/ Tick \/ IdleTimeout \/ CancelSeen

-----------------------------------------------------------------------------
EventLoop ==
  \/ Start \/ Listing \/ Delivery \/ Waiting
  \/ \E c \in Calls : HandleToolUse(c)

Goroutines ==
  \/ ToolReturns \/ ToolTimesOut \/ ToolCancelled
  \/ \E c \in Calls : AbandonedToolEnds(c)

Next == EventLoop \/ Goroutines \/ ControlPlane \/ Crash \/ Cancel

Spec == Init /\ [][Next]_vars

-----------------------------------------------------------------------------
(* Properties                                                              *)

Launches(c) == exec'.call = c /\ exec.call # c

\* "Avoid executing tools with side effects again after a restart" (the comment
\* of ToolResultStore): a call is not started again while its record stands,
\* through crashes, reconnects, lost replies and late answers.
NeverExecutedTwice ==
  [][\A c \in Calls : Launches(c) => c \notin executed]_vars

\* What makes it so: a call that was started has a record in the ledger.
ExecutedIsRecorded == HasStore => \A c \in executed : ledger[c] # "absent"

\* No call is given two different results: in the log, under way, or about to
\* be sent.
Offered(c) ==
  {log[i].result : i \in {i \in DOMAIN log : log[i].type = "result" /\ log[i].call = c}}
  \cup {m[2] : m \in {m \in net : m[1] = c}}
  \cup (IF send.call = c THEN {send.result} ELSE {})

OneResultPerCall == \A c \in Owned : Cardinality(Offered(c)) <= 1

\* An interrupt the runner has seen is final for the calls it hits: they are not
\* queued, held for sending or sent.
InterruptIsFinal ==
  \A c \in Calls : InterruptedIn(seen, c) =>
     /\ c \notin Range(rs.queue) \cup rs.recovered
     /\ rs.pendingResults[c] = NoResult
     /\ send.call # c

\* A tool that asks for permission is started only after the user allowed it.
NoExecutionWithoutConsent ==
  [][\A c \in Calls : Launches(c) =>
        \/ Permission[c] = "allow"
        \/ Permission[c] = "ask" /\ ConfirmEvent(c, "allow") \in Range(log)]_vars

\* The runner gives up on a call only when the session no longer waits for it.
AnsweredIsResolved == \A c \in rs.answered : Resolved(c)

\* The ledger never says "sent" of a result the control plane does not have.
SentIsDelivered == \A c \in Calls : ledger[c] = "sent" => HasResult(c)

\* The runner ends as idle only when no tool use it has seen is still open:
\* not executing, not waiting for a confirmation or another runner's answer,
\* and not with a result it has yet to deliver.
IdleLeavesNothingOpen ==
  [][outcome' = "idle" /\ pc # "down" =>
        \A i \in seen : log[i].type = "use" => Resolved(log[i].call)]_vars

\* A call that is scheduled and has no answer yet is queued or executing: what it keeps
\* from happening (a second scheduling, the idle timer) is bound to end.
ScheduledIsQueued == rs.scheduled \ rs.answered \subseteq Range(rs.queue) \cup {rs.active}

\* MaxIdle is how long the runner waits after an end_turn (EnvironmentWorker's
\* option): once the session's last event, an end_turn, is seen and no call is
\* open or executing, the idle timer runs.
EndTurnArmsTimer ==
  /\ IdleExit /\ pc = "select" /\ exec = NoExec
  /\ log # <<>> /\ Len(log) \in seen /\ Status = "end_turn" /\ OpenCalls = {}
  => rs.armed

\* The comment of ToolResultStore taken at its word: no call is ever started a
\* second time, record or not. It needs more of the store and the session than the
\* other properties do.
NeverExecutedAgain == [][\A c \in Calls : Launches(c) => c \notin ever]_vars

-----------------------------------------------------------------------------
(* Liveness                                                                *)

\* The event loop goes on wherever it does not wait; select does not starve a
\* finished tool; a tool returns, a runner that ended is started again.
Fairness ==
  /\ WF_vars(Start) /\ WF_vars(ToolReturns)
  /\ WF_vars(Listing) /\ WF_vars(Tick) /\ WF_vars(SleepEnds)
  /\ WF_vars(StreamSeenBefore \/ StreamInterrupt \/ StreamEvent)
  /\ WF_vars(SendAccepted) /\ WF_vars(SendRefused) /\ WF_vars(SendEnds)
  /\ WF_vars(FlushStarts \/ FlushEnds \/ \E c \in Calls : FlushNext(c))
  /\ WF_vars(\E c \in Calls : HandleToolUse(c))
  /\ SF_vars(FinishAnswered \/ FinishUnanswered)

FairSpec == Spec /\ Fairness

\* A call the session waits for and this runner may execute is resolved in the
\* end, whatever crashes, disconnects and failed sends come first.
Awaited(c) ==
  /\ c \in Owned /\ Permission[c] = "allow"
  /\ Status = "requires_action" /\ c \in OpenCalls

AwaitedIsResolved == \A c \in Calls : Awaited(c) ~> Resolved(c)
=============================================================================
