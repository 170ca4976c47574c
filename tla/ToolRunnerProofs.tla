-------------------------- MODULE ToolRunnerProofs --------------------------
(***************************************************************************)
(* The safety of the session runner, for every number of calls, threads    *)
(* and events and whatever faults happen.                                  *)
(*                                                                         *)
(* IInv is inductive.  Its parts: CallsInv (types; every call in one       *)
(* place), ReadInv (what is read is a prefix of the log), LedgerInv (what  *)
(* is queued is recorded and has not run), DeliveredInv (sent means        *)
(* delivered), ConsentInv (what is queued may run), InterruptInv (what the *)
(* loop has in hand is what it has seen used and not settled), IdleInv     *)
(* (the idle timer is set only while nothing seen is open) and OutcomeInv. *)
(* Steps are of three kinds: quiet ones, ones after which the runner is    *)
(* gone, and loud ones, each with a lemma that says what it changes.       *)
(*                                                                         *)
(* ResultsInv is a second invariant, inductive on top of IInv where the    *)
(* store and what the runner is told are Reliable: HistoryInv, ConfirmInv  *)
(* and GrantInv (what the status events mean), ListingInv, RecInv and      *)
(* AwaitInv (a runner that has read the history waits for what is open, so *)
(* that nothing it recovered is stale), HeldInv (what is held or sent is   *)
(* on record) and GivenInv (what was given is on record, or withdrawn).    *)
(* No call is then given two results, and none is executed again.          *)
(***************************************************************************)
EXTENDS ToolRunner, RunnerStateProofs

-----------------------------------------------------------------------------
(* The types, and where every call is                                      *)

\* A result is being sent; the loop is then where the sending goes back to.
Sends == {"send", "sent"}
Place == IF pc \in Sends THEN send.back ELSE pc

\* What is being sent is a call that is neither scheduled nor answered, with a result; no
\* send is set up elsewhere.
SendInv ==
  IF pc \in Sends
  THEN /\ send.call \in Calls \ (rs.scheduled \cup rs.answered)
       /\ send.result \in Results
       /\ send.back \in {"pending", "handle", "flush", "top", "list", "sleep"}
       /\ send.back = "flush" => send.call \notin todo
       /\ send.from = "flush" <=> send.back = "flush"
  ELSE send = NoSend

\* Where a sleep ends, what a flush has left to send, and that nothing is left of a
\* runner that ended.
PlaceInv ==
  /\ Place = "sleep" => wake \in {"open", "list"}
  /\ Place = "flush" => \A c \in todo : rs.pendingResults[c] # NoResult
  /\ pc = "down" => exec = NoExec /\ seen = {} /\ lp = NoList /\ todo = {} /\ stream = 0

\* executeTool runs the active call, and only for an active call a result is waiting.
ExecInv ==
  /\ exec.call = rs.active
  /\ exec.result # NoResult => exec.call # NoCall

\* The types, and where every call is: the part of the invariant all the others need.
CallsInv == TypeOK /\ Orderly(rs) /\ ExecInv /\ SendInv /\ PlaceInv

-----------------------------------------------------------------------------
(* Values, the control plane and the goroutines                            *)

\* The type of an event tells its fields.
LEMMA EventFields ==
  ASSUME NEW e \in Events
  PROVE  /\ e.type = "use" => e.call \in Calls /\ e = UseEvent(e.call)
         /\ e.type = "result" => e.call \in Calls
         /\ e.type = "confirm" => /\ e.call \in Calls /\ e.verdict \in {"allow", "deny"}
                                  /\ e = ConfirmEvent(e.call, e.verdict)
         /\ e.type = "requires_action" => e.refs \in SUBSET Refs
BY DEF Events, UseEvent, ResultEvent, ConfirmEvent, InterruptEvent, RequiresActionEvent, StatusEvent

\* The values of a runner that does nothing have their types.
LEMMA Defaults ==
  /\ NoList \in Listings /\ NoSend \in PostStates /\ NoExec \in ExecStates
  /\ NoExec.call = NoCall /\ NoExec.result = NoResult
  /\ "down" \in PCs
BY DEF NoList, NoSend, NoExec, PCs, Listings, PostStates, ExecStates

\* newToolRunnerState is a good state.
LEMMA FreshIsOrderly == FreshState \in RunnerStates /\ Orderly(FreshState) /\ FreshState.active = NoCall
<1>1. <<>> \in Seq(Calls) /\ DOMAIN <<>> = {} /\ Range(<<>>) = {}
  BY DEF Range
<1>2. [c \in Calls |-> NoResult] \in [Calls -> Results \cup {NoResult}]
      /\ [c \in Calls |-> "none"] \in [Calls -> Verdicts]
  BY DEF Verdicts
<1>3. FreshState \in RunnerStates
  BY <1>1, <1>2 DEF FreshState, RunnerStates
<1> QED
  BY <1>1, <1>3 DEF FreshState, Orderly

\* CallsInv holds at first.
LEMMA InitCallsInv == Init => CallsInv
<1> SUFFICES ASSUME Init PROVE CallsInv
  OBVIOUS
<1>1. ledger \in [Calls -> Entries] /\ log \in Seq(Events)
  BY DEF Init, Entries
<1>2. TypeOK
  BY <1>1, FreshIsOrderly, Defaults DEF Init, TypeOK
<1> QED
  BY <1>2, FreshIsOrderly, Defaults DEF Init, CallsInv, ExecInv, SendInv, PlaceInv, Place, Sends

\* A runner that ends leaves CallsInv true.
LEMMA GoneCallsInv ==
  ASSUME CallsInv, NEW why \in {"idle", "terminated", "cancelled", "error", "died"}, Gone(why),
         UNCHANGED plane, ledger' \in [Calls -> Entries], running' \subseteq Calls,
         executed' \subseteq Calls, ever' \subseteq Calls, faults' \in Nat
  PROVE  CallsInv'
<1>1. TypeOK'
  BY FreshIsOrderly, Defaults DEF CallsInv, TypeOK, Gone, plane
<1> QED
  BY <1>1, FreshIsOrderly, Defaults DEF Gone, CallsInv, ExecInv, SendInv, PlaceInv, Place, Sends

\* Appending an event to the log gives a log.
LEMMA LogGrows ==
  ASSUME log \in Seq(Events), NEW e \in Events, log' = Append(log, e)
  PROVE  log' \in Seq(Events)
OBVIOUS

\* Only calls are used.
LEMMA UsedCalls == log \in Seq(Events) => Used \subseteq Calls
BY EventFields DEF Used

\* Emit appends to the log and touches nothing of the runner.
LEMMA EmitEffect ==
  ASSUME TypeOK, NEW e \in Events, Emit(e)
  PROVE  log' = Append(log, e) /\ log' \in Seq(Events)
         /\ UNCHANGED <<mode, net, ledger, loop, tools, history>>
BY DEF TypeOK, Emit

\* The control plane appends at most one event and touches nothing of the runner.
LEMMA ControlPlaneEffect ==
  ASSUME TypeOK, ControlPlane
  PROVE  /\ log' = log \/ \E e \in Events : log' = Append(log, e) /\ (e.type = "end_turn" => OpenCalls = {})
         /\ log' \in Seq(Events) /\ net' \subseteq net /\ faults' \in Nat
         /\ UNCHANGED <<mode, ledger, loop, tools, history>>
<1> DEFINE Goal == /\ \/ log' = log
                      \/ \E e \in Events : log' = Append(log, e) /\ (e.type = "end_turn" => OpenCalls = {})
                   /\ log' \in Seq(Events) /\ net' \subseteq net /\ faults' \in Nat
                   /\ UNCHANGED <<mode, ledger, loop, tools, history>>
<1>1. ASSUME NEW e \in Events, e.type = "end_turn" => OpenCalls = {}, Emit(e), UNCHANGED faults \/ faults' = faults + 1 PROVE Goal
  BY <1>1, EmitEffect DEF TypeOK
<1> HIDE DEF Goal
<1>2. OpenCalls \subseteq Calls
  BY UsedCalls DEF TypeOK, OpenCalls
<1>3. ASSUME NEW c \in Calls, AgentUses(c) PROVE Goal
  <2>1. UseEvent(c) \in Events /\ UseEvent(c).type # "end_turn"
    BY DEF Events, UseEvent
  <2> QED
    BY <1>1, <1>3, <2>1 DEF AgentUses
<1>4. ASSUME NEW c \in Calls, OthersAnswer(c) PROVE Goal
  <2>1. ResultEvent(c, "done") \in Events /\ ResultEvent(c, "done").type # "end_turn"
    BY DEF Events, Results, ResultEvent
  <2> QED
    BY <1>1, <1>4, <2>1 DEF OthersAnswer
<1>5. ASSUME NEW c \in Calls, NEW v \in {"allow", "deny"}, UserConfirms(c, v) PROVE Goal
  <2>1. ConfirmEvent(c, v) \in Events /\ ConfirmEvent(c, v).type # "end_turn"
    BY DEF Events, ConfirmEvent
  <2> QED
    BY <1>1, <1>5, <2>1 DEF UserConfirms
<1>6. ASSUME AgentWaits PROVE Goal
  <2>1. PICK refs \in {{EventId(c) : c \in OpenCalls}} \cup {{OpaqueId(o)} : o \in Opaque} :
          Emit(RequiresActionEvent(refs))
    BY <1>6 DEF AgentWaits
  <2>2. refs \in SUBSET Refs
    BY <1>2 DEF Refs
  <2>3. RequiresActionEvent(refs) \in Events /\ RequiresActionEvent(refs).type # "end_turn"
    BY <2>2 DEF Events, RequiresActionEvent
  <2> QED
    BY <1>1, <1>6, <2>1, <2>3 DEF AgentWaits
<1>7. ASSUME AgentEndsTurn \/ AgentRuns \/ Rescheduled \/ Terminated PROVE Goal
  <2>1. /\ {StatusEvent("end_turn"), StatusEvent("running"), StatusEvent("terminated")} \subseteq Events
        /\ StatusEvent("running").type # "end_turn" /\ StatusEvent("terminated").type # "end_turn"
    BY DEF Events, StatusEvent
  <2> QED
    BY <1>1, <1>7, <2>1 DEF AgentEndsTurn, AgentRuns, Rescheduled, Terminated, Fault
<1>8. ASSUME NEW t \in Threads \cup {AnyThread}, UserInterrupts(t) PROVE Goal
  <2>1. InterruptEvent(t) \in Events /\ InterruptEvent(t).type # "end_turn"
    BY DEF Events, InterruptEvent
  <2> QED
    BY <1>1, <1>8, <2>1 DEF UserInterrupts, Fault
<1>9. ASSUME NEW m \in net, LateDelivery(m) PROVE Goal
  <2>1. ResultEvent(m[1], m[2]) \in Events /\ ResultEvent(m[1], m[2]).type # "end_turn"
    BY DEF Events, TypeOK, ResultEvent
  <2> QED
    BY <1>9, <2>1 DEF LateDelivery, Goal, TypeOK
<1>10. Goal
  BY <1>3, <1>4, <1>5, <1>6, <1>7, <1>8, <1>9 DEF ControlPlane
<1> QED
  BY <1>10 DEF Goal

\* A step of the control plane alone keeps CallsInv.
LEMMA PlaneCallsInv ==
  ASSUME CallsInv, log' \in Seq(Events), net' \subseteq net, faults' \in Nat,
         UNCHANGED <<mode, ledger, loop, tools, history>>
  PROVE  CallsInv'
<1>1. TypeOK'
  BY DEF CallsInv, TypeOK, loop, tools, history
<1> QED
  BY <1>1 DEF CallsInv, ExecInv, SendInv, PlaceInv, Place, Sends, loop, tools

\* The goroutines of the tools keep CallsInv.
LEMMA GoroutinesCallsInv == CallsInv /\ Goroutines => CallsInv'
<1> SUFFICES ASSUME CallsInv, Goroutines PROVE CallsInv'
  OBVIOUS
<1>1. UNCHANGED <<plane, ledger, loop, history>> /\ faults' \in Nat /\ running' \subseteq Calls
  BY DEF CallsInv, TypeOK, Goroutines, ToolReturns, ToolTimesOut, ToolCancelled, AbandonedToolEnds, Fault
<1>2. exec' = exec \/ \E r \in {"done", "timedout", "cancelled"} :
                        exec.call # NoCall /\ exec.result = NoResult /\ exec' = [exec EXCEPT !.result = r]
  BY DEF Goroutines, ToolReturns, ToolTimesOut, ToolCancelled, AbandonedToolEnds, Returned
<1>3. exec' \in ExecStates
      /\ exec'.call = exec.call /\ (exec'.result # NoResult => exec.call # NoCall)
      /\ (exec = NoExec => exec' = NoExec)
  BY <1>2, Defaults DEF CallsInv, ExecInv, TypeOK, ExecStates, Results
<1>4. TypeOK'
  BY <1>1, <1>3 DEF CallsInv, TypeOK, plane, loop, history
<1> QED
  BY <1>1, <1>3, <1>4 DEF CallsInv, ExecInv, SendInv, PlaceInv, Place, Sends, loop

\* t has what s has in the execution queue, and both are states of the runner.
Frame(s, t) ==
  /\ t \in RunnerStates /\ Orderly(t)
  /\ t.queue = s.queue /\ t.active = s.active /\ t.scheduled = s.scheduled

\* observeSessionState changes only what the session waits for and which uses are known.
LEMMA ObservedEffect ==
  ASSUME NEW s \in RunnerStates, Orderly(s), NEW e \in Events
  PROVE  LET t == ObserveSessionState(s, e)
         IN /\ Frame(s, t) /\ SameCalls(s, t)
            /\ t.toolUses = IF e.type = "use" /\ e.call \notin s.answered
                            THEN s.toolUses \cup {e.call} ELSE s.toolUses
<1> DEFINE t == ObserveSessionState(s, e)
<1>1. /\ t \in RunnerStates /\ SameCalls(s, t)
      /\ t.toolUses = IF e.type = "use" /\ e.call \notin s.answered
                      THEN s.toolUses \cup {e.call} ELSE s.toolUses
  BY EventFields, ObserveSessionStateEffect
<1>2. Orderly(t)
  BY <1>1, SameCallsOrderly
<1> HIDE DEF t
<1>3. Frame(s, t)
  BY <1>1, <1>2 DEF Frame, SameCalls
<1> QED
  BY <1>1, <1>3 DEF t

\* reconcileRecoveredResults changes neither the queue nor what is answered.
LEMMA ReconciledEffect ==
  ASSUME NEW s \in RunnerStates, Orderly(s)
  PROVE  LET t == ReconcileRecoveredResults(s)
         IN /\ Frame(s, t) /\ t.answered = s.answered
            /\ t.confirmations = s.confirmations
            /\ t.pendingAsk = s.pendingAsk /\ t.toolUses = s.toolUses
<1> DEFINE t == ReconcileRecoveredResults(s)
<1>1. /\ t \in RunnerStates /\ t.answered = s.answered
      /\ t.confirmations = s.confirmations
      /\ t.pendingAsk = s.pendingAsk /\ t.toolUses = s.toolUses
      /\ t.queue = s.queue /\ t.active = s.active /\ t.scheduled = s.scheduled
  BY ReconcileRecoveredEffect
<1>2. Orderly(t)
  BY ReconcileRecoveredOrderly
<1> HIDE DEF t
<1>3. Frame(s, t)
  BY <1>1, <1>2 DEF Frame
<1> QED
  BY <1>1, <1>3 DEF t

\* Where the calls stay the same so does all the frame speaks of.
LEMMA IdleFrame ==
  ASSUME NEW s \in RunnerStates, Orderly(s), NEW t \in RunnerStates, SameCalls(s, t)
  PROVE  /\ Frame(s, t) /\ t.answered = s.answered
         /\ t.confirmations = s.confirmations /\ t.pendingAsk = s.pendingAsk
BY SameCallsOrderly DEF Frame, SameCalls

\* What consumeStream does with every new event, before it looks at the kind.
LEMMA NotedEffect ==
  ASSUME NEW s \in RunnerStates, Orderly(s), NEW e \in Events
  PROVE  LET t == NoteIdleEvent(ReconcileRecoveredResults(ObserveSessionState(s, e)), e)
         IN /\ Frame(s, t) /\ t.answered = s.answered
            /\ t.confirmations = s.confirmations /\ t.pendingAsk = s.pendingAsk
            /\ t.toolUses = IF e.type = "use" /\ e.call \notin s.answered
                            THEN s.toolUses \cup {e.call} ELSE s.toolUses
<1> DEFINE o == ObserveSessionState(s, e)
           r == ReconcileRecoveredResults(o)
           t == NoteIdleEvent(r, e)
<1>1. /\ Frame(s, o) /\ SameCalls(s, o)
      /\ o.toolUses = IF e.type = "use" /\ e.call \notin s.answered
                      THEN s.toolUses \cup {e.call} ELSE s.toolUses
  BY ObservedEffect
<1> HIDE DEF o
<1>2. /\ Frame(o, r) /\ r.answered = o.answered
      /\ r.confirmations = o.confirmations
      /\ r.pendingAsk = o.pendingAsk /\ r.toolUses = o.toolUses
  BY <1>1, ReconciledEffect DEF Frame
<1> HIDE DEF r
<1>3. t \in RunnerStates /\ SameCalls(r, t) /\ t.toolUses = r.toolUses
  BY <1>2, NoteIdleEventEffect DEF Frame
<1> HIDE DEF t
<1>4. /\ Frame(r, t) /\ t.answered = r.answered
      /\ t.confirmations = r.confirmations /\ t.pendingAsk = r.pendingAsk
  BY <1>2, <1>3, IdleFrame DEF Frame
<1>5. /\ Frame(s, t) /\ t.answered = s.answered
      /\ t.confirmations = s.confirmations /\ t.pendingAsk = s.pendingAsk
      /\ t.toolUses = o.toolUses
  BY <1>1, <1>2, <1>3, <1>4 DEF Frame, SameCalls
<1> QED
  BY <1>1, <1>5 DEF t, r, o

\* Learn takes a result's call off what is open, and keeps a verdict.
LEMMA LearnEffect ==
  ASSUME NEW s \in RunnerStates, Orderly(s), NEW e \in Events
  PROVE  LET t == Learn(s, e)
             told == IF e.type = "result" THEN {e.call} ELSE {}
         IN /\ Frame(s, t)
            /\ t.answered = s.answered \cup told /\ t.toolUses = s.toolUses \ told
            /\ t.pendingAsk = s.pendingAsk \ told
            /\ \A c \in Calls : t.confirmations[c] \in
                 {s.confirmations[c]} \cup (IF e.type = "confirm" /\ e.call = c THEN {e.verdict} ELSE {})
<1>1. CASE e.type = "confirm"
  <2>1. e.call \in Calls /\ e.verdict \in Verdicts
    BY <1>1, EventFields DEF Verdicts
  <2> DEFINE t == RecordConfirmation(s, e.call, e.verdict)
  <2>2. /\ t \in RunnerStates
        /\ t.answered = s.answered /\ t.pendingResults = s.pendingResults
        /\ t.recovered = s.recovered /\ t.pendingAsk = s.pendingAsk
        /\ t.toolUses = s.toolUses
        /\ t.scheduled = s.scheduled /\ t.queue = s.queue /\ t.active = s.active
        /\ \A d \in Calls : t.confirmations[d] \in {s.confirmations[d]} \cup (IF e.call = d THEN {e.verdict} ELSE {})
    BY <2>1, RecordConfirmationEffect
  <2>3. Learn(s, e) = t
    BY <1>1 DEF Learn
  <2> HIDE DEF t
  <2>4. Orderly(t)
    BY <2>2 DEF Orderly
  <2> QED
    BY <1>1, <2>2, <2>3, <2>4 DEF Frame
<1>2. CASE e.type = "result"
  <2>1. e.call \in Calls /\ {e.call} \in SUBSET Calls
    BY <1>2, EventFields
  <2> DEFINE t == MarkAllAnswered(s, {e.call})
  <2>2. /\ t \in RunnerStates
        /\ t.answered = s.answered \cup {e.call} /\ t.recovered = s.recovered \ {e.call}
        /\ t.pendingAsk = s.pendingAsk \ {e.call} /\ t.toolUses = s.toolUses \ {e.call}
        /\ t.confirmations = s.confirmations
        /\ t.scheduled = s.scheduled /\ t.queue = s.queue /\ t.active = s.active
    BY <2>1, MarkAllAnsweredEffect
  <2>3. Learn(s, e) = t
    BY <1>2 DEF Learn, MarkAnswered
  <2>4. Orderly(t)
    BY <2>1, MarkAllAnsweredOrderly
  <2> HIDE DEF t
  <2> QED
    BY <1>2, <2>2, <2>3, <2>4 DEF Frame
<1>3. CASE e.type \notin {"confirm", "result"}
  BY <1>3 DEF Learn, Frame
<1> QED
  BY <1>1, <1>2, <1>3

\* Moving through the list, collecting a use and taking the next use keep the type of lp.
LEMMA ListingSteps ==
  ASSUME NEW l \in Listings, NEW c \in Calls
  PROVE  /\ [l EXCEPT !.next = @ + 1] \in Listings
         /\ Collect(l, c) \in Listings
         /\ l.uses # <<>> => Head(l.uses) \in Calls /\ [l EXCEPT !.uses = Tail(@)] \in Listings
<1>1. [l EXCEPT !.next = @ + 1] \in Listings
  BY DEF Listings
<1>2. Append(l.uses, c) \in Seq(Calls) /\ l.uses \in Seq(Calls) /\ l.replayed \cup {c} \in SUBSET Calls
  BY DEF Listings
<1>3. Collect(l, c) \in Listings
  <2> DEFINE u == IF c \in Range(l.uses) THEN l.uses ELSE Append(l.uses, c)
             r == l.replayed \cup {c}
  <2>1. u \in Seq(Calls) /\ r \in SUBSET Calls
    BY <1>2
  <2>2. Collect(l, c) = [l EXCEPT !.replayed = r, !.uses = u]
    BY DEF Collect
  <2> HIDE DEF u, r
  <2> QED
    BY <2>1, <2>2 DEF Listings
<1>4. l.uses # <<>> => Head(l.uses) \in Calls /\ [l EXCEPT !.uses = Tail(@)] \in Listings
  <2> HAVE l.uses # <<>>
  <2>1. Head(l.uses) \in Calls /\ Tail(l.uses) \in Seq(Calls)
    BY <1>2, HeadTailProperties
  <2> QED
    BY <2>1 DEF Listings
<1> QED
  BY <1>1, <1>3, <1>4

\* Touch moves on by one event and leaves the uses alone.
LEMMA TouchType ==
  ASSUME lp \in Listings, NEW e, NEW new
  PROVE  Touch(e, new) \in Listings /\ Touch(e, new).next = lp.next + 1
         /\ Touch(e, new).end = lp.end /\ Touch(e, new).uses = lp.uses
         /\ Touch(e, new).replayed = lp.replayed
<1> DEFINE Far(b) == [lp EXCEPT !.next = @ + 1, !.touched = TRUE, !.lastEndTurn = b]
           near == [lp EXCEPT !.next = @ + 1]
           Good(l) == /\ l \in Listings /\ l.next = lp.next + 1
                      /\ l.end = lp.end /\ l.uses = lp.uses /\ l.replayed = lp.replayed
<1>1. \A b \in BOOLEAN : Good(Far(b))
  <2> TAKE b \in BOOLEAN
  <2>1. lp.next + 1 \in Nat
    BY DEF Listings
  <2>2. \A n \in Nat : [lp EXCEPT !.next = n, !.touched = TRUE, !.lastEndTurn = b] \in Listings
    BY DEF Listings
  <2>3. Far(b) = [lp EXCEPT !.next = lp.next + 1, !.touched = TRUE, !.lastEndTurn = b]
    OBVIOUS
  <2>4. Far(b) \in Listings
    BY <2>1, <2>2, <2>3
  <2>5. /\ Far(b).next = lp.next + 1 /\ Far(b).end = lp.end /\ Far(b).uses = lp.uses
        /\ Far(b).replayed = lp.replayed
    BY DEF Listings
  <2> QED
    BY <2>4, <2>5
<1>2. Good(near)
  BY DEF Listings
<1>3. Touch(e, new) \in {Far(TRUE), Far(FALSE), near}
  <2>1. CASE e.type = "end_turn"
    <3>1. (e.type = "end_turn") = TRUE
      BY <2>1
    <3> QED
      BY <3>1 DEF Touch
  <2>2. CASE e.type # "end_turn"
    <3>1. (e.type = "end_turn") = FALSE
      BY <2>2
    <3> QED
      BY <3>1 DEF Touch
  <2> QED
    BY <2>1, <2>2
<1> HIDE DEF Far, near, Good
<1>4. Good(Touch(e, new))
  <2>1. TRUE \in BOOLEAN /\ FALSE \in BOOLEAN
    OBVIOUS
  <2> QED
    BY <1>1, <1>2, <1>3, <2>1
<1> QED
  BY <1>4 DEF Good

\* A new list starts at the first event, with no use collected.
LEMMA ListType ==
  ASSUME NEW n \in Nat, NEW b \in BOOLEAN, List(n, b)
  PROVE  /\ lp' \in Listings /\ lp'.next = 1 /\ lp'.end = n /\ lp'.uses = <<>> /\ lp'.replayed = {}
<1> DEFINE none == NoList
<1>1. none \in Listings /\ none.next = 1 /\ none.uses = <<>> /\ none.replayed = {}
  BY DEF NoList, Listings
<1>2. lp' = [none EXCEPT !.on = TRUE, !.end = n, !.complete = b]
  BY DEF List
<1> HIDE DEF none
<1> QED
  BY <1>1, <1>2 DEF Listings

\* The places where no flush and no send is under way.
Waits == {"open", "list", "event", "pending", "handle", "top", "select", "sleep"}

\* A step from one such place to another keeps CallsInv if the new state is orderly and
\* executeTool runs its active call.
LEMMA MoveCallsInv ==
  ASSUME CallsInv, UNCHANGED <<plane, send, outcome>>, pc \notin Sends, pc' \in Waits,
         rs' \in RunnerStates, Orderly(rs'),
         exec' \in ExecStates, exec'.call = rs'.active, exec'.result # NoResult => exec'.call # NoCall,
         seen' \subseteq Nat, stream' \in Nat, lp' \in Listings, todo' \subseteq Calls,
         wake' \in PCs, pc' = "sleep" => wake' \in {"open", "list"}, cancelled' \in BOOLEAN,
         ledger' \in [Calls -> Entries], running' \subseteq Calls,
         executed' \subseteq Calls, ever' \subseteq Calls, faults' \in Nat
  PROVE  CallsInv'
<1>1. pc' \in PCs /\ pc' \notin Sends
  BY DEF PCs, Waits, Sends
<1>2. TypeOK'
  BY <1>1 DEF CallsInv, TypeOK, plane
<1> QED
  BY <1>1, <1>2 DEF CallsInv, ExecInv, SendInv, PlaceInv, Place, Waits

\* What the loop has read is a prefix of the log; where it handles calls or waits, all that
\* the stream has brought is read.
ReadInv ==
  /\ \A i \in seen : i \in DOMAIN log /\ 1..i \subseteq seen
  /\ stream <= Len(log) + 1
  /\ lp.next >= 1 /\ lp.end <= Len(log)
  /\ pc = "event" => 1..(lp.next - 1) \subseteq seen
  /\ mode = "stream" =>
       /\ stream = 0 => Place \in {"down", "open"} \/ (Place = "sleep" /\ wake = "open")
       /\ pc = "event" => stream <= lp.end + 1
       /\ Place \in {"pending", "handle", "top", "flush", "select"} => 1..(stream - 1) \subseteq seen

\* At a listed event there is an event.
LEMMA CurrentIsEvent ==
  ASSUME CallsInv, ReadInv, AtEvent
  PROVE  Current \in Events /\ lp.next \in DOMAIN log /\ pc = "event"
<1>1. lp.next \in Nat /\ lp.end \in Nat /\ log \in Seq(Events)
  BY DEF CallsInv, TypeOK, Listings
<1> QED
  BY <1>1 DEF ReadInv, AtEvent, Current

\* Where the stream brings an event there is one.
LEMMA ArrivedIsEvent ==
  ASSUME CallsInv, ReadInv, AtStream
  PROVE  Arrived \in Events /\ stream \in DOMAIN log /\ pc = "select" /\ mode = "stream"
<1>1. stream \in Nat /\ log \in Seq(Events) /\ stream # 0
  BY DEF CallsInv, TypeOK, ReadInv, AtStream, Place, Sends
<1> QED
  BY <1>1 DEF AtStream, Arrived

\* Discard makes records absent, only of its calls, and only with the history of their
\* execution.
LEMMA DiscardEffect ==
  ASSUME TypeOK, NEW S, Discard(S)
  PROVE  /\ ledger' \in [Calls -> Entries] /\ executed' \subseteq Calls /\ ever' \subseteq Calls /\ faults' \in Nat
         /\ executed' \subseteq executed
         /\ \A c \in Calls : ledger'[c] # ledger[c] => ledger'[c] = "absent" /\ c \in S /\ c \notin executed'
<1>1. PICK gone \in SUBSET S :
        /\ UNCHANGED faults \/ Fault("store")
        /\ ledger' = [c \in Calls |-> IF c \in gone THEN "absent" ELSE ledger[c]]
        /\ executed' = executed \ gone /\ UNCHANGED ever
  BY DEF Discard
<1>2. "absent" \in Entries
  BY DEF Entries
<1>3. ledger' \in [Calls -> Entries]
  BY <1>1, <1>2 DEF TypeOK
<1>4. faults' \in Nat
  BY <1>1 DEF TypeOK, Fault
<1> QED
  BY <1>1, <1>3, <1>4 DEF TypeOK

\* Persist rewrites a record that exists, or changes nothing.
LEMMA PersistEffect ==
  ASSUME TypeOK, NEW c \in Calls, NEW entry \in Entries, Persist(c, entry)
  PROVE  /\ ledger' \in [Calls -> Entries] /\ faults' \in Nat
         /\ \/ UNCHANGED ledger
            \/ ledger[c] # "absent" /\ ledger' = [ledger EXCEPT ![c] = entry]
BY DEF Persist, TypeOK, Fault

\* Become starts the tool of a new active call and remembers that it ran.
LEMMA BecomeEffect ==
  ASSUME CallsInv, NEW s \in RunnerStates, Become(s), rs.active # NoCall => s.active = rs.active
  PROVE  /\ rs' = s
         /\ exec' \in ExecStates /\ exec'.call = s.active
         /\ exec'.result # NoResult => exec'.call # NoCall
         /\ running' \subseteq Calls /\ ever' \subseteq Calls /\ executed' \subseteq Calls
         /\ \/ UNCHANGED <<exec, executed, ever>> /\ s.active = rs.active
            \/ rs.active = NoCall /\ s.active \in Calls /\ executed' = executed \cup {s.active}
<1>1. CASE s.active \in {NoCall, rs.active}
  BY <1>1 DEF CallsInv, TypeOK, ExecInv, Become, history
<1>2. CASE s.active \notin {NoCall, rs.active}
  <2>1. s.active \in Calls /\ rs.active = NoCall
    BY <1>2 DEF RunnerStates
  <2>2. [NoExec EXCEPT !.call = s.active] \in ExecStates
        /\ [NoExec EXCEPT !.call = s.active].call = s.active
        /\ [NoExec EXCEPT !.call = s.active].result = NoResult
    BY <2>1 DEF NoExec, ExecStates
  <2> QED
    <3>1. exec' = [NoExec EXCEPT !.call = s.active] /\ running' = running \cup {s.active}
          /\ executed' = executed \cup {s.active} /\ ever' = ever \cup {s.active} /\ rs' = s
      BY <1>2 DEF Become
    <3>2. running \subseteq Calls /\ executed \subseteq Calls /\ ever \subseteq Calls
      BY DEF CallsInv, TypeOK
    <3> QED
      BY <2>1, <2>2, <3>1, <3>2
<1> QED
  BY <1>1, <1>2

\* The call that is handled next leaves the list or the set it was taken from.
LEMMA HandlesEffect ==
  ASSUME TypeOK, NEW c \in Calls, Handles(c)
  PROVE  /\ pc \in {"pending", "handle"} /\ pc \notin Sends /\ pc \in Waits
         /\ lp' \in Listings /\ todo' \subseteq todo /\ todo' \subseteq Calls
         /\ lp'.next = lp.next /\ lp'.end = lp.end /\ lp'.replayed = lp.replayed
         /\ Range(lp'.uses) \subseteq Range(lp.uses)
         /\ \/ pc = "pending" /\ c \in Range(lp.uses) /\ c \notin rs.answered
            \/ pc = "handle" /\ c \in todo
<1>1. lp \in Listings /\ todo \subseteq Calls
  BY DEF TypeOK
<1>2. CASE pc = "pending" /\ lp.uses # <<>> /\ c = Head(lp.uses) /\ c \notin rs.answered
           /\ lp' = [lp EXCEPT !.uses = Tail(@)] /\ UNCHANGED todo
  <2>1. lp.uses \in Seq(Calls)
    BY <1>1 DEF Listings
  <2>2. lp' \in Listings
    BY <1>1, <1>2, ListingSteps
  <2>3. lp'.uses = Tail(lp.uses) /\ lp'.next = lp.next /\ lp'.end = lp.end /\ lp'.replayed = lp.replayed
    BY <1>1, <1>2 DEF Listings
  <2>4. c \in Range(lp.uses) /\ Range(Tail(lp.uses)) \subseteq Range(lp.uses)
    BY <1>2, <2>1 DEF Range
  <2> QED
    BY <1>1, <1>2, <2>2, <2>3, <2>4 DEF Sends, Waits
<1>3. CASE pc = "handle" /\ c \in todo /\ todo' = todo \ {c} /\ UNCHANGED lp
  BY <1>1, <1>3 DEF Sends, Waits
<1> QED
  BY <1>2, <1>3 DEF Handles

\* reconcileOnce, consumeList and processListedEvents keep CallsInv.
LEMMA ListingCallsInv ==
  ASSUME CallsInv, ReadInv, Listing PROVE CallsInv'
<1>t. TypeOK /\ Orderly(rs) /\ ExecInv /\ rs \in RunnerStates /\ lp \in Listings /\ lp.next \in Nat
  BY DEF CallsInv, TypeOK, Listings
<1>n. Len(log) \in Nat /\ {"open", "list"} \subseteq PCs
  BY <1>t DEF TypeOK, PCs
<1>1. CASE StreamRefused \/ ListedTermination
  BY <1>1, <1>t, GoneCallsInv DEF StreamRefused, ListedTermination, Exit, Fault, plane, history, TypeOK
<1>2. CASE StreamOpens \/ StreamFails \/ ReconcileFails \/ PendingDone
  <2>1. Ready(rs) \subseteq Calls
    BY <1>t DEF Ready, RunnerStates
  <2>2. pc \notin Sends /\ pc' \in Waits /\ (pc' = "sleep" => wake' \in {"open", "list"}) /\ wake' \in PCs
    BY <1>2, <1>t, <1>n DEF StreamOpens, StreamFails, ReconcileFails, PendingDone, Sleep, Sends, Waits, TypeOK
  <2>3. stream' \in Nat /\ todo' \subseteq Calls /\ faults' \in Nat
    BY <1>2, <1>t, <1>n, <2>1 DEF StreamOpens, StreamFails, ReconcileFails, PendingDone, Fault, TypeOK
  <2>4. UNCHANGED <<plane, ledger, rs, seen, lp, send, cancelled, outcome, tools, history>>
    BY <1>2 DEF StreamOpens, StreamFails, ReconcileFails, PendingDone
  <2> QED
    BY <1>t, <2>2, <2>3, <2>4, MoveCallsInv DEF history, tools, TypeOK, ExecInv
<1>3. CASE EventsListed
  <2>1. lp' \in Listings
    BY <1>3, <1>n, ListType DEF EventsListed
  <2> QED
    BY <1>3, <1>t, <2>1, MoveCallsInv DEF EventsListed, plane, history, tools, TypeOK, Sends, Waits, ExecInv
<1>4. CASE PollFails
  <2>1. PICK n \in 0..Len(log) : IF n = 0 THEN pc' = "select" /\ UNCHANGED lp
                                          ELSE pc' = "event" /\ List(n, FALSE)
    BY <1>4 DEF PollFails
  <2>2. lp' \in Listings /\ pc' \in {"select", "event"}
    <3>1. n \in Nat /\ FALSE \in BOOLEAN
      BY <1>n
    <3> QED
      BY <1>t, <2>1, <3>1, ListType
  <2> QED
    BY <1>4, <1>t, <2>2, MoveCallsInv DEF PollFails, Fault, plane, history, tools, TypeOK, Sends, Waits, ExecInv
<1>5. CASE SeenBefore \/ PassOver
  <2>1. lp' \in Listings
    <3>1. lp.uses # <<>> => Head(lp.uses) \in Calls /\ [lp EXCEPT !.uses = Tail(@)] \in Listings
      BY <1>t, HeadTailProperties DEF Listings
    <3>2. [lp EXCEPT !.next = @ + 1] \in Listings
      BY <1>t DEF Listings
    <3> QED
      BY <1>5, <3>1, <3>2 DEF SeenBefore, PassOver
  <2> QED
    BY <1>5, <1>t, <2>1, MoveCallsInv
       DEF SeenBefore, PassOver, AtEvent, plane, history, tools, TypeOK, Sends, Waits, ExecInv
<1>6. CASE ListedInterrupt
  <2>1. Current \in Events /\ lp.next \in DOMAIN log /\ pc = "event"
    BY <1>6, CurrentIsEvent DEF ListedInterrupt, AtNewEvent
  <2>2. Frame(rs, Observed)
    BY <1>t, <2>1, ObservedEffect DEF Observed
  <2>3. Eligible \in SUBSET Calls
    BY <1>t DEF Eligible, Listings
  <2>4. rs' \in RunnerStates /\ Orderly(rs') /\ rs'.active = rs.active
    BY <1>6, <2>2, <2>3, HandleInterruptEffect DEF ListedInterrupt, Frame
  <2>5. ledger' \in [Calls -> Entries] /\ executed' \subseteq Calls /\ ever' \subseteq Calls /\ faults' \in Nat
    BY <1>6, <1>t, DiscardEffect DEF ListedInterrupt
  <2>6. exec' \in ExecStates /\ exec'.call = exec.call /\ exec'.result = exec.result
    BY <1>6, <1>t DEF ListedInterrupt, CancelMatching, TypeOK, ExecStates
  <2>7. lp' \in Listings /\ seen' \subseteq Nat
    BY <1>6, <1>t, <2>1, TouchType DEF ListedInterrupt, TypeOK
  <2> QED
    BY <1>6, <1>t, <2>1, <2>4, <2>5, <2>6, <2>7, MoveCallsInv
       DEF ListedInterrupt, plane, TypeOK, Sends, Waits, ExecInv
<1>7. CASE ListedEvent
  <2>1. Current \in Events /\ lp.next \in DOMAIN log /\ pc = "event"
    BY <1>7, CurrentIsEvent DEF ListedEvent, AtNewEvent
  <2>2. Frame(rs, Observed)
    BY <1>t, <2>1, ObservedEffect DEF Observed
  <2>3. rs' \in RunnerStates /\ Orderly(rs') /\ rs'.active = rs.active
    BY <1>7, <2>1, <2>2, LearnEffect DEF ListedEvent, Frame
  <2>4. seen' \subseteq Nat
    BY <1>7, <1>t, <2>1 DEF ListedEvent, TypeOK
  <2>5. lp' \in Listings
    <3>1. Touch(Current, lp.next \notin seen) \in Listings
      BY <1>t, TouchType
    <3>2. Current.type = "use" => Collect(Touch(Current, lp.next \notin seen), Current.call) \in Listings
      BY <2>1, <3>1, EventFields, ListingSteps
    <3> QED
      BY <1>7, <3>1, <3>2 DEF ListedEvent
  <2> QED
    BY <1>7, <1>t, <2>1, <2>3, <2>4, <2>5, MoveCallsInv
       DEF ListedEvent, plane, history, tools, TypeOK, Sends, Waits, ExecInv
<1>8. CASE ListEnds
  <2> DEFINE s == ReconcileUnmatchedRequiresAction(rs)
             t == ReconcileRecoveredResults(s)
  <2>1. s \in RunnerStates /\ SameCalls(rs, s)
    BY <1>t, ReconcileUnmatchedEffect
  <2>2. Frame(rs, s)
    BY <1>t, <2>1, IdleFrame
  <2> HIDE DEF s
  <2>3. Frame(s, t)
    BY <2>1, <2>2, ReconciledEffect DEF Frame
  <2> HIDE DEF t
  <2>4. DisarmIdle(t) \in RunnerStates /\ SameCalls(t, DisarmIdle(t))
    BY <2>3, IdleEffect DEF Frame
  <2>5. Frame(t, DisarmIdle(t))
    BY <2>3, <2>4, IdleFrame DEF Frame
  <2>6. rs' = IF lp.touched THEN DisarmIdle(t) ELSE t
    BY <1>8 DEF ListEnds, s, t
  <2>7. rs' \in RunnerStates /\ Orderly(rs') /\ rs'.active = rs.active
    BY <2>2, <2>3, <2>5, <2>6 DEF Frame
  <2>8. ledger' \in [Calls -> Entries] /\ executed' \subseteq Calls /\ ever' \subseteq Calls /\ faults' \in Nat
    BY <1>8, <1>t, DiscardEffect DEF ListEnds
  <2> QED
    BY <1>8, <1>t, <2>7, <2>8, MoveCallsInv
       DEF ListEnds, plane, tools, TypeOK, Sends, Waits, ExecInv
<1>9. CASE HandleDone
  <2>1. ArmIdle(rs) \in RunnerStates /\ SameCalls(rs, ArmIdle(rs))
    BY <1>t, IdleEffect
  <2>2. rs' \in RunnerStates /\ Orderly(rs') /\ rs'.active = rs.active
    BY <1>9, <1>t, <2>1, IdleFrame DEF HandleDone, Frame
  <2>3. pc' \in {"top", "select"}
    BY <1>9 DEF HandleDone, AfterList
  <2> QED
    BY <1>9, <1>t, <2>2, <2>3, Defaults, MoveCallsInv
       DEF HandleDone, plane, history, tools, TypeOK, Sends, Waits, ExecInv
<1> QED
  BY <1>1, <1>2, <1>3, <1>4, <1>5, <1>6, <1>7, <1>8, <1>9 DEF Listing

\* MoveCallsInv for a step that may begin or end a flush or end a send.
LEMMA LoopCallsInv ==
  ASSUME CallsInv, UNCHANGED <<plane, outcome>>, send' = NoSend, pc' \in Waits \cup {"flush"},
         pc' = "flush" => \A c \in todo' : rs'.pendingResults[c] # NoResult,
         rs' \in RunnerStates, Orderly(rs'),
         exec' \in ExecStates, exec'.call = rs'.active, exec'.result # NoResult => exec'.call # NoCall,
         seen' \subseteq Nat, stream' \in Nat, lp' \in Listings, todo' \subseteq Calls,
         wake' \in PCs, pc' = "sleep" => wake' \in {"open", "list"}, cancelled' \in BOOLEAN,
         ledger' \in [Calls -> Entries], running' \subseteq Calls,
         executed' \subseteq Calls, ever' \subseteq Calls, faults' \in Nat
  PROVE  CallsInv'
<1>1. pc' \in PCs /\ pc' \notin Sends
  BY DEF PCs, Waits, Sends
<1>2. TypeOK'
  BY <1>1, Defaults DEF CallsInv, TypeOK, plane
<1> QED
  BY <1>1, <1>2 DEF CallsInv, ExecInv, SendInv, PlaceInv, Place, Waits

\* Where the sending of a result can go back to.
Backs == {"pending", "handle", "flush", "top", "list", "sleep"}

\* StartSend sets up the sending of one result.
LEMMA StartSendEffect ==
  ASSUME NEW c \in Calls, NEW r \in Results, NEW from \in {"use", "finish", "flush"}, NEW back \in Backs,
         StartSend(c, r, from, back)
  PROVE  /\ send' \in PostStates /\ send'.call = c /\ send'.result = r /\ send'.from = from
         /\ send'.back = back /\ send'.outcome = "none" /\ pc' = "send"
<1> DEFINE none == NoSend
<1>1. none \in PostStates /\ none.outcome = "none"
  BY Defaults DEF NoSend
<1>2. send' = [none EXCEPT !.call = c, !.result = r, !.from = from, !.back = back] /\ pc' = "send"
  BY DEF StartSend
<1>3. back \in PCs
  BY DEF Backs, PCs
<1> HIDE DEF none
<1> QED
  BY <1>1, <1>2, <1>3 DEF PostStates

\* A step that begins to send keeps CallsInv if the call is neither scheduled nor answered.
LEMMA SendCallsInv ==
  ASSUME CallsInv, UNCHANGED <<plane, seen, stream, wake, cancelled, outcome>>,
         pc \notin Sends \cup {"down"},
         NEW c \in Calls, NEW r \in Results, NEW from \in {"use", "finish", "flush"}, NEW back \in Backs,
         StartSend(c, r, from, back),
         back = "sleep" => pc = "sleep",
         from = "flush" <=> back = "flush",
         back = "flush" => c \notin todo' /\ \A d \in todo' : rs'.pendingResults[d] # NoResult,
         rs' \in RunnerStates, Orderly(rs'), c \notin rs'.scheduled \cup rs'.answered,
         exec' \in ExecStates, exec'.call = rs'.active, exec'.result # NoResult => exec'.call # NoCall,
         lp' \in Listings, todo' \subseteq Calls,
         ledger' \in [Calls -> Entries], running' \subseteq Calls,
         executed' \subseteq Calls, ever' \subseteq Calls, faults' \in Nat
  PROVE  CallsInv'
<1>1. /\ send' \in PostStates /\ send'.call = c /\ send'.result = r /\ send'.from = from
      /\ send'.back = back /\ send'.outcome = "none" /\ pc' = "send"
  BY StartSendEffect
<1>2. pc' \in PCs /\ pc' \in Sends
  BY <1>1 DEF PCs, Sends
<1>3. TypeOK'
  BY <1>1, <1>2 DEF CallsInv, TypeOK, plane
<1>4. back = "sleep" => wake' \in {"open", "list"}
  BY DEF CallsInv, PlaceInv, Place, Sends
<1> QED
  BY <1>1, <1>2, <1>3, <1>4 DEF CallsInv, ExecInv, SendInv, PlaceInv, Place, Backs

-----------------------------------------------------------------------------
(* handleToolUse, the sends and the waits                                  *)

\* Leaving a call to another runner moves no call of this one.
LEMMA SkipExternalEffect ==
  ASSUME NEW s \in RunnerStates, Orderly(s), NEW c \in Calls
  PROVE  LET t == MaybeArmPendingIdle([s EXCEPT !.external = @ \cup {c}])
         IN t \in RunnerStates /\ SameCalls(s, t) /\ t.toolUses = s.toolUses /\ Orderly(t)
<1> DEFINE u == [s EXCEPT !.external = @ \cup {c}]
           t == MaybeArmPendingIdle(u)
<1>1. u \in RunnerStates /\ SameCalls(s, u) /\ u.toolUses = s.toolUses
  BY DEF RunnerStates, SameCalls
<1> HIDE DEF u
<1>2. t \in RunnerStates /\ SameCalls(u, t) /\ t.toolUses = u.toolUses
  BY <1>1, IdleEffect
<1> HIDE DEF t
<1>3. SameCalls(s, t)
  BY <1>1, <1>2 DEF SameCalls
<1> QED
  BY <1>1, <1>2, <1>3, SameCallsOrderly DEF t, u

\* Waiting for a confirmation only adds to pendingAsk.
LEMMA AwaitEffect ==
  ASSUME NEW s \in RunnerStates, Orderly(s), NEW c \in Calls
  PROVE  LET t == [s EXCEPT !.pendingAsk = @ \cup {c}]
         IN /\ t \in RunnerStates /\ Orderly(t) /\ t.answered = s.answered
            /\ t.confirmations = s.confirmations /\ t.toolUses = s.toolUses
            /\ t.scheduled = s.scheduled /\ t.queue = s.queue /\ t.active = s.active
            /\ t.pendingAsk = s.pendingAsk \cup {c}
<1> DEFINE t == [s EXCEPT !.pendingAsk = @ \cup {c}]
<1>1. /\ t \in RunnerStates /\ t.answered = s.answered
      /\ t.confirmations = s.confirmations /\ t.toolUses = s.toolUses
      /\ t.scheduled = s.scheduled /\ t.queue = s.queue /\ t.active = s.active
      /\ t.pendingAsk = s.pendingAsk \cup {c}
      /\ t.recovered = s.recovered /\ t.pendingResults = s.pendingResults
  BY DEF RunnerStates
<1> HIDE DEF t
<1>2. Orderly(t)
  BY <1>1 DEF Orderly
<1> QED
  BY <1>1, <1>2 DEF t

\* A result can be held back for a call that is neither scheduled nor answered.
LEMMA HoldResultEffect ==
  ASSUME NEW s \in RunnerStates, Orderly(s), NEW c \in Calls, NEW r \in Results,
         c \notin s.scheduled \cup s.answered
  PROVE  LET t == [s EXCEPT !.pendingResults[c] = r]
         IN /\ t \in RunnerStates /\ Orderly(t) /\ t.answered = s.answered
            /\ t.confirmations = s.confirmations /\ t.toolUses = s.toolUses
            /\ t.scheduled = s.scheduled /\ t.queue = s.queue /\ t.active = s.active
            /\ t.pendingAsk = s.pendingAsk
            /\ \A d \in Calls : t.pendingResults[d] = IF d = c THEN r ELSE s.pendingResults[d]
<1> DEFINE t == [s EXCEPT !.pendingResults[c] = r]
<1>1. /\ t \in RunnerStates /\ t.answered = s.answered
      /\ t.confirmations = s.confirmations /\ t.toolUses = s.toolUses
      /\ t.scheduled = s.scheduled /\ t.queue = s.queue /\ t.active = s.active
      /\ t.pendingAsk = s.pendingAsk /\ t.recovered = s.recovered
      /\ \A d \in Calls : t.pendingResults[d] = IF d = c THEN r ELSE s.pendingResults[d]
  BY DEF RunnerStates
<1>2. r # NoResult
  BY DEF Results, NoResult, UnknownResult
<1>3. t.recovered \subseteq Calls /\ t.scheduled \subseteq Calls /\ t.answered \subseteq Calls
  BY <1>1 DEF RunnerStates
<1> HIDE DEF t
<1>4. Orderly(t)
  BY <1>1, <1>2, <1>3 DEF Orderly
<1> QED
  BY <1>1, <1>4 DEF t

\* markAnswered settles one call.
LEMMA MarkAnsweredEffect ==
  ASSUME NEW s \in RunnerStates, Orderly(s), NEW c \in Calls
  PROVE  LET t == MarkAnswered(s, c)
         IN /\ Frame(s, t)
            /\ t.answered = s.answered \cup {c} /\ t.toolUses = s.toolUses \ {c}
            /\ t.pendingAsk = s.pendingAsk \ {c} /\ t.confirmations = s.confirmations
            /\ \A d \in Calls : t.pendingResults[d] = IF d = c THEN NoResult ELSE s.pendingResults[d]
<1> DEFINE t == MarkAllAnswered(s, {c})
<1>1. {c} \in SUBSET Calls
  OBVIOUS
<1>2. /\ t \in RunnerStates
      /\ t.answered = s.answered \cup {c} /\ t.recovered = s.recovered \ {c}
      /\ t.pendingAsk = s.pendingAsk \ {c} /\ t.toolUses = s.toolUses \ {c}
      /\ \A d \in Calls : t.pendingResults[d] = IF d \in {c} THEN NoResult ELSE s.pendingResults[d]
      /\ t.confirmations = s.confirmations
      /\ t.scheduled = s.scheduled /\ t.queue = s.queue /\ t.active = s.active
  BY <1>1, MarkAllAnsweredEffect
<1>3. Orderly(t)
  BY <1>1, MarkAllAnsweredOrderly
<1>4. MarkAnswered(s, c) = t
  BY DEF MarkAnswered
<1> HIDE DEF t
<1> QED
  BY <1>2, <1>3, <1>4 DEF Frame

\* After recovery no record says started; absent and sent stay what they are.
LEMMA SettledEntry ==
  ASSUME ledger \in [Calls -> Entries]
  PROVE  /\ SettleStarted(ledger) \in [Calls -> Entries \ {"started"}]
         /\ \A c \in Calls : /\ SettleStarted(ledger)[c] = "absent" <=> ledger[c] = "absent"
                             /\ SettleStarted(ledger)[c] = "sent" <=> ledger[c] = "sent"
                             /\ SettleStarted(ledger)[c] \in {"absent", "sent"} \cup Results
BY DEF SettleStarted, Entries, Results, UnknownResult

\* handleToolUse keeps CallsInv, whatever it finds.
LEMMA HandleToolUseCallsInv ==
  ASSUME CallsInv, NEW c \in Calls, HandleToolUse(c) PROVE CallsInv'
<1>t. TypeOK /\ Orderly(rs) /\ ExecInv /\ SendInv /\ rs \in RunnerStates /\ rs.active = exec.call
  BY DEF CallsInv, TypeOK, ExecInv
<1>u. /\ exec \in ExecStates /\ (exec.result # NoResult => exec.call # NoCall) /\ ledger \in [Calls -> Entries]
      /\ running \subseteq Calls /\ executed \subseteq Calls /\ ever \subseteq Calls /\ faults \in Nat
      /\ seen \subseteq Nat /\ stream \in Nat /\ wake \in PCs /\ cancelled \in BOOLEAN
  BY <1>t DEF TypeOK, ExecInv
<1>h. /\ Handles(c) /\ pc \in {"pending", "handle"} /\ pc \notin Sends /\ pc \in Waits
      /\ lp' \in Listings /\ todo' \subseteq Calls
  <2>1. Handles(c)
    BY DEF HandleToolUse, HandleSettled, ResendResult, SkipExternal, AwaitConfirmation,
           ResolveWithoutPost, BeginFresh, BeginRecorded, BeginFails, Allowed
  <2> QED
    BY <1>t, <2>1, HandlesEffect
<1>s. send = NoSend /\ pc \in Backs /\ pc # "flush" /\ pc # "sleep" /\ pc # "down"
  BY <1>t, <1>h DEF SendInv, Backs
<1>1. CASE HandleSettled(c)
  BY <1>1, <1>t, <1>u, <1>h, <1>s, LoopCallsInv DEF HandleSettled, Remaining, plane, tools, history
<1>2. CASE ResendResult(c)
  <2>1. rs.pendingResults[c] \in Results
    BY <1>2, <1>t DEF ResendResult, RunnerStates
  <2>2. StartSend(c, rs.pendingResults[c], "use", pc) /\ c \notin rs.scheduled \cup rs.answered
    BY <1>2 DEF ResendResult
  <2> QED
    BY <1>2, <1>t, <1>u, <1>h, <1>s, <2>1, <2>2, SendCallsInv
       DEF ResendResult, Remaining, plane, tools, history
<1>3. CASE SkipExternal(c)
  <2>1. rs' \in RunnerStates /\ Orderly(rs') /\ rs'.active = rs.active
    BY <1>3, <1>t, SkipExternalEffect DEF SkipExternal, SameCalls
  <2> QED
    BY <1>3, <1>t, <1>u, <1>h, <1>s, <2>1, LoopCallsInv DEF SkipExternal, Remaining, plane, tools, history
<1>4. CASE AwaitConfirmation(c)
  <2>1. rs' \in RunnerStates /\ Orderly(rs') /\ rs'.active = rs.active
    BY <1>4, <1>t, AwaitEffect DEF AwaitConfirmation
  <2> QED
    BY <1>4, <1>t, <1>u, <1>h, <1>s, <2>1, LoopCallsInv DEF AwaitConfirmation, Remaining, plane, tools, history
<1>5. CASE ResolveWithoutPost(c)
  <2>1. rs' \in RunnerStates /\ Orderly(rs') /\ rs'.active = rs.active
    BY <1>5, <1>t, MarkAnsweredEffect DEF ResolveWithoutPost, Frame
  <2> QED
    BY <1>5, <1>t, <1>u, <1>h, <1>s, <2>1, LoopCallsInv DEF ResolveWithoutPost, Remaining, plane, tools, history
<1>6. CASE BeginFresh(c)
  <2>1. Become(Schedule(rs, c)) /\ c \notin rs.answered \cup rs.scheduled /\ rs.pendingResults[c] = NoResult
    BY <1>6 DEF BeginFresh, Allowed, Untouched
  <2>2. /\ Schedule(rs, c) \in RunnerStates /\ Orderly(Schedule(rs, c))
        /\ rs.active # NoCall => Schedule(rs, c).active = rs.active
    BY <1>t, <2>1, ScheduleEffect
  <2>3. /\ rs' = Schedule(rs, c)
        /\ exec' \in ExecStates /\ exec'.call = rs'.active
        /\ exec'.result # NoResult => exec'.call # NoCall
        /\ running' \subseteq Calls /\ ever' \subseteq Calls /\ executed' \subseteq Calls
    BY <2>1, <2>2, BecomeEffect
  <2>4. ledger' \in [Calls -> Entries]
    BY <1>6, <1>u DEF BeginFresh, Entries
  <2> QED
    BY <1>6, <1>u, <1>h, <1>s, <2>2, <2>3, <2>4, LoopCallsInv DEF BeginFresh, Remaining, plane
<1>7. CASE BeginRecorded(c)
  <2> DEFINE r == SettleStarted(ledger)[c]
  <2>1. r \in {"sent"} \cup Results /\ r \in Entries
    BY <1>7, <1>u, SettledEntry DEF BeginRecorded
  <2>2. c \notin rs.answered \cup rs.scheduled /\ rs.pendingResults[c] = NoResult
    BY <1>7 DEF BeginRecorded, Allowed, Untouched
  <2>3. ledger' = [ledger EXCEPT ![c] = r] /\ UNCHANGED <<Remaining, tools, history, faults>>
        /\ IF r = "sent" THEN rs' = MarkAnswered(rs, c) /\ UNCHANGED <<pc, send>>
           ELSE rs' = [rs EXCEPT !.pendingResults[c] = r] /\ StartSend(c, r, "use", pc)
    BY <1>7 DEF BeginRecorded
  <2> HIDE DEF r
  <2>4. ledger' \in [Calls -> Entries]
    BY <1>u, <2>1, <2>3
  <2>5. CASE r = "sent"
    <3>1. rs' \in RunnerStates /\ Orderly(rs') /\ rs'.active = rs.active
      BY <1>t, <2>3, <2>5, MarkAnsweredEffect DEF Frame
    <3> QED
      BY <1>t, <1>u, <1>h, <1>s, <2>3, <2>4, <2>5, <3>1, LoopCallsInv DEF Remaining, plane, tools, history
  <2>6. CASE r # "sent"
    <3>1. r \in Results
      BY <2>1, <2>6
    <3>2. /\ rs' \in RunnerStates /\ Orderly(rs') /\ rs'.active = rs.active
          /\ c \notin rs'.scheduled \cup rs'.answered
      <4> DEFINE t == [rs EXCEPT !.pendingResults[c] = r]
      <4>1. rs' = t
        BY <2>3, <2>6
      <4>2. /\ t \in RunnerStates /\ Orderly(t) /\ t.active = rs.active
            /\ t.scheduled = rs.scheduled /\ t.answered = rs.answered
        BY <1>t, <2>2, <3>1, HoldResultEffect
      <4> HIDE DEF t
      <4> QED
        BY <2>2, <4>1, <4>2
    <3> QED
      BY <1>t, <1>u, <1>h, <1>s, <2>3, <2>4, <2>6, <3>1, <3>2, SendCallsInv DEF Remaining, plane, tools, history
  <2> QED
    BY <2>5, <2>6
<1>8. CASE BeginFails(c)
  <2>1. ledger' \in [Calls -> Entries] /\ faults' \in Nat
    BY <1>8, <1>u DEF BeginFails, Fault, Entries
  <2> QED
    BY <1>8, <1>u, <2>1, GoneCallsInv DEF BeginFails, history
<1> QED
  BY <1>1, <1>2, <1>3, <1>4, <1>5, <1>6, <1>7, <1>8 DEF HandleToolUse

\* StartNext and ClearActive in one: what FinishAnswered does with the state.
LEMMA FinishEffect ==
  ASSUME NEW s \in RunnerStates, Orderly(s)
  PROVE  LET t == StartNext(ClearActive(s))
         IN /\ t \in RunnerStates /\ Orderly(t)
            /\ t.answered = s.answered /\ t.pendingResults = s.pendingResults
            /\ t.pendingAsk = s.pendingAsk
            /\ t.confirmations = s.confirmations /\ t.toolUses = s.toolUses
            /\ Range(t.queue) \subseteq Range(s.queue)
            /\ t.active \in {NoCall} \cup (Range(s.queue) \ s.answered)
<1> DEFINE u == ClearActive(s)
           t == StartNext(u)
<1>1. /\ u \in RunnerStates /\ u.active = NoCall /\ Orderly(u)
      /\ u.answered = s.answered /\ u.pendingResults = s.pendingResults
      /\ u.pendingAsk = s.pendingAsk
      /\ u.confirmations = s.confirmations /\ u.toolUses = s.toolUses
      /\ u.queue = s.queue
  BY ClearActiveEffect
<1> HIDE DEF u
<1>2. /\ t \in RunnerStates /\ Orderly(t)
      /\ t.answered = u.answered /\ t.pendingResults = u.pendingResults
      /\ t.pendingAsk = u.pendingAsk
      /\ t.confirmations = u.confirmations /\ t.toolUses = u.toolUses
      /\ Range(t.queue) \subseteq Range(u.queue)
      /\ t.active \in {NoCall} \cup (Range(u.queue) \ u.answered)
  BY <1>1, StartNextEffect
<1> HIDE DEF t
<1> QED
  BY <1>1, <1>2 DEF t, u

\* AfterSend answers the call, keeps its result, or leaves things as they are; only the
\* answered case changes what is known of it.
LEMMA AfterSendEffect ==
  ASSUME CallsInv, pc = "sent"
  PROVE  LET t == AfterSend(rs)
             told == IF send.outcome = "posted" THEN {send.call} ELSE {}
         IN /\ Frame(rs, t)
            /\ t.answered = rs.answered \cup told /\ t.toolUses = rs.toolUses \ told
            /\ t.pendingAsk = rs.pendingAsk \ told /\ t.confirmations = rs.confirmations
            /\ \A c \in Calls \ {send.call} : t.pendingResults[c] = rs.pendingResults[c]
<1>1. /\ rs \in RunnerStates /\ Orderly(rs) /\ send.call \in Calls /\ send.result \in Results
      /\ send.call \notin rs.scheduled \cup rs.answered
  BY DEF CallsInv, TypeOK, SendInv, Sends
<1>2. CASE send.outcome = "posted"
  <2>1. AfterSend(rs) = MarkAnswered(rs, send.call)
    BY <1>2 DEF AfterSend
  <2> QED
    BY <1>1, <1>2, <2>1, MarkAnsweredEffect
<1>3. CASE send.outcome = "kept"
  <2> DEFINE t == [rs EXCEPT !.pendingResults[send.call] = send.result]
  <2>1. AfterSend(rs) = t
    BY <1>3 DEF AfterSend
  <2>2. /\ t \in RunnerStates /\ Orderly(t) /\ t.answered = rs.answered
        /\ t.confirmations = rs.confirmations /\ t.toolUses = rs.toolUses
        /\ t.scheduled = rs.scheduled /\ t.queue = rs.queue /\ t.active = rs.active
        /\ t.pendingAsk = rs.pendingAsk
        /\ \A d \in Calls : t.pendingResults[d] = IF d = send.call THEN send.result ELSE rs.pendingResults[d]
    BY <1>1, HoldResultEffect
  <2> HIDE DEF t
  <2> QED
    BY <1>1, <1>3, <2>1, <2>2 DEF Frame
<1>4. CASE send.outcome \notin {"posted", "kept"}
  BY <1>1, <1>4 DEF AfterSend, Frame
<1> QED
  BY <1>2, <1>3, <1>4

\* The state after a send: a finished execution makes room for the next call.
NextState == IF send.from = "finish" THEN StartNext(AfterSend(rs)) ELSE AfterSend(rs)

\* The state after a send; the next call is started only if the sent one had been executing.
LEMMA NextStateEffect ==
  ASSUME CallsInv, pc = "sent"
  PROVE  LET t == NextState
             told == IF send.outcome = "posted" THEN {send.call} ELSE {}
         IN /\ t \in RunnerStates /\ Orderly(t)
            /\ t.answered = rs.answered \cup told /\ t.toolUses = rs.toolUses \ told
            /\ t.pendingAsk = rs.pendingAsk \ told /\ t.confirmations = rs.confirmations
            /\ Range(t.queue) \subseteq Range(rs.queue)
            /\ rs.active # NoCall => t.active = rs.active
            /\ rs.active = NoCall => t.active \in {NoCall} \cup Range(rs.queue)
            /\ \A c \in Calls \ {send.call} : t.pendingResults[c] = rs.pendingResults[c]
<1> DEFINE u == AfterSend(rs)
           told == IF send.outcome = "posted" THEN {send.call} ELSE {}
           w == StartNext(u)
<1>1. /\ Frame(rs, u)
      /\ u.answered = rs.answered \cup told /\ u.toolUses = rs.toolUses \ told
      /\ u.pendingAsk = rs.pendingAsk \ told /\ u.confirmations = rs.confirmations
      /\ \A c \in Calls \ {send.call} : u.pendingResults[c] = rs.pendingResults[c]
  BY AfterSendEffect
<1> HIDE DEF u
<1>2. /\ w \in RunnerStates
      /\ w.answered = u.answered /\ w.pendingResults = u.pendingResults
      /\ w.pendingAsk = u.pendingAsk
      /\ w.confirmations = u.confirmations /\ w.toolUses = u.toolUses
      /\ Range(w.queue) \subseteq Range(u.queue)
      /\ u.active # NoCall => w = u
      /\ u.active = NoCall => w.active \in {NoCall} \cup (Range(u.queue) \ u.answered)
      /\ Orderly(u) => Orderly(w)
  BY <1>1, StartNextEffect DEF Frame
<1> HIDE DEF w
<1>3. NextState \in {u, w}
  BY DEF NextState, u, w
<1> HIDE DEF told
<1> DEFINE Good(t) == /\ t \in RunnerStates /\ Orderly(t)
            /\ t.answered = rs.answered \cup told /\ t.toolUses = rs.toolUses \ told
            /\ t.pendingAsk = rs.pendingAsk \ told /\ t.confirmations = rs.confirmations
            /\ Range(t.queue) \subseteq Range(rs.queue)
            /\ (rs.active # NoCall => t.active = rs.active)
            /\ (rs.active = NoCall => t.active \in {NoCall} \cup Range(rs.queue))
            /\ \A c \in Calls \ {send.call} : t.pendingResults[c] = rs.pendingResults[c]
<1>4. Good(u) /\ Good(w)
  BY <1>1, <1>2 DEF Frame
<1>5. Good(NextState)
  <2> HIDE DEF Good
  <2> QED
    BY <1>3, <1>4
<1> QED
  BY <1>5 DEF told

\* The attempts of a send keep CallsInv.
LEMMA SendStepCallsInv ==
  ASSUME CallsInv, pc = "send", UNCHANGED Sending, log' \in Seq(Events), net' \subseteq Calls \X Results,
         faults' \in Nat, pc' \in Sends,
         send' \in PostStates, send'.call = send.call, send'.result = send.result,
         send'.from = send.from, send'.back = send.back
  PROVE  CallsInv'
<1>1. pc' \in PCs /\ pc' # "down" /\ pc \in Sends
  BY DEF PCs, Sends
<1>2. TypeOK'
  BY <1>1 DEF CallsInv, TypeOK, Sending, tools, history
<1>3. SendInv'
  BY <1>1 DEF CallsInv, SendInv, Sending
<1> QED
  BY <1>1, <1>2, <1>3 DEF CallsInv, ExecInv, PlaceInv, Place, Sending, tools, Sends

\* A step of the goroutine that sends does not change what is sent.
LEMMA SendStepEffect ==
  ASSUME CallsInv, SendAccepted \/ SendRefused \/ SendConflicts \/ SendFails
  PROVE  /\ pc = "send" /\ UNCHANGED Sending /\ pc' \in Sends /\ faults' \in Nat
         /\ log' = log \/ (~Resolved(send.call) /\ log' = Append(log, ResultEvent(send.call, send.result)))
         /\ log' \in Seq(Events) /\ net' \subseteq Calls \X Results
         /\ send' \in PostStates /\ send'.call = send.call /\ send'.result = send.result
         /\ send'.from = send.from /\ send'.back = send.back
<1>1. /\ send \in PostStates /\ log \in Seq(Events) /\ net \subseteq Calls \X Results /\ faults \in Nat
  BY DEF CallsInv, TypeOK
<1>2. pc = "send" /\ UNCHANGED Sending
  BY DEF SendAccepted, SendRefused, SendConflicts, SendFails
<1>3. send.call \in Calls /\ send.result \in Results
  BY <1>2 DEF CallsInv, SendInv, Sends
<1>4. ResultEvent(send.call, send.result) \in Events
  BY <1>3 DEF Events
<1>5. /\ log' = log \/ (~Resolved(send.call) /\ log' = Append(log, ResultEvent(send.call, send.result)))
      /\ faults' \in Nat
  <2>1. CASE SendAccepted
    BY <1>1, <2>1 DEF SendAccepted
  <2>2. CASE SendRefused
    BY <1>1, <2>2 DEF SendRefused, Fault
  <2>3. CASE SendConflicts
    BY <1>1, <2>3 DEF SendConflicts, Fault
  <2>4. CASE SendFails
    BY <1>1, <2>4 DEF SendFails, Fault
  <2> QED
    BY <2>1, <2>2, <2>3, <2>4
<1>6. log' \in Seq(Events)
  BY <1>1, <1>4, <1>5
<1>7. net' \subseteq Calls \X Results
  <2>1. net' = net \/ net' = net \cup {<<send.call, send.result>>}
    <3>1. CASE SendFails
      BY <3>1 DEF SendFails
    <3>2. CASE SendAccepted \/ SendRefused \/ SendConflicts
      BY <3>2 DEF SendAccepted, SendRefused, SendConflicts
    <3> QED
      BY <3>1, <3>2
  <2> QED
    BY <1>1, <1>3, <2>1
<1>8. \/ pc' = pc /\ send' = [send EXCEPT !.attempt = @ + 1]
      \/ \E how \in {"posted", "kept", "refused"} : Answered(how)
  <2>1. ASSUME NEW limit, NEW early, RetryOrKeep(limit, early)
        PROVE  (pc' = pc /\ send' = [send EXCEPT !.attempt = @ + 1]) \/ Answered("kept")
    BY <2>1 DEF RetryOrKeep
  <2> QED
    BY <2>1 DEF SendAccepted, SendRefused, SendConflicts, SendFails
<1>9. /\ [send EXCEPT !.attempt = @ + 1] \in PostStates
      /\ \A how \in {"posted", "kept", "refused"} : [send EXCEPT !.outcome = how] \in PostStates
  BY <1>1 DEF PostStates
<1>10. /\ send' \in PostStates /\ send'.call = send.call /\ send'.result = send.result
       /\ send'.from = send.from /\ send'.back = send.back /\ pc' \in Sends
  <2> DEFINE again == [send EXCEPT !.attempt = @ + 1]
             over(how) == [send EXCEPT !.outcome = how]
             Same(p) == p.call = send.call /\ p.result = send.result /\ p.from = send.from /\ p.back = send.back
  <2>1. Same(again) /\ \A how : Same(over(how))
    BY <1>1 DEF PostStates
  <2>2. again \in PostStates /\ \A how \in {"posted", "kept", "refused"} : over(how) \in PostStates
    BY <1>9
  <2>3. send' = again \/ \E how \in {"posted", "kept", "refused"} : send' = over(how)
    BY <1>8 DEF Answered
  <2>4. pc' \in Sends
    BY <1>2, <1>8 DEF Answered, Sends
  <2> HIDE DEF again, over
  <2> QED
    BY <2>1, <2>2, <2>3, <2>4
<1> QED
  BY <1>2, <1>5, <1>6, <1>7, <1>10

\* finishToolExecution, the sends and flushResults keep CallsInv.
LEMMA DeliveryCallsInv ==
  ASSUME CallsInv, Delivery PROVE CallsInv'
<1>t. TypeOK /\ Orderly(rs) /\ ExecInv /\ SendInv /\ rs \in RunnerStates /\ rs.active = exec.call
  BY DEF CallsInv, TypeOK, ExecInv
<1>u. /\ exec \in ExecStates /\ (exec.result # NoResult => exec.call # NoCall) /\ ledger \in [Calls -> Entries]
      /\ running \subseteq Calls /\ executed \subseteq Calls /\ ever \subseteq Calls /\ faults \in Nat
      /\ seen \subseteq Nat /\ stream \in Nat /\ lp \in Listings /\ todo \subseteq Calls
      /\ wake \in PCs /\ cancelled \in BOOLEAN
  BY <1>t DEF TypeOK, ExecInv
<1>1. CASE FinishAnswered
  <2> DEFINE s == StartNext(ClearActive(rs))
  <2>1. s \in RunnerStates /\ Orderly(s) /\ s.active \in Calls \cup {NoCall}
    BY <1>t, FinishEffect DEF RunnerStates
  <2>2. /\ rs' = s /\ exec' = (IF s.active = NoCall THEN NoExec ELSE [NoExec EXCEPT !.call = s.active])
        /\ running' = running \cup ({s.active} \ {NoCall})
        /\ executed' = executed \cup ({s.active} \ {NoCall})
        /\ ever' = ever \cup ({s.active} \ {NoCall})
    BY <1>1 DEF FinishAnswered
  <2> HIDE DEF s
  <2>3. exec' \in ExecStates /\ exec'.call = rs'.active /\ exec'.result = NoResult
    BY <2>1, <2>2 DEF NoExec, ExecStates
  <2>4. running' \subseteq Calls /\ executed' \subseteq Calls /\ ever' \subseteq Calls
    BY <1>u, <2>1, <2>2
  <2>5. pc \notin Sends /\ pc' \in Waits /\ send = NoSend /\ (pc' = "sleep" => wake \in {"open", "list"})
    BY <1>1, <1>t DEF FinishAnswered, SendInv, Sends, Waits, Round, CallsInv, PlaceInv, Place
  <2> QED
    BY <1>1, <1>u, <2>1, <2>2, <2>3, <2>4, <2>5, LoopCallsInv DEF FinishAnswered, plane, Waits
<1>2. CASE FinishUnanswered
  <2> DEFINE c == exec.call
             u == ClearActive(rs)
             back == IF pc = "select" THEN Round ELSE pc
  <2>1. c \in Calls /\ c \notin rs.answered /\ c = rs.active /\ exec.result \in Results
    BY <1>2, <1>t, <1>u DEF FinishUnanswered, ExecStates
  <2>2. /\ u \in RunnerStates /\ u.active = NoCall /\ Orderly(u)
        /\ u.answered = rs.answered /\ u.scheduled = rs.scheduled \ {rs.active}
    BY <1>t, ClearActiveEffect
  <2>3. rs' \in RunnerStates /\ Orderly(rs') /\ rs'.active = NoCall /\ c \notin rs'.scheduled \cup rs'.answered
    <3>1. CASE HasStore
      <4> DEFINE t == [u EXCEPT !.pendingResults[c] = exec.result]
      <4>1. rs' = t
        BY <1>2, <3>1 DEF FinishUnanswered
      <4> HIDE DEF u, c
      <4>2. c \notin u.scheduled \cup u.answered
        BY <2>1, <2>2
      <4>3. t \in RunnerStates /\ Orderly(t) /\ t.active = u.active
            /\ t.scheduled = u.scheduled /\ t.answered = u.answered
        BY <2>1, <2>2, <4>2, HoldResultEffect
      <4> HIDE DEF t
      <4> QED
        BY <2>2, <4>1, <4>2, <4>3
    <3>2. CASE ~HasStore
      <4>1. rs' = u
        BY <1>2, <3>2 DEF FinishUnanswered
      <4> HIDE DEF u
      <4> QED
        BY <2>1, <2>2, <4>1
    <3> QED
      BY <3>1, <3>2
  <2>4. back \in Backs /\ back # "flush" /\ (back = "sleep" => pc = "sleep") /\ pc \notin Sends \cup {"down"}
    BY <1>2 DEF FinishUnanswered, Backs, Round, Sends
  <2>5. StartSend(c, exec.result, "finish", back) /\ exec' = NoExec
    BY <1>2 DEF FinishUnanswered
  <2>6. ledger' \in [Calls -> Entries] /\ faults' \in Nat
    <3>1. exec.result \in Entries /\ Persist(c, exec.result)
      BY <1>2, <2>1 DEF Entries, FinishUnanswered
    <3> QED
      BY <1>t, <2>1, <3>1, PersistEffect
  <2>7. exec' \in ExecStates /\ exec'.call = rs'.active /\ exec'.result = NoResult
    BY <2>3, <2>5, Defaults
  <2>8. UNCHANGED <<plane, seen, stream, lp, todo, wake, cancelled, outcome, running, history>>
    BY <1>2 DEF FinishUnanswered
  <2> HIDE DEF c, back
  <2> QED
    BY <1>u, <2>1, <2>3, <2>4, <2>5, <2>6, <2>7, <2>8, SendCallsInv DEF history
<1>3. CASE SendAccepted \/ SendRefused \/ SendConflicts \/ SendFails
  BY <1>3, SendStepEffect, SendStepCallsInv
<1>4. CASE SendEnds
  <2>1. /\ pc = "sent" /\ Become(NextState) /\ pc' = send.back /\ send' = NoSend
        /\ UNCHANGED <<plane, seen, stream, lp, todo, wake, cancelled, outcome>>
    BY <1>4 DEF SendEnds, NextState
  <2>2. /\ NextState \in RunnerStates /\ Orderly(NextState)
        /\ rs.active # NoCall => NextState.active = rs.active
        /\ \A c \in Calls \ {send.call} : NextState.pendingResults[c] = rs.pendingResults[c]
    BY <2>1, NextStateEffect
  <2>3. /\ rs' = NextState
        /\ exec' \in ExecStates /\ exec'.call = rs'.active
        /\ exec'.result # NoResult => exec'.call # NoCall
        /\ running' \subseteq Calls /\ ever' \subseteq Calls /\ executed' \subseteq Calls
    BY <2>1, <2>2, BecomeEffect
  <2>4. ledger' \in [Calls -> Entries] /\ faults' \in Nat
    <3>1. send.call \in Calls /\ "sent" \in Entries
      BY <1>t, <2>1 DEF SendInv, Sends, Entries
    <3>2. Persist(send.call, "sent") \/ UNCHANGED <<ledger, faults>>
      BY <1>4 DEF SendEnds
    <3> QED
      BY <1>t, <1>u, <3>1, <3>2, PersistEffect
  <2>5. pc' \in Waits \cup {"flush"} /\ (pc' = "sleep" => wake \in {"open", "list"})
    BY <1>t, <2>1 DEF SendInv, Sends, Waits, CallsInv, PlaceInv, Place
  <2>6. pc' = "flush" => \A c \in todo' : rs'.pendingResults[c] # NoResult
    <3> SUFFICES ASSUME pc' = "flush", NEW c \in todo PROVE rs'.pendingResults[c] # NoResult
      BY <2>1
    <3>1. send.back = "flush" /\ send.call \notin todo /\ rs.pendingResults[c] # NoResult
      BY <1>t, <2>1 DEF SendInv, Sends, CallsInv, PlaceInv, Place
    <3> QED
      BY <1>u, <2>2, <2>3, <3>1
  <2> QED
    BY <1>u, <2>1, <2>2, <2>3, <2>4, <2>5, <2>6, LoopCallsInv
<1>5. CASE SendCancelled
  <2>1. send.call \in Calls /\ "sent" \in Entries
    BY <1>5, <1>t DEF SendCancelled, SendInv, Sends, Entries
  <2>2. Persist(send.call, "sent") \/ UNCHANGED <<ledger, faults>>
    BY <1>5 DEF SendCancelled
  <2>3. ledger' \in [Calls -> Entries] /\ faults' \in Nat
    BY <1>t, <1>u, <2>1, <2>2, PersistEffect
  <2> QED
    BY <1>5, <1>u, <2>3, GoneCallsInv DEF SendCancelled, history
<1>6. CASE FlushStarts
  <2>1. Flushable(rs) \subseteq Calls /\ \A c \in Flushable(rs) : rs.pendingResults[c] # NoResult
    BY DEF Flushable
  <2>2. send = NoSend
    BY <1>6, <1>t DEF FlushStarts, SendInv, Sends
  <2> QED
    BY <1>6, <1>t, <1>u, <2>1, <2>2, LoopCallsInv DEF FlushStarts, plane, tools, history, Waits
<1>7. ASSUME NEW c \in Calls, FlushNext(c) PROVE CallsInv'
  <2>1. pc = "flush" /\ c \in todo /\ todo' = todo \ {c} /\ StartSend(c, rs.pendingResults[c], "flush", "flush")
        /\ UNCHANGED <<plane, ledger, rs, seen, stream, lp, wake, cancelled, outcome, tools, history, faults>>
    BY <1>7 DEF FlushNext
  <2>2. \A d \in todo : rs.pendingResults[d] # NoResult
    BY <2>1 DEF CallsInv, PlaceInv, Place, Sends
  <2>3. rs.pendingResults[c] \in Results
    BY <1>t, <2>1, <2>2 DEF RunnerStates
  <2>4. c \notin rs.scheduled \cup rs.answered
    BY <1>t, <2>1, <2>2 DEF Orderly
  <2>5. "flush" \in Backs /\ pc \notin Sends \cup {"down"}
    BY <2>1 DEF Backs, Sends
  <2> QED
    BY <1>t, <1>u, <2>1, <2>2, <2>3, <2>4, <2>5, SendCallsInv DEF plane, tools, history
<1>8. CASE FlushEnds
  <2>1. MaybeArmPendingIdle(rs) \in RunnerStates /\ SameCalls(rs, MaybeArmPendingIdle(rs))
    BY <1>t, IdleEffect
  <2>2. rs' \in RunnerStates /\ Orderly(rs') /\ rs'.active = rs.active
    BY <1>8, <1>t, <2>1, IdleFrame DEF FlushEnds, Frame
  <2>3. send = NoSend
    BY <1>8, <1>t DEF FlushEnds, SendInv, Sends
  <2> QED
    BY <1>8, <1>t, <1>u, <2>2, <2>3, LoopCallsInv DEF FlushEnds, plane, tools, history, Waits
<1> QED
  BY <1>1, <1>2, <1>3, <1>4, <1>5, <1>6, <1>7, <1>8 DEF Delivery

\* The waits of consumeStream, consumeList and sleepOrIdle keep CallsInv.
LEMMA WaitingCallsInv ==
  ASSUME CallsInv, ReadInv, Waiting PROVE CallsInv'
<1>t. TypeOK /\ Orderly(rs) /\ ExecInv /\ SendInv /\ rs \in RunnerStates /\ rs.active = exec.call
  BY DEF CallsInv, TypeOK, ExecInv
<1>u. /\ exec \in ExecStates /\ (exec.result # NoResult => exec.call # NoCall) /\ ledger \in [Calls -> Entries]
      /\ running \subseteq Calls /\ executed \subseteq Calls /\ ever \subseteq Calls /\ faults \in Nat
      /\ seen \subseteq Nat /\ stream \in Nat /\ lp \in Listings /\ todo \subseteq Calls
      /\ wake \in PCs /\ cancelled \in BOOLEAN
  BY <1>t DEF TypeOK, ExecInv
<1>s. pc \notin Sends => send = NoSend
  BY <1>t DEF SendInv
<1>1. CASE StreamTermination \/ IdleTimeout \/ CancelSeen
  BY <1>1, <1>u, GoneCallsInv DEF StreamTermination, IdleTimeout, CancelSeen, Exit, plane, history
<1>2. CASE StreamSeenBefore \/ Disconnected \/ SleepEnds \/ Tick
  <2>1. /\ UNCHANGED <<plane, ledger, rs, lp, todo, send, cancelled, outcome, tools, history>>
        /\ pc \notin Sends /\ faults' \in Nat
    BY <1>2, <1>u DEF StreamSeenBefore, AtStream, Disconnected, SleepEnds, Tick, Sends, Fault
  <2>2. pc' \in Waits /\ wake' \in PCs /\ (pc' = "sleep" => wake' \in {"open", "list"})
    <3>1. pc = "sleep" => wake \in {"open", "list"}
      BY DEF CallsInv, PlaceInv, Place, Sends
    <3>2. {"open", "list", "down"} \subseteq PCs
      BY DEF PCs
    <3>3. CASE Disconnected
      BY <3>2, <3>3 DEF Disconnected, Sleep, Waits
    <3>4. CASE SleepEnds
      BY <3>1, <3>2, <3>4 DEF SleepEnds, Waits
    <3>5. CASE StreamSeenBefore \/ Tick
      BY <1>u, <3>5 DEF StreamSeenBefore, Tick, Waits
    <3> QED
      BY <1>2, <3>3, <3>4, <3>5
  <2>3. seen' \subseteq Nat /\ stream' \in Nat
    <3>1. CASE StreamSeenBefore
      BY <1>u, <3>1 DEF StreamSeenBefore, Consume
    <3>2. CASE Disconnected
      <4>1. stream' = 0 /\ seen' = seen
        BY <3>2 DEF Disconnected
      <4> QED
        BY <1>u, <4>1
    <3>3. CASE SleepEnds \/ Tick
      <4>1. stream' = stream /\ seen' = seen
        BY <3>3 DEF SleepEnds, Tick
      <4> QED
        BY <1>u, <4>1
    <3> QED
      BY <1>2, <3>1, <3>2, <3>3
  <2> QED
    BY <1>s, <1>t, <1>u, <2>1, <2>2, <2>3, LoopCallsInv DEF tools, history, Waits
<1>3. CASE StreamInterrupt
  <2>1. Arrived \in Events /\ pc \notin Sends
    BY <1>3, ArrivedIsEvent DEF StreamInterrupt, Sends
  <2>2. Frame(rs, Noted)
    BY <1>t, <2>1, NotedEffect DEF Noted
  <2>3. rs' \in RunnerStates /\ Orderly(rs') /\ rs'.active = rs.active
    BY <1>3, <2>2, HandleInterruptEffect DEF StreamInterrupt, Frame
  <2>4. ledger' \in [Calls -> Entries] /\ executed' \subseteq Calls /\ ever' \subseteq Calls /\ faults' \in Nat
    BY <1>3, <1>t, DiscardEffect DEF StreamInterrupt
  <2>5. exec' \in ExecStates /\ exec'.call = exec.call /\ exec'.result = exec.result
    BY <1>3, <1>u DEF StreamInterrupt, CancelMatching, ExecStates
  <2>6. seen' \subseteq Nat /\ stream' \in Nat
    BY <1>3, <1>u DEF StreamInterrupt, Consume
  <2> QED
    BY <1>3, <1>s, <1>t, <1>u, <2>1, <2>3, <2>4, <2>5, <2>6, LoopCallsInv DEF StreamInterrupt, plane, Waits
<1>4. CASE StreamEvent
  <2>1. Arrived \in Events /\ pc \notin Sends
    BY <1>4, ArrivedIsEvent DEF StreamEvent, Sends
  <2>2. Frame(rs, Noted)
    BY <1>t, <2>1, NotedEffect DEF Noted
  <2>3. /\ rs' = Learn(Noted, Arrived)
        /\ todo' = CASE Arrived.type = "use"     -> {Arrived.call}
                     [] Arrived.type = "confirm" -> Ready(rs')
                     [] OTHER                    -> {}
        /\ pc' \in {"top", "handle"}
    BY <1>4 DEF StreamEvent
  <2>4. rs' \in RunnerStates /\ Orderly(rs') /\ rs'.active = rs.active
    BY <2>1, <2>2, <2>3, LearnEffect DEF Frame
  <2>5. todo' \subseteq Calls
    <3>1. Ready(rs') \subseteq Calls
      BY <2>4 DEF Ready, RunnerStates
    <3>2. Arrived.type = "use" => Arrived.call \in Calls
      BY <2>1, EventFields
    <3> QED
      BY <2>3, <3>1, <3>2
  <2>6. ledger' \in [Calls -> Entries] /\ executed' \subseteq Calls /\ ever' \subseteq Calls /\ faults' \in Nat
    BY <1>4, <1>t, DiscardEffect DEF StreamEvent
  <2>7. seen' \subseteq Nat /\ stream' \in Nat
    BY <1>4, <1>u DEF StreamEvent, Consume
  <2>8. UNCHANGED <<plane, lp, send, wake, cancelled, outcome, tools>>
    BY <1>4 DEF StreamEvent
  <2> QED
    BY <1>s, <1>t, <1>u, <2>1, <2>3, <2>4, <2>5, <2>6, <2>7, <2>8, LoopCallsInv DEF tools, Waits
<1> QED
  BY <1>1, <1>2, <1>3, <1>4 DEF Waiting

\* A runner starts with nothing queued, and with the calls whose record says sent answered.
LEMMA RecoveredEffect ==
  ASSUME NEW found \in [Calls -> Entries]
  PROVE  LET t == Recovered(found)
         IN /\ t \in RunnerStates /\ Orderly(t) /\ t.active = NoCall /\ Range(t.queue) = {}
            /\ t.answered = {c \in Calls : found[c] = "sent"}
            /\ t.toolUses = {} /\ t.pendingAsk = {} /\ t.confirmations = [c \in Calls |-> "none"]
<1> DEFINE f == FreshState
           pend == [c \in Calls |-> IF found[c] \in Results THEN found[c] ELSE NoResult]
           ans == {c \in Calls : found[c] = "sent"}
           rec == {c \in Calls : found[c] \in Results}
           t == [f EXCEPT !.answered = ans, !.pendingResults = pend, !.recovered = rec]
<1>1. /\ f \in RunnerStates /\ f.active = NoCall /\ f.queue = <<>> /\ f.scheduled = {}
      /\ f.toolUses = {} /\ f.pendingAsk = {} /\ f.confirmations = [c \in Calls |-> "none"]
  BY FreshIsOrderly DEF FreshState
<1>2. pend \in [Calls -> Results \cup {NoResult}] /\ ans \in SUBSET Calls /\ rec \in SUBSET Calls
  OBVIOUS
<1>3. NoResult \notin Results /\ "sent" \notin Results
  BY DEF NoResult, Results, UnknownResult
<1>4. \A c \in Calls : (c \in rec => pend[c] # NoResult) /\ (c \in ans => pend[c] = NoResult)
  BY <1>3
<1>5. Recovered(found) = t
  BY DEF Recovered
<1> HIDE DEF f
<1>6. /\ t \in RunnerStates /\ t.active = NoCall /\ t.queue = <<>> /\ t.scheduled = {}
      /\ t.toolUses = {} /\ t.pendingAsk = {} /\ t.confirmations = [c \in Calls |-> "none"]
      /\ t.answered = ans /\ t.recovered = rec /\ t.pendingResults = pend
  <2> HIDE DEF pend, ans, rec
  <2> QED
    BY <1>1, <1>2 DEF RunnerStates
<1>7. Range(<<>>) = {} /\ DOMAIN <<>> = {}
  BY DEF Range
<1> HIDE DEF t
<1>8. Orderly(t)
  <2> HIDE DEF pend
  <2> QED
    BY <1>2, <1>4, <1>6, <1>7 DEF Orderly
<1> QED
  BY <1>5, <1>6, <1>7, <1>8

\* The start of a runner keeps CallsInv.
LEMMA StartCallsInv ==
  ASSUME CallsInv, Start PROVE CallsInv'
<1>1. TypeOK /\ pc = "down" /\ exec = NoExec /\ send = NoSend /\ seen = {} /\ lp = NoList /\ todo = {} /\ stream = 0
  BY DEF CallsInv, PlaceInv, SendInv, Sends, Start
<1>2. ledger' = SettleStarted(ledger) /\ rs' = Recovered(SettleStarted(ledger)) /\ pc' = Connect /\ outcome' = "none"
      /\ UNCHANGED <<plane, seen, stream, lp, todo, send, wake, cancelled, tools, history, faults>>
  BY DEF Start
<1>3. ledger' \in [Calls -> Entries]
  BY <1>1, <1>2, SettledEntry DEF TypeOK
<1>4. rs' \in RunnerStates /\ Orderly(rs') /\ rs'.active = NoCall
  BY <1>2, <1>3, RecoveredEffect
<1>5. pc' \in {"open", "list"} /\ pc' \in PCs
  BY <1>2 DEF Connect, PCs
<1>6. TypeOK'
  BY <1>1, <1>2, <1>3, <1>4, <1>5 DEF TypeOK, plane, tools, history
<1> QED
  BY <1>1, <1>2, <1>4, <1>5, <1>6, Defaults DEF CallsInv, ExecInv, SendInv, PlaceInv, Place, Sends, tools

\* Cancelling the context keeps CallsInv.
LEMMA CancelCallsInv ==
  ASSUME CallsInv, Cancel PROVE CallsInv'
<1>1. TypeOK'
  BY DEF CallsInv, TypeOK, Cancel, Fault, plane, tools, history
<1> QED
  BY <1>1 DEF CallsInv, ExecInv, SendInv, PlaceInv, Place, Sends, Cancel, tools

\* Every step keeps CallsInv.
LEMMA NextCallsInv ==
  ASSUME CallsInv, ReadInv, [Next]_vars PROVE CallsInv'
<1>1. CASE UNCHANGED vars
  <2>1. UNCHANGED <<mode, ledger, loop, tools, history, log, net, faults>>
    BY <1>1 DEF vars, loop, tools, history
  <2> QED
    BY <2>1, PlaneCallsInv DEF CallsInv, TypeOK
<1>2. CASE Crash
  BY <1>2, GoneCallsInv DEF Crash, Fault, CallsInv, TypeOK, history
<1>3. CASE ControlPlane
  BY <1>3, ControlPlaneEffect, PlaneCallsInv DEF CallsInv
<1> QED
  BY <1>1, <1>2, <1>3, StartCallsInv, ListingCallsInv, DeliveryCallsInv, WaitingCallsInv,
     HandleToolUseCallsInv, GoroutinesCallsInv, CancelCallsInv
     DEF Next, EventLoop

\* What a step leaves of the calls when it settles, queues and starts none.
Quiet ==
  /\ rs'.queue = rs.queue /\ rs'.active = rs.active /\ rs'.answered = rs.answered
  /\ rs'.toolUses = rs.toolUses /\ rs'.pendingAsk = rs.pendingAsk
  /\ rs'.confirmations = rs.confirmations

-----------------------------------------------------------------------------
(* What the steps change                                                   *)

\* The kinds of steps: quiet ones leave alone the calls, the ledger and the history ...
QuietListing == \/ StreamOpens \/ StreamFails \/ EventsListed \/ ReconcileFails \/ PollFails
                \/ SeenBefore \/ PassOver \/ PendingDone \/ HandleDone
QuietHandling == \E c \in Calls : HandleSettled(c) \/ ResendResult(c) \/ SkipExternal(c)
QuietSend == SendAccepted \/ SendRefused \/ SendConflicts \/ SendFails
QuietFlush == FlushStarts \/ FlushEnds \/ \E c \in Calls : FlushNext(c)
QuietWait == StreamSeenBefore \/ Disconnected \/ SleepEnds \/ Tick

QuietStep == \/ QuietListing \/ QuietHandling \/ QuietSend \/ QuietFlush \/ QuietWait
             \/ Goroutines \/ ControlPlane \/ Cancel \/ UNCHANGED vars

\* ... gone ones end the runner ...
GoneStep == \/ StreamRefused \/ ListedTermination \/ StreamTermination \/ IdleTimeout \/ CancelSeen
            \/ Crash \/ SendCancelled \/ \E c \in Calls : BeginFails(c)

\* ... and loud ones are the rest.
LoudStep == \/ Start \/ ListedInterrupt \/ ListedEvent \/ ListEnds
            \/ (\E c \in Calls : AwaitConfirmation(c) \/ ResolveWithoutPost(c) \/ BeginFresh(c) \/ BeginRecorded(c))
            \/ FinishAnswered \/ FinishUnanswered \/ SendEnds \/ StreamInterrupt \/ StreamEvent

\* Every step is of one of the kinds.
LEMMA StepKinds == [Next]_vars <=> QuietStep \/ GoneStep \/ LoudStep
BY DEF Next, EventLoop, Listing, Delivery, Waiting, HandleToolUse, QuietStep, QuietListing, QuietHandling,
       QuietSend, QuietFlush, QuietWait, GoneStep, LoudStep

\* What a quiet step leaves as it was.
LEMMA QuietStepEffect ==
  ASSUME CallsInv, QuietStep
  PROVE  /\ Quiet /\ UNCHANGED <<mode, ledger, executed>>
         /\ log' = log \/ \E e \in Events : log' = Append(log, e)
<1>t. /\ CallsInv /\ TypeOK /\ Orderly(rs) /\ rs \in RunnerStates /\ log \in Seq(Events)
  BY DEF CallsInv, TypeOK
<1> DEFINE Goal == /\ Quiet /\ UNCHANGED <<mode, ledger, executed>>
                   /\ log' = log \/ \E e \in Events : log' = Append(log, e)
<1>1. ASSUME UNCHANGED <<mode, log, ledger, rs, executed>> PROVE Goal
  BY <1>1 DEF Quiet
<1>2. ASSUME NEW t \in RunnerStates, SameCalls(rs, t), t.toolUses = rs.toolUses,
             UNCHANGED <<mode, log, ledger, executed>>, rs' = t
      PROVE  Goal
  BY <1>2 DEF Quiet, SameCalls
<1>3. CASE QuietListing
  <2>1. CASE HandleDone
    <3>1. ArmIdle(rs) \in RunnerStates /\ SameCalls(rs, ArmIdle(rs)) /\ ArmIdle(rs).toolUses = rs.toolUses
      BY <1>t, IdleEffect
    <3>2. SameCalls(rs, rs)
      BY DEF SameCalls
    <3> QED
      BY <1>t, <1>2, <2>1, <3>1, <3>2 DEF HandleDone, plane, history
  <2>2. CASE ~HandleDone
    <3>1. UNCHANGED <<plane, ledger, rs, history>>
      <4>1. CASE StreamOpens \/ StreamFails \/ EventsListed
        BY <4>1 DEF StreamOpens, StreamFails, EventsListed
      <4>2. CASE ReconcileFails \/ PollFails \/ SeenBefore
        BY <4>2 DEF ReconcileFails, PollFails, SeenBefore
      <4>3. CASE PassOver \/ PendingDone
        BY <4>3 DEF PassOver, PendingDone
      <4> QED
        BY <1>3, <2>2, <4>1, <4>2, <4>3 DEF QuietListing
    <3> QED
      BY <1>1, <3>1 DEF plane, history
  <2> QED
    BY <2>1, <2>2
<1>4. CASE QuietHandling
  <2>1. PICK c \in Calls : HandleSettled(c) \/ ResendResult(c) \/ SkipExternal(c)
    BY <1>4 DEF QuietHandling
  <2>2. CASE SkipExternal(c)
    <3> DEFINE t == MaybeArmPendingIdle([rs EXCEPT !.external = @ \cup {c}])
    <3>1. t \in RunnerStates /\ SameCalls(rs, t) /\ t.toolUses = rs.toolUses
      BY <1>t, SkipExternalEffect
    <3>2. rs' = t /\ UNCHANGED <<mode, log, ledger, executed>>
      BY <2>2 DEF SkipExternal, Remaining, plane, history
    <3> HIDE DEF t
    <3> QED
      BY <3>1, <3>2 DEF Quiet, SameCalls
  <2>3. CASE HandleSettled(c) \/ ResendResult(c)
    BY <1>1, <2>3 DEF HandleSettled, ResendResult, Remaining, plane, history
  <2> QED
    BY <2>1, <2>2, <2>3
<1>5. CASE QuietSend
  <2>1. UNCHANGED Sending /\ (log' = log \/ log' = Append(log, ResultEvent(send.call, send.result)))
    BY <1>5, <1>t, SendStepEffect DEF QuietSend
  <2>2. ResultEvent(send.call, send.result) \in Events
    <3>1. pc = "send"
      BY <1>5 DEF QuietSend, SendAccepted, SendRefused, SendConflicts, SendFails
    <3>2. send.call \in Calls /\ send.result \in Results
      BY <3>1 DEF CallsInv, SendInv, Sends
    <3> QED
      BY <3>2 DEF Events
  <2> QED
    BY <2>1, <2>2 DEF Sending, history, Quiet
<1>6. CASE QuietFlush
  <2>1. CASE FlushEnds
    <3>1. MaybeArmPendingIdle(rs) \in RunnerStates /\ SameCalls(rs, MaybeArmPendingIdle(rs))
          /\ MaybeArmPendingIdle(rs).toolUses = rs.toolUses
      BY <1>t, IdleEffect
    <3> QED
      BY <1>2, <2>1, <3>1 DEF FlushEnds, plane, history
  <2>2. CASE ~FlushEnds
    BY <1>1, <1>6, <2>2 DEF QuietFlush, FlushStarts, FlushNext, plane, history
  <2> QED
    BY <2>1, <2>2
<1>7. CASE QuietWait
  BY <1>1, <1>7 DEF QuietWait, StreamSeenBefore, Disconnected, SleepEnds, Tick, plane, history
<1>8. CASE Goroutines
  BY <1>1, <1>8 DEF Goroutines, ToolReturns, ToolTimesOut, ToolCancelled, AbandonedToolEnds, plane, history, loop
<1>9. CASE ControlPlane
  BY <1>9, <1>t, ControlPlaneEffect DEF loop, history, Quiet
<1>10. CASE Cancel \/ UNCHANGED vars
  BY <1>1, <1>10 DEF Cancel, vars, plane, history
<1> QED
  BY <1>3, <1>4, <1>5, <1>6, <1>7, <1>8, <1>9, <1>10 DEF QuietStep

\* A runner that ended leaves the log and what was executed as they are; in the ledger a
\* call that had no record may have got one, and a result may be known to be sent.
LEMMA GoneStepEffect ==
  ASSUME CallsInv, GoneStep
  PROVE  /\ \E why \in {"idle", "terminated", "cancelled", "error", "died"} : Gone(why)
         /\ UNCHANGED <<plane, executed>>
         /\ \A c \in Calls : \/ ledger'[c] = ledger[c]
                             \/ ledger[c] = "absent" /\ ledger'[c] = "started"
                             \/ /\ ledger[c] # "absent" /\ ledger'[c] = "sent"
                                /\ pc = "sent" /\ send.outcome = "posted" /\ c = send.call
<1>1. CASE SendCancelled
  <2>1. send.call \in Calls
    BY <1>1 DEF SendCancelled, CallsInv, SendInv, Sends
  <2>2. /\ pc = "sent" /\ Gone("cancelled") /\ UNCHANGED <<plane, executed>>
        /\ IF send.outcome = "posted" THEN Persist(send.call, "sent") ELSE UNCHANGED <<ledger, faults>>
    BY <1>1 DEF SendCancelled, history
  <2>3. "sent" \in Entries
    BY DEF Entries
  <2>4. send.outcome = "posted" => UNCHANGED ledger \/
            (ledger[send.call] # "absent" /\ ledger' = [ledger EXCEPT ![send.call] = "sent"])
    BY <2>1, <2>2, <2>3, PersistEffect DEF CallsInv
  <2> QED
    BY <2>1, <2>2, <2>4 DEF CallsInv, TypeOK
<1>2. ASSUME NEW c \in Calls, BeginFails(c)
      PROVE  /\ Gone("error") /\ UNCHANGED <<plane, executed>>
             /\ \A d \in Calls : ledger'[d] = ledger[d] \/ (ledger[d] = "absent" /\ ledger'[d] = "started")
  BY <1>2 DEF BeginFails, history, CallsInv, TypeOK
<1>3. CASE StreamRefused \/ ListedTermination \/ StreamTermination \/ IdleTimeout \/ CancelSeen \/ Crash
  BY <1>3 DEF StreamRefused, ListedTermination, StreamTermination, IdleTimeout, CancelSeen, Crash, Exit, history
<1> QED
  BY <1>1, <1>2, <1>3 DEF GoneStep

\* What is left when the runner is gone.
LEMMA GoneEffect ==
  ASSUME NEW why, Gone(why)
  PROVE  /\ rs' = FreshState /\ Range(rs'.queue) = {} /\ rs'.active = NoCall /\ rs'.answered = {}
         /\ rs'.toolUses = {} /\ rs'.pendingAsk = {} /\ rs'.confirmations = [c \in Calls |-> "none"]
         /\ pc' = "down" /\ Place' = "down" /\ seen' = {} /\ stream' = 0 /\ lp' = NoList /\ todo' = {}
BY DEF Gone, FreshState, Range, Place, Sends

\* A log that grows keeps its events, and its results.
LEMMA LogExtends ==
  ASSUME log \in Seq(Events), log' = log \/ \E e \in Events : log' = Append(log, e)
  PROVE  /\ log' \in Seq(Events) /\ Len(log) <= Len(log')
         /\ \A i \in DOMAIN log : i \in DOMAIN log' /\ log'[i] = log[i]
         /\ Range(log) \subseteq Range(log')
         /\ \A c \in Calls : HasResult(c) => HasResult(c)'
<1>1. /\ log' \in Seq(Events) /\ Len(log) <= Len(log')
      /\ \A i \in DOMAIN log : i \in DOMAIN log' /\ log'[i] = log[i]
  OBVIOUS
<1> QED
  BY <1>1 DEF Range, HasResult

\* A loud step is the runner alone: it changes nothing at the control plane.
LEMMA LoudStepPlane == LoudStep => UNCHANGED plane
BY DEF LoudStep, Start, ListedInterrupt, ListedEvent, ListEnds, AwaitConfirmation, ResolveWithoutPost,
       BeginFresh, BeginRecorded, FinishAnswered, FinishUnanswered, SendEnds, StreamInterrupt, StreamEvent, Remaining

\* No step takes an event from the log.
LEMMA LogOnlyGrows ==
  ASSUME CallsInv, [Next]_vars
  PROVE  /\ log' \in Seq(Events) /\ Len(log) <= Len(log') /\ mode' = mode
         /\ \A i \in DOMAIN log : i \in DOMAIN log' /\ log'[i] = log[i]
         /\ Range(log) \subseteq Range(log')
         /\ \A c \in Calls : HasResult(c) => HasResult(c)'
<1>1. (log' = log \/ \E e \in Events : log' = Append(log, e)) /\ mode' = mode
  BY StepKinds, QuietStepEffect, GoneStepEffect, LoudStepPlane DEF plane
<1>2. log \in Seq(Events)
  BY DEF CallsInv, TypeOK
<1> QED
  BY <1>1, <1>2, LogExtends

\* Where the loop has read what the stream brings.
Caught == {"pending", "handle", "top", "flush", "select"}

\* A step that reads nothing keeps ReadInv if it does not get to where the stream's events
\* count as read from a place where they do not.
LEMMA StayReadInv ==
  ASSUME CallsInv, ReadInv, [Next]_vars, UNCHANGED <<seen, stream>>,
         lp'.next >= 1, lp'.end <= Len(log'), pc' # "event" \/ (pc' = pc /\ UNCHANGED lp),
         mode = "stream" =>
           \/ Place' = Place /\ wake' = wake
           \/ Place \in Caught /\ Place' \in Caught
           \/ stream # 0 /\ Place' \notin Caught
           \/ Place' = "sleep" /\ wake' = "open"
           \/ Place = "sleep" /\ Place' = wake
  PROVE  ReadInv'
<1>1. /\ log \in Seq(Events) /\ log' \in Seq(Events) /\ Len(log) <= Len(log') /\ mode' = mode
      /\ \A i \in DOMAIN log : i \in DOMAIN log' /\ log'[i] = log[i]
  BY LogOnlyGrows DEF CallsInv, TypeOK
<1>2. Place = "sleep" => wake \in {"open", "list"}
  BY DEF CallsInv, PlaceInv
<1>3. Len(log) \in Nat /\ Len(log') \in Nat /\ stream \in Nat
  BY <1>1 DEF CallsInv, TypeOK
<1> HIDE DEF Place
<1>4. /\ \A i \in seen' : i \in DOMAIN log' /\ 1..i \subseteq seen'
      /\ stream' <= Len(log') + 1
      /\ lp'.next >= 1 /\ lp'.end <= Len(log')
  BY <1>1, <1>3 DEF ReadInv
<1>5. /\ pc' = "event" => 1..(lp'.next - 1) \subseteq seen'
      /\ mode' = "stream" /\ pc' = "event" => stream' <= lp'.end + 1
  BY <1>1 DEF ReadInv
<1>6. mode' = "stream" =>
        /\ stream' = 0 => Place' \in {"down", "open"} \/ (Place' = "sleep" /\ wake' = "open")
        /\ Place' \in Caught => 1..(stream' - 1) \subseteq seen'
  BY <1>1, <1>2 DEF ReadInv, Caught
<1> QED
  BY <1>4, <1>5, <1>6 DEF ReadInv, Caught

\* reconcileOnce, consumeList and processListedEvents keep ReadInv.
LEMMA ListingReadInv ==
  ASSUME CallsInv, ReadInv, Listing PROVE ReadInv'
<1>t. /\ TypeOK /\ lp \in Listings /\ stream \in Nat /\ Len(log) \in Nat /\ log \in Seq(Events)
      /\ lp.next \in Nat /\ lp.end \in Nat
  BY DEF CallsInv, TypeOK, Listings
<1>n. [Next]_vars
  BY DEF Next, EventLoop
<1>r. lp.next >= 1 /\ lp.end <= Len(log)
  BY DEF ReadInv
<1>0. NoList.next = 1 /\ NoList.end = 0
  BY DEF NoList
<1>1. CASE StreamRefused \/ ListedTermination
  <2>1. \E why \in {"idle", "terminated", "cancelled", "error", "died"} : Gone(why)
    BY <1>1, GoneStepEffect DEF GoneStep
  <2>2. UNCHANGED log
    BY <1>1 DEF StreamRefused, ListedTermination, Exit, plane
  <2> QED
    BY <1>t, <1>0, <2>1, <2>2, GoneEffect DEF ReadInv
<1>2. CASE StreamOpens
  BY <1>2, <1>t, <1>r DEF StreamOpens, ReadInv, plane, Place, Sends
<1>3. CASE StreamFails \/ ReconcileFails
  <2>1. /\ UNCHANGED <<plane, seen, stream, lp, send>> /\ pc' = "sleep" /\ pc \notin Sends
        /\ \/ wake' = "open"
           \/ wake' = "list" /\ pc = "list" /\ mode = "stream"
    BY <1>3 DEF StreamFails, ReconcileFails, Sleep, Sends
  <2>2. wake' = "open" \/ stream # 0
    BY <2>1 DEF ReadInv, Place, Sends
  <2> QED
    BY <1>n, <1>r, <2>1, <2>2, StayReadInv DEF plane, Place, Sends, Caught
<1>4. CASE EventsListed
  <2>1. lp'.next = 1 /\ lp'.end = Len(log) /\ UNCHANGED <<plane, seen, stream, wake>> /\ pc' = "event" /\ pc = "list"
    BY <1>4, <1>t, ListType DEF EventsListed
  <2>2. Place' = "event" /\ Place = "list"
    BY <2>1 DEF Place, Sends
  <2> QED
    BY <1>t, <2>1, <2>2 DEF ReadInv, plane
<1>5. CASE PollFails
  <2>1. UNCHANGED <<plane, seen, stream, wake>> /\ mode = "list"
    BY <1>5 DEF PollFails
  <2>2. PICK n \in 0..Len(log) : IF n = 0 THEN pc' = "select" /\ UNCHANGED lp
                                          ELSE pc' = "event" /\ List(n, FALSE)
    BY <1>5 DEF PollFails
  <2>3. n \in Nat /\ n <= Len(log) /\ FALSE \in BOOLEAN
    BY <1>t
  <2>4. lp'.next >= 1 /\ lp'.end <= Len(log) /\ (pc' = "event" => lp'.next = 1)
    <3>1. CASE n = 0
      BY <1>r, <2>2, <3>1
    <3>2. CASE n # 0
      <4>1. List(n, FALSE) /\ n \in Nat
        BY <2>2, <2>3, <3>2
      <4>2. lp'.next = 1 /\ lp'.end = n
        BY <4>1, ListType
      <4> QED
        BY <2>3, <4>2
    <3> QED
      BY <3>1, <3>2
  <2> QED
    BY <1>t, <2>1, <2>4 DEF ReadInv, plane
<1>6. CASE SeenBefore
  <2>1. UNCHANGED <<plane, pc, seen, stream, send, wake>> /\ lp'.next = lp.next + 1 /\ lp'.end = lp.end
        /\ lp.next \in seen /\ pc = "event" /\ mode = "list"
    BY <1>6, <1>t DEF SeenBefore, AtEvent, Listings
  <2> QED
    BY <1>t, <2>1 DEF ReadInv, plane
<1>7. CASE ListedInterrupt \/ ListedEvent
  <2>1. lp.next \in DOMAIN log /\ pc = "event" /\ 1..(lp.next - 1) \subseteq seen
    BY <1>7, CurrentIsEvent DEF ListedInterrupt, ListedEvent, AtNewEvent, ReadInv
  <2>2. UNCHANGED <<plane, pc, stream, send, wake>> /\ seen' = seen \cup {lp.next}
    BY <1>7 DEF ListedInterrupt, ListedEvent
  <2>3. lp'.next = lp.next + 1 /\ lp'.end = lp.end
    <3>1. \A e, new : /\ Touch(e, new) \in Listings
                      /\ Touch(e, new).next = lp.next + 1 /\ Touch(e, new).end = lp.end
      BY <1>t, TouchType
    <3>2. \A l \in Listings : \A c : Collect(l, c).next = l.next /\ Collect(l, c).end = l.end
      BY DEF Collect, Listings
    <3> QED
      BY <1>7, <3>1, <3>2 DEF ListedInterrupt, ListedEvent
  <2>4. 1..lp.next \subseteq seen' /\ \A i \in seen' : i \in DOMAIN log /\ 1..i \subseteq seen'
    BY <1>t, <2>1, <2>2 DEF ReadInv
  <2>5. Place' = "event"
    BY <2>1, <2>2 DEF Place, Sends
  <2>6. /\ lp'.next >= 1 /\ lp'.end <= Len(log) /\ lp'.next - 1 = lp.next
        /\ UNCHANGED <<mode, log, stream>> /\ pc' = "event"
    BY <1>t, <1>r, <2>1, <2>2, <2>3 DEF plane
  <2>7. mode = "stream" => stream <= lp'.end + 1 /\ stream # 0
    BY <1>t, <2>1, <2>3 DEF ReadInv, Place, Sends
  <2>8. stream <= Len(log) + 1
    BY DEF ReadInv
  <2> HIDE DEF Place
  <2> QED
    BY <2>4, <2>5, <2>6, <2>7, <2>8 DEF ReadInv
<1>8. CASE ListEnds
  <2>1. UNCHANGED <<plane, seen, stream, lp, send, wake>> /\ pc = "event" /\ pc' = "pending" /\ lp.next > lp.end
    BY <1>8 DEF ListEnds
  <2>2. Place' = "pending"
    BY <2>1 DEF Place, Sends
  <2>3. mode = "stream" => /\ 1..(stream - 1) \subseteq seen
                           /\ stream # 0
    BY <1>t, <2>1 DEF ReadInv, Place, Sends
  <2> QED
    BY <1>t, <2>1, <2>2, <2>3 DEF ReadInv, plane
<1>9. CASE PassOver \/ PendingDone \/ HandleDone
  <2>1. UNCHANGED <<plane, seen, stream, send, wake>> /\ pc \in {"pending", "handle"} /\ pc' \in Caught
    BY <1>9 DEF PassOver, PendingDone, HandleDone, AfterList, Caught
  <2>2. lp'.next >= 1 /\ lp'.end <= Len(log)
    <3>1. [lp EXCEPT !.uses = Tail(@)].next = lp.next /\ [lp EXCEPT !.uses = Tail(@)].end = lp.end
      BY <1>t DEF Listings
    <3>2. CASE PassOver
      <4>1. lp' = [lp EXCEPT !.uses = Tail(@)]
        BY <3>2 DEF PassOver
      <4> QED
        BY <1>r, <3>1, <4>1
    <3>3. CASE PendingDone
      <4>1. lp' = lp
        BY <3>3 DEF PendingDone
      <4> QED
        BY <1>r, <4>1
    <3>4. CASE HandleDone
      <4>1. lp' = NoList
        BY <3>4 DEF HandleDone
      <4> QED
        BY <1>t, <1>0, <4>1
    <3> QED
      BY <1>9, <3>2, <3>3, <3>4
  <2>3. Place \in Caught /\ Place' \in Caught /\ pc' # "event"
    BY <2>1 DEF Place, Sends, Caught
  <2> QED
    BY <1>n, <1>r, <2>1, <2>2, <2>3, StayReadInv DEF plane
<1> QED
  BY <1>1, <1>2, <1>3, <1>4, <1>5, <1>6, <1>7, <1>8, <1>9 DEF Listing

\* The waits keep ReadInv: the stream brings every event in its turn.
LEMMA WaitingReadInv ==
  ASSUME CallsInv, ReadInv, Waiting PROVE ReadInv'
<1>t. /\ TypeOK /\ lp \in Listings /\ stream \in Nat /\ Len(log) \in Nat /\ log \in Seq(Events)
  BY DEF CallsInv, TypeOK
<1>n. [Next]_vars
  BY DEF Next, EventLoop
<1>r. lp.next >= 1 /\ lp.end <= Len(log)
  BY DEF ReadInv
<1>0. NoList.next = 1 /\ NoList.end = 0
  BY DEF NoList
<1>1. CASE StreamTermination \/ IdleTimeout \/ CancelSeen
  <2>1. \E why \in {"idle", "terminated", "cancelled", "error", "died"} : Gone(why)
    BY <1>1, GoneStepEffect DEF GoneStep
  <2>2. UNCHANGED log
    BY <1>1 DEF StreamTermination, IdleTimeout, CancelSeen, Exit, plane
  <2> QED
    BY <1>t, <1>0, <2>1, <2>2, GoneEffect DEF ReadInv
<1>2. CASE StreamSeenBefore \/ StreamInterrupt \/ StreamEvent
  <2>1. AtStream /\ Consume /\ pc' \in {"top", "handle"} /\ UNCHANGED <<plane, lp, send, wake>>
    BY <1>2 DEF StreamSeenBefore, StreamInterrupt, StreamEvent
  <2>2. stream \in DOMAIN log /\ pc = "select" /\ mode = "stream"
    BY <2>1, ArrivedIsEvent
  <2>3. Place = "select" /\ Place' \in {"top", "handle"}
    BY <2>1, <2>2 DEF Place, Sends
  <2>4. stream' = stream + 1 /\ seen' = seen \cup {stream} /\ 1..(stream - 1) \subseteq seen
    BY <2>1, <2>2, <2>3 DEF Consume, ReadInv
  <2>5. 1..stream \subseteq seen' /\ \A i \in seen' : i \in DOMAIN log /\ 1..i \subseteq seen'
    BY <1>t, <2>2, <2>4 DEF ReadInv
  <2> QED
    BY <1>t, <1>r, <2>1, <2>2, <2>3, <2>4, <2>5 DEF ReadInv, plane
<1>3. CASE Disconnected
  <2>1. UNCHANGED <<plane, seen, lp, send>> /\ stream' = 0 /\ pc' = "sleep" /\ wake' = "open"
    BY <1>3 DEF Disconnected, Sleep
  <2>2. Place' = "sleep"
    BY <2>1 DEF Place, Sends
  <2> QED
    BY <1>t, <2>1, <2>2 DEF ReadInv, plane
<1>4. CASE SleepEnds \/ Tick
  <2>1. UNCHANGED <<plane, seen, stream, lp, send>>
    BY <1>4 DEF SleepEnds, Tick
  <2>2. \/ pc = "sleep" /\ pc' = wake /\ wake \in {"open", "list"}
        \/ mode = "list" /\ pc' = "list"
    BY <1>4 DEF SleepEnds, Tick, CallsInv, PlaceInv, Place, Sends
  <2>3. pc' # "event" /\ (mode = "stream" => Place = "sleep" /\ Place' = wake)
    BY <2>2 DEF Place, Sends
  <2> QED
    BY <1>n, <1>r, <2>1, <2>3, StayReadInv DEF plane
<1> QED
  BY <1>1, <1>2, <1>3, <1>4 DEF Waiting

\* Every step keeps ReadInv.
LEMMA NextReadInv ==
  ASSUME CallsInv, ReadInv, [Next]_vars PROVE ReadInv'
<1>t. /\ TypeOK /\ lp \in Listings /\ Len(log) \in Nat /\ SendInv
  BY DEF CallsInv, TypeOK
<1>r. lp.next >= 1 /\ lp.end <= Len(log) /\ lp.end \in Nat
  BY <1>t DEF ReadInv, Listings
<1>l. Len(log) <= Len(log') /\ Len(log') \in Nat
  BY LogOnlyGrows
<1>0. NoList.next = 1 /\ NoList.end = 0
  BY DEF NoList
<1>1. ASSUME UNCHANGED <<pc, seen, stream, lp, send, wake>> PROVE ReadInv'
  <2>1. Place' = Place
    BY <1>1 DEF Place
  <2> QED
    BY <1>1, <1>r, <1>l, <2>1, StayReadInv
<1>2. CASE UNCHANGED vars \/ ControlPlane \/ Goroutines \/ Cancel
  <2>1. UNCHANGED <<pc, seen, stream, lp, send, wake>>
    <3>1. ControlPlane => UNCHANGED loop
      BY <1>t, ControlPlaneEffect
    <3> QED
      BY <1>2, <3>1 DEF vars, loop, Goroutines, ToolReturns, ToolTimesOut, ToolCancelled, AbandonedToolEnds, Cancel
  <2> QED
    BY <1>1, <2>1
<1>3. ASSUME GoneStep PROVE ReadInv'
  <2>1. \E why \in {"idle", "terminated", "cancelled", "error", "died"} : Gone(why)
    BY <1>3, GoneStepEffect
  <2> QED
    BY <1>l, <1>0, <2>1, GoneEffect DEF ReadInv
<1>4. CASE Start
  <2>1. pc = "down" /\ pc' = Connect /\ UNCHANGED <<seen, stream, lp, send, wake, mode>>
    BY <1>4 DEF Start, plane
  <2>2. mode = "stream" => pc' = "open"
    BY <2>1 DEF Connect
  <2>3. pc' \in {"open", "list"} /\ Place' = pc' /\ Place = "down" /\ seen = {} /\ stream = 0
    BY <2>1 DEF Connect, Place, Sends, CallsInv, PlaceInv
  <2> QED
    BY <1>r, <1>l, <2>1, <2>2, <2>3 DEF ReadInv
<1>5. ASSUME NEW c \in Calls, HandleToolUse(c), ~BeginFails(c) PROVE ReadInv'
  <2>1. Handles(c)
    BY <1>5 DEF HandleToolUse, HandleSettled, ResendResult, SkipExternal, AwaitConfirmation,
           ResolveWithoutPost, BeginFresh, BeginRecorded, Allowed
  <2>2. pc \in {"pending", "handle"} /\ pc \notin Sends /\ lp'.next = lp.next /\ lp'.end = lp.end
    BY <1>t, <2>1, HandlesEffect
  <2>3. UNCHANGED <<seen, stream, wake>> /\ (UNCHANGED <<pc, send>> \/ (pc' = "send" /\ send'.back = pc))
    <3>1. UNCHANGED Remaining
      BY <1>5 DEF HandleToolUse, HandleSettled, ResendResult, SkipExternal, AwaitConfirmation,
             ResolveWithoutPost, BeginFresh, BeginRecorded
    <3>2. ASSUME NEW r, StartSend(c, r, "use", pc) PROVE pc' = "send" /\ send'.back = pc
      BY <3>2 DEF StartSend, NoSend
    <3>3. UNCHANGED <<pc, send>> \/ \E r : StartSend(c, r, "use", pc)
      BY <1>5 DEF HandleToolUse, HandleSettled, ResendResult, SkipExternal, AwaitConfirmation,
             ResolveWithoutPost, BeginFresh, BeginRecorded
    <3> QED
      BY <3>1, <3>2, <3>3 DEF Remaining
  <2>4. Place' = Place /\ pc' # "event"
    BY <2>2, <2>3 DEF Place, Sends
  <2> QED
    BY <1>r, <1>l, <2>2, <2>3, <2>4, StayReadInv
<1>6. ASSUME Delivery, ~SendCancelled PROVE ReadInv'
  <2>1. CASE FinishAnswered
    <3>1. /\ UNCHANGED <<seen, stream, lp, send, wake>> /\ pc \in {"select", "sleep"}
          /\ pc' = IF pc = "select" THEN Round ELSE pc
      BY <2>1 DEF FinishAnswered
    <3>2. \/ Place' = Place
          \/ Place = "select" /\ Place' = Round
      BY <3>1 DEF Place, Sends, Round
    <3>3. pc' # "event"
      BY <3>1 DEF Round
    <3> QED
      BY <1>r, <1>l, <3>1, <3>2, <3>3, StayReadInv DEF Round, Caught
  <2>2. CASE FinishUnanswered
    <3>1. /\ UNCHANGED <<seen, stream, lp, wake>> /\ pc \in {"select", "sleep"} /\ pc' = "send"
          /\ send'.back = IF pc = "select" THEN Round ELSE pc
      BY <2>2 DEF FinishUnanswered, StartSend, NoSend
    <3>2. \/ Place' = Place
          \/ Place = "select" /\ Place' = Round
      BY <3>1 DEF Place, Sends, Round
    <3> QED
      BY <1>r, <1>l, <3>1, <3>2, StayReadInv DEF Round, Caught
  <2>3. CASE SendAccepted \/ SendRefused \/ SendConflicts \/ SendFails
    <3>1. pc = "send" /\ UNCHANGED Sending /\ pc' \in Sends /\ send'.back = send.back
      BY <2>3, SendStepEffect
    <3>2. Place' = Place /\ pc' # "event" /\ UNCHANGED <<seen, stream, lp, wake>>
      BY <3>1 DEF Place, Sends, Sending
    <3> QED
      BY <1>r, <1>l, <3>2, StayReadInv
  <2>4. CASE SendEnds
    <3>1. pc = "sent" /\ pc' = send.back /\ UNCHANGED <<seen, stream, lp, wake>>
      BY <2>4 DEF SendEnds
    <3>2. pc' \in {"pending", "handle", "flush", "top", "list", "sleep"}
      BY <1>t, <3>1 DEF SendInv, Sends
    <3>3. Place' = Place /\ pc' # "event"
      BY <3>1, <3>2 DEF Place, Sends
    <3> QED
      BY <1>r, <1>l, <3>1, <3>3, StayReadInv
  <2>5. CASE FlushStarts \/ FlushEnds \/ \E c \in Calls : FlushNext(c)
    <3>1. UNCHANGED <<seen, stream, lp, wake>> /\ pc \in {"top", "flush"}
          /\ (pc' \in {"flush", "select"} \/ (pc' = "send" /\ send'.back = "flush"))
      BY <2>5 DEF FlushStarts, FlushEnds, FlushNext, StartSend, NoSend
    <3>2. Place \in Caught /\ Place' \in Caught /\ pc' # "event"
      BY <3>1 DEF Place, Sends, Caught
    <3> QED
      BY <1>r, <1>l, <3>1, <3>2, StayReadInv
  <2> QED
    BY <1>6, <2>1, <2>2, <2>3, <2>4, <2>5 DEF Delivery
<1> QED
  BY <1>2, <1>3, <1>4, <1>5, <1>6, ListingReadInv, WaitingReadInv DEF Next, EventLoop, GoneStep

\* ReadInv holds at first.
LEMMA InitReadInv == Init => ReadInv
BY DEF Init, ReadInv, NoList, Place, Sends

\* A discard spares every call that is scheduled or answered.
Dropped(hit) ==
  /\ executed' \subseteq executed
  /\ \A c \in Calls : ledger'[c] # ledger[c] =>
       ledger'[c] = "absent" /\ c \notin executed' /\ (c \in hit \/ c \notin rs.scheduled \cup rs.answered)

\* What an interrupt hit, or what was recovered and is stale, can be discarded: none of it
\* is scheduled unless it was hit.
LEMMA DroppedEffect ==
  ASSUME CallsInv, NEW s, SameCalls(rs, s), NEW hit, NEW S, S \subseteq hit \cup StaleRecovered(s), Discard(S)
  PROVE  Dropped(hit)
<1>1. \A c \in StaleRecovered(s) : c \in rs.recovered
  BY DEF StaleRecovered, SameCalls
<1>2. \A c \in StaleRecovered(s) : c \notin rs.scheduled \cup rs.answered
  BY <1>1 DEF CallsInv, Orderly
<1>3. /\ executed' \subseteq executed
      /\ \A c \in Calls : ledger'[c] # ledger[c] => ledger'[c] = "absent" /\ c \in S /\ c \notin executed'
  BY DiscardEffect DEF CallsInv
<1> QED
  BY <1>2, <1>3 DEF Dropped

\* The end of a listing discards stale records and is quiet otherwise.
LEMMA ListEndsEffect ==
  ASSUME CallsInv, ListEnds
  PROVE  Quiet /\ Dropped({})
<1> DEFINE s == ReconcileUnmatchedRequiresAction(rs)
           t == ReconcileRecoveredResults(s)
<1>1. rs \in RunnerStates /\ Orderly(rs)
  BY DEF CallsInv, TypeOK
<1>2. s \in RunnerStates /\ SameCalls(rs, s) /\ s.toolUses = rs.toolUses
  BY <1>1, ReconcileUnmatchedEffect
<1>3. Orderly(s)
  BY <1>1, <1>2, SameCallsOrderly
<1>4. rs' \in {t, DisarmIdle(t)} /\ Discard(StaleRecovered(s))
  BY DEF ListEnds
<1> HIDE DEF s
<1>5. /\ Frame(s, t) /\ t.answered = s.answered /\ t.confirmations = s.confirmations
      /\ t.pendingAsk = s.pendingAsk /\ t.toolUses = s.toolUses
  BY <1>2, <1>3, ReconciledEffect
<1> HIDE DEF t
<1>6. SameCalls(t, DisarmIdle(t)) /\ DisarmIdle(t).toolUses = t.toolUses
  BY <1>5, IdleEffect DEF Frame
<1>7. Quiet
  BY <1>2, <1>4, <1>5, <1>6 DEF Quiet, Frame, SameCalls
<1>8. Dropped({})
  BY <1>2, <1>4, DroppedEffect
<1> QED
  BY <1>7, <1>8

\* What an event that is no interrupt changes.
LEMMA LearnStepEffect ==
  ASSUME CallsInv, ReadInv, NEW e, (ListedEvent /\ e = Current) \/ (StreamEvent /\ e = Arrived)
  PROVE  /\ e \in Events /\ e \in Range(log)
         /\ rs'.queue = rs.queue /\ rs'.active = rs.active
         /\ LET told == IF e.type = "result" THEN {e.call} ELSE {}
                used == IF e.type = "use" /\ e.call \notin rs.answered THEN {e.call} ELSE {}
            IN /\ rs'.answered = rs.answered \cup told
               /\ rs'.toolUses = (rs.toolUses \cup used) \ told
               /\ rs'.pendingAsk = rs.pendingAsk \ told
         /\ \A c \in Calls : rs'.confirmations[c] \in
              {rs.confirmations[c]} \cup (IF e.type = "confirm" /\ e.call = c THEN {e.verdict} ELSE {})
         /\ Dropped({})
<1>1. rs \in RunnerStates /\ Orderly(rs)
  BY DEF CallsInv, TypeOK
<1>2. e \in Events /\ e \in Range(log)
  BY CurrentIsEvent, ArrivedIsEvent DEF ListedEvent, StreamEvent, AtNewEvent, Range, Current, Arrived
<1>3. SameCalls(rs, ObserveSessionState(rs, e))
  BY <1>1, <1>2, ObservedEffect
<1>4. PICK s \in {Observed, Noted} : /\ rs' = Learn(s, e)
                                     /\ s \in {ObserveSessionState(rs, e),
                                            NoteIdleEvent(ReconcileRecoveredResults(ObserveSessionState(rs, e)), e)}
  BY DEF ListedEvent, StreamEvent, Observed, Noted
<1>5. /\ Frame(rs, s) /\ s.answered = rs.answered
      /\ s.confirmations = rs.confirmations /\ s.pendingAsk = rs.pendingAsk
      /\ s.toolUses = IF e.type = "use" /\ e.call \notin rs.answered
                      THEN rs.toolUses \cup {e.call} ELSE rs.toolUses
  <2>1. CASE s = ObserveSessionState(rs, e)
    BY <1>1, <1>2, <2>1, ObservedEffect DEF SameCalls
  <2>2. CASE s = NoteIdleEvent(ReconcileRecoveredResults(ObserveSessionState(rs, e)), e)
    BY <1>1, <1>2, <2>2, NotedEffect
  <2> QED
    BY <1>4, <2>1, <2>2
<1>6. s \in RunnerStates /\ Orderly(s)
  BY <1>5 DEF Frame
<1>7. LET t == Learn(s, e)
          told == IF e.type = "result" THEN {e.call} ELSE {}
      IN /\ Frame(s, t)
         /\ t.answered = s.answered \cup told /\ t.toolUses = s.toolUses \ told
         /\ t.pendingAsk = s.pendingAsk \ told
         /\ \A c \in Calls : t.confirmations[c] \in
              {s.confirmations[c]} \cup (IF e.type = "confirm" /\ e.call = c THEN {e.verdict} ELSE {})
  BY <1>2, <1>6, LearnEffect
<1>8. Dropped({})
  <2>1. CASE ListedEvent
    BY <2>1 DEF ListedEvent, Dropped, history
  <2>2. CASE StreamEvent
    <3>1. Discard(StaleRecovered(ObserveSessionState(rs, Arrived)))
      BY <2>2 DEF StreamEvent
    <3>2. SameCalls(rs, ObserveSessionState(rs, Arrived))
      BY <1>1, <2>2, ArrivedIsEvent, ObservedEffect DEF StreamEvent
    <3> QED
      BY <3>1, <3>2, DroppedEffect
  <2> QED
    BY <2>1, <2>2
<1> QED
  BY <1>2, <1>4, <1>5, <1>7, <1>8 DEF Frame

\* The calls an interrupt settles, by the state before the step.
LEMMA InterruptStepEffect ==
  ASSUME CallsInv, ReadInv, NEW e, NEW eligible \in SUBSET Calls,
         \/ ListedInterrupt /\ e = Current /\ eligible = Eligible
         \/ StreamInterrupt /\ e = Arrived /\ eligible = Calls
  PROVE  LET hit == Interrupted(rs, e.thread, eligible)
         IN /\ e \in Events /\ e \in Range(log) /\ e.type = "interrupt"
            /\ hit \subseteq Calls
            /\ rs'.answered = rs.answered \cup hit /\ rs'.toolUses = rs.toolUses \ hit
            /\ rs'.pendingAsk = rs.pendingAsk \ hit /\ rs'.confirmations = rs.confirmations
            /\ rs'.active = rs.active
            /\ Range(rs'.queue) = {c \in Range(rs.queue) : ~(c \in eligible /\ Matches(c, e.thread))}
            /\ Dropped(hit)
<1>1. rs \in RunnerStates /\ Orderly(rs)
  BY DEF CallsInv, TypeOK
<1>2. e \in Events /\ e \in Range(log) /\ e.type = "interrupt"
  BY CurrentIsEvent, ArrivedIsEvent DEF ListedInterrupt, StreamInterrupt, AtNewEvent, Range, Current, Arrived
<1>3. SameCalls(rs, ObserveSessionState(rs, e))
  BY <1>1, <1>2, ObservedEffect
<1>4. PICK s \in {Observed, Noted} :
         /\ rs' = HandleInterrupt(s, e.thread, eligible)
         /\ s \in {ObserveSessionState(rs, e),
                   NoteIdleEvent(ReconcileRecoveredResults(ObserveSessionState(rs, e)), e)}
         /\ \E S : Discard(S) /\ S \subseteq Interrupted(s, e.thread, eligible)
                                             \cup StaleRecovered(ObserveSessionState(rs, e))
  BY DEF ListedInterrupt, StreamInterrupt, Observed, Noted
<1>5. /\ Frame(rs, s) /\ s.answered = rs.answered
      /\ s.confirmations = rs.confirmations /\ s.pendingAsk = rs.pendingAsk
      /\ s.toolUses = rs.toolUses
  <2>1. CASE s = ObserveSessionState(rs, e)
    BY <1>1, <1>2, <2>1, ObservedEffect DEF SameCalls
  <2>2. CASE s = NoteIdleEvent(ReconcileRecoveredResults(ObserveSessionState(rs, e)), e)
    BY <1>1, <1>2, <2>2, NotedEffect
  <2> QED
    BY <1>4, <2>1, <2>2
<1>6. s \in RunnerStates /\ Interrupted(s, e.thread, eligible) = Interrupted(rs, e.thread, eligible)
  BY <1>5 DEF Frame, Interrupted
<1> DEFINE hit == Interrupted(rs, e.thread, eligible)
<1>7. LET t == HandleInterrupt(s, e.thread, eligible)
      IN /\ hit \in SUBSET Calls
         /\ t.answered = s.answered \cup hit /\ t.toolUses = s.toolUses \ hit
         /\ t.pendingAsk = s.pendingAsk \ hit /\ t.confirmations = s.confirmations
         /\ t.active = s.active
         /\ Range(t.queue) = {c \in Range(s.queue) : ~(c \in eligible /\ Matches(c, e.thread))}
  BY <1>6, HandleInterruptEffect
<1> HIDE DEF hit
<1>8. Dropped(hit)
  BY <1>3, <1>4, <1>6, DroppedEffect DEF hit
<1> QED
  BY <1>2, <1>4, <1>5, <1>7, <1>8 DEF Frame, hit

\* Where the loop goes on with the queue nothing new is queued, and what becomes active is
\* recorded as executed.
LEMMA QueueStepEffect ==
  ASSUME CallsInv, FinishAnswered \/ FinishUnanswered \/ SendEnds
  PROVE  LET told == IF SendEnds /\ send.outcome = "posted" THEN {send.call} ELSE {}
         IN /\ rs'.answered = rs.answered \cup told /\ rs'.toolUses = rs.toolUses \ told
            /\ rs'.pendingAsk = rs.pendingAsk \ told /\ rs'.confirmations = rs.confirmations
            /\ Range(rs'.queue) \subseteq Range(rs.queue)
            /\ rs'.active \in {NoCall, rs.active} \cup Range(rs.queue)
            /\ executed' = executed
               \/ (executed' = executed \cup {rs'.active} /\ rs'.active \in Range(rs.queue))
            /\ \A c \in Calls : ledger'[c] # ledger[c] => ledger[c] # "absent" /\ ledger'[c] # "absent"
            /\ \A c \in Calls : ledger'[c] # ledger[c] /\ ledger'[c] = "sent" =>
                 pc = "sent" /\ send.outcome = "posted" /\ c = send.call
<1>t. /\ TypeOK /\ rs \in RunnerStates /\ Orderly(rs) /\ ledger \in [Calls -> Entries]
  BY DEF CallsInv, TypeOK
<1>0. SendEnds => pc = "sent"
  BY DEF SendEnds
<1>1. CASE FinishAnswered
  <2> DEFINE s == StartNext(ClearActive(rs))
  <2>1. /\ rs' = s /\ executed' = executed \cup ({s.active} \ {NoCall}) /\ ledger' = ledger
        /\ pc # "sent"
    BY <1>1 DEF FinishAnswered
  <2>2. /\ s.answered = rs.answered /\ s.pendingAsk = rs.pendingAsk
        /\ s.confirmations = rs.confirmations /\ s.toolUses = rs.toolUses
        /\ Range(s.queue) \subseteq Range(rs.queue)
        /\ s.active \in {NoCall} \cup Range(rs.queue)
    BY <1>t, FinishEffect
  <2> HIDE DEF s
  <2> QED
    BY <1>0, <2>1, <2>2
<1>2. CASE FinishUnanswered
  <2> DEFINE s == ClearActive(rs)
             t == [s EXCEPT !.pendingResults[exec.call] = exec.result]
  <2>1. /\ rs' = IF HasStore THEN t ELSE s
        /\ Persist(exec.call, exec.result) /\ executed' = executed /\ pc # "sent"
        /\ exec.result # NoResult
    BY <1>2 DEF FinishUnanswered, history
  <2>2. exec.call \in Calls /\ exec.result \in Results
    BY <1>t, <2>1 DEF CallsInv, TypeOK, ExecInv, ExecStates
  <2>3. exec.result \in Entries /\ exec.result \notin {"absent", "sent"}
    BY <2>2 DEF Entries, Results, UnknownResult
  <2>4. ledger' = ledger \/ (ledger[exec.call] # "absent" /\ ledger' = [ledger EXCEPT ![exec.call] = exec.result])
    BY <1>t, <2>1, <2>2, <2>3, PersistEffect
  <2>5. /\ s \in RunnerStates /\ s.active = NoCall
        /\ s.answered = rs.answered /\ s.pendingAsk = rs.pendingAsk
        /\ s.confirmations = rs.confirmations /\ s.toolUses = rs.toolUses /\ s.queue = rs.queue
    BY <1>t, ClearActiveEffect
  <2> HIDE DEF s
  <2>6. /\ t.active = s.active /\ t.answered = s.answered /\ t.pendingAsk = s.pendingAsk
        /\ t.confirmations = s.confirmations /\ t.toolUses = s.toolUses /\ t.queue = s.queue
    BY <2>5 DEF RunnerStates
  <2> HIDE DEF t
  <2>7. \A c \in Calls : ledger'[c] # ledger[c] =>
            ledger[c] # "absent" /\ ledger'[c] # "absent" /\ ledger'[c] # "sent"
    BY <1>t, <2>3, <2>4
  <2>8. /\ rs'.active = NoCall /\ rs'.answered = rs.answered /\ rs'.pendingAsk = rs.pendingAsk
        /\ rs'.confirmations = rs.confirmations /\ rs'.toolUses = rs.toolUses /\ rs'.queue = rs.queue
    BY <2>1, <2>5, <2>6
  <2> QED
    BY <1>0, <2>1, <2>7, <2>8
<1>3. CASE SendEnds
  <2>1. /\ pc = "sent" /\ Become(NextState)
        /\ (send.outcome = "posted" /\ Persist(send.call, "sent")) \/ UNCHANGED ledger
    BY <1>3 DEF SendEnds, NextState
  <2>2. LET t == NextState
            told == IF send.outcome = "posted" THEN {send.call} ELSE {}
        IN /\ t \in RunnerStates
           /\ t.answered = rs.answered \cup told /\ t.toolUses = rs.toolUses \ told
           /\ t.pendingAsk = rs.pendingAsk \ told /\ t.confirmations = rs.confirmations
           /\ Range(t.queue) \subseteq Range(rs.queue)
           /\ rs.active # NoCall => t.active = rs.active
           /\ rs.active = NoCall => t.active \in {NoCall} \cup Range(rs.queue)
    BY <2>1, NextStateEffect
  <2>3. /\ rs' = NextState
        /\ \/ executed' = executed
           \/ rs.active = NoCall /\ NextState.active \in Calls /\ executed' = executed \cup {NextState.active}
    BY <2>1, <2>2, BecomeEffect
  <2>4. send.call \in Calls /\ "sent" \in Entries
    BY <2>1 DEF CallsInv, SendInv, Sends, Entries
  <2>5. \A c \in Calls : ledger'[c] # ledger[c] =>
            ledger[c] # "absent" /\ ledger'[c] # "absent" /\ send.outcome = "posted" /\ c = send.call
    BY <1>t, <2>1, <2>4, PersistEffect
  <2>6. NoCall \notin Calls
    BY NamesAssumption
  <2> QED
    BY <1>3, <2>1, <2>2, <2>3, <2>5, <2>6
<1> QED
  BY <1>1, <1>2, <1>3

\* A call is queued, and maybe started, only when it is recorded and allowed.
LEMMA BeginFreshEffect ==
  ASSUME CallsInv, NEW c \in Calls, BeginFresh(c)
  PROVE  /\ rs'.answered = rs.answered /\ rs'.toolUses = rs.toolUses
         /\ rs'.pendingAsk = rs.pendingAsk /\ rs'.confirmations = rs.confirmations
         /\ Range(rs'.queue) \subseteq Range(rs.queue) \cup {c}
         /\ rs'.active \in {NoCall, rs.active, c} \cup Range(rs.queue)
         /\ executed' = executed
            \/ (executed' = executed \cup {rs'.active} /\ rs'.active \in Range(rs.queue) \cup {c})
         /\ ledger[c] = "absent" /\ Decision(c) = "allow"
         /\ HasStore => ledger'[c] = "started"
         /\ \A d \in Calls \ {c} : ledger'[d] = ledger[d]
         /\ ~HasStore => ledger' = ledger
<1>t. /\ TypeOK /\ rs \in RunnerStates /\ Orderly(rs) /\ ledger \in [Calls -> Entries]
  BY DEF CallsInv, TypeOK
<1>1. /\ Become(Schedule(rs, c)) /\ ledger[c] = "absent" /\ Decision(c) = "allow"
      /\ ledger' = IF HasStore THEN [ledger EXCEPT ![c] = "started"] ELSE ledger
  BY DEF BeginFresh, Allowed
<1>2. LET t == Schedule(rs, c)
      IN /\ t \in RunnerStates
         /\ t.answered = rs.answered /\ t.pendingAsk = rs.pendingAsk
         /\ t.confirmations = rs.confirmations /\ t.toolUses = rs.toolUses
         /\ Range(t.queue) \subseteq Range(rs.queue) \cup {c}
         /\ rs.active # NoCall => t.active = rs.active
         /\ rs.active = NoCall => t.active \in {NoCall} \cup (Range(rs.queue) \cup {c})
  BY <1>t, ScheduleEffect
<1>3. /\ rs' = Schedule(rs, c)
      /\ \/ executed' = executed
         \/ rs.active = NoCall /\ Schedule(rs, c).active \in Calls
            /\ executed' = executed \cup {Schedule(rs, c).active}
  BY <1>1, <1>2, BecomeEffect
<1>4. NoCall \notin Calls
  BY NamesAssumption
<1>5. /\ HasStore => ledger'[c] = "started"
      /\ \A d \in Calls \ {c} : ledger'[d] = ledger[d]
      /\ ~HasStore => ledger' = ledger
  BY <1>1, <1>t
<1> QED
  BY <1>1, <1>2, <1>3, <1>4, <1>5

\* handleToolUse where it does not queue the call.
LEMMA SettleStepEffect ==
  ASSUME CallsInv, NEW c \in Calls, AwaitConfirmation(c) \/ ResolveWithoutPost(c) \/ BeginRecorded(c)
  PROVE  LET told == IF AwaitConfirmation(c) \/ (BeginRecorded(c) /\ ledger[c] # "sent") THEN {} ELSE {c}
             asked == IF AwaitConfirmation(c) THEN {c} ELSE {}
         IN /\ rs'.queue = rs.queue /\ rs'.active = rs.active
            /\ rs'.answered = rs.answered \cup told /\ rs'.toolUses = rs.toolUses \ told
            /\ rs'.pendingAsk = (rs.pendingAsk \cup asked) \ told
            /\ rs'.confirmations = rs.confirmations
            /\ executed' = executed
            /\ \A d \in Calls : ledger'[d] # ledger[d] => d = c /\ ledger[d] # "absent"
                                                          /\ ledger'[d] \notin {"absent", "sent"}
<1>t. /\ TypeOK /\ rs \in RunnerStates /\ Orderly(rs) /\ ledger \in [Calls -> Entries]
  BY DEF CallsInv, TypeOK
<1>1. CASE AwaitConfirmation(c)
  <2>1. rs' = [rs EXCEPT !.pendingAsk = @ \cup {c}] /\ ledger' = ledger /\ executed' = executed
    BY <1>1 DEF AwaitConfirmation, history
  <2>2. /\ rs'.answered = rs.answered
        /\ rs'.confirmations = rs.confirmations /\ rs'.toolUses = rs.toolUses
        /\ rs'.queue = rs.queue /\ rs'.active = rs.active
        /\ rs'.pendingAsk = rs.pendingAsk \cup {c}
    BY <1>t, <2>1, AwaitEffect
  <2> QED
    BY <1>1, <2>1, <2>2
<1>2. CASE ResolveWithoutPost(c)
  <2>1. rs' = MarkAnswered(rs, c) /\ ledger' = ledger /\ executed' = executed
        /\ Decision(c) = "deny" /\ ~AwaitConfirmation(c) /\ ~BeginRecorded(c)
    BY <1>2 DEF ResolveWithoutPost, history, AwaitConfirmation, BeginRecorded, Allowed
  <2>2. /\ rs'.queue = rs.queue /\ rs'.active = rs.active
        /\ rs'.answered = rs.answered \cup {c} /\ rs'.toolUses = rs.toolUses \ {c}
        /\ rs'.pendingAsk = rs.pendingAsk \ {c} /\ rs'.confirmations = rs.confirmations
    BY <1>t, <2>1, MarkAnsweredEffect DEF Frame
  <2> QED
    BY <2>1, <2>2
<1>3. CASE BeginRecorded(c)
  <2> DEFINE r == SettleStarted(ledger)[c]
  <2>1. /\ ledger[c] # "absent" /\ ledger' = [ledger EXCEPT ![c] = r] /\ executed' = executed
        /\ rs' = IF r = "sent" THEN MarkAnswered(rs, c) ELSE [rs EXCEPT !.pendingResults[c] = r]
        /\ ~AwaitConfirmation(c) /\ c \notin rs.answered \cup rs.scheduled
    BY <1>3 DEF BeginRecorded, history, AwaitConfirmation, Allowed, Untouched
  <2>2. (r = "sent" <=> ledger[c] = "sent") /\ r \in {"sent"} \cup Results
    BY <1>t, <2>1, SettledEntry
  <2> HIDE DEF r
  <2>3. CASE r = "sent"
    <3>1. rs' = MarkAnswered(rs, c) /\ ledger' = ledger /\ ledger[c] = "sent"
      BY <1>t, <2>1, <2>2, <2>3
    <3>2. /\ rs'.queue = rs.queue /\ rs'.active = rs.active
          /\ rs'.answered = rs.answered \cup {c} /\ rs'.toolUses = rs.toolUses \ {c}
          /\ rs'.pendingAsk = rs.pendingAsk \ {c} /\ rs'.confirmations = rs.confirmations
      BY <1>t, <3>1, MarkAnsweredEffect DEF Frame
    <3> QED
      BY <2>1, <3>1, <3>2
  <2>4. CASE r # "sent"
    <3>1. r \in Results /\ r \notin {"absent", "sent"}
      BY <2>2, <2>4 DEF Results, UnknownResult
    <3>2. /\ rs'.queue = rs.queue /\ rs'.active = rs.active
          /\ rs'.answered = rs.answered /\ rs'.toolUses = rs.toolUses
          /\ rs'.pendingAsk = rs.pendingAsk /\ rs'.confirmations = rs.confirmations
      <4> DEFINE t == [rs EXCEPT !.pendingResults[c] = r]
      <4>1. rs' = t
        BY <2>1, <2>4
      <4>2. /\ t.answered = rs.answered
            /\ t.confirmations = rs.confirmations /\ t.toolUses = rs.toolUses
            /\ t.queue = rs.queue /\ t.active = rs.active
            /\ t.pendingAsk = rs.pendingAsk
        BY <1>t, <2>1, <3>1, HoldResultEffect
      <4> HIDE DEF t
      <4> QED
        BY <4>1, <4>2
    <3>3. \A d \in Calls : ledger'[d] # ledger[d] => d = c /\ ledger[d] # "absent" /\ ledger'[d] \notin {"absent", "sent"}
      BY <1>t, <2>1, <3>1
    <3> QED
      BY <1>3, <2>1, <2>2, <2>4, <3>2, <3>3
  <2> QED
    BY <2>3, <2>4
<1> QED
  BY <1>1, <1>2, <1>3

\* What a runner knows when it starts.
LEMMA StartEffect ==
  ASSUME CallsInv, Start
  PROVE  /\ Range(rs'.queue) = {} /\ rs'.active = NoCall /\ rs'.toolUses = {} /\ rs'.pendingAsk = {}
         /\ rs'.answered = {c \in Calls : ledger[c] = "sent"}
         /\ rs'.confirmations = [c \in Calls |-> "none"]
         /\ executed' = executed
         /\ \A c \in Calls : /\ ledger'[c] = "absent" <=> ledger[c] = "absent"
                             /\ ledger'[c] = "sent" <=> ledger[c] = "sent"
<1>1. ledger \in [Calls -> Entries]
  BY DEF CallsInv, TypeOK
<1>2. SettleStarted(ledger) \in [Calls -> Entries]
      /\ \A c \in Calls : /\ SettleStarted(ledger)[c] = "absent" <=> ledger[c] = "absent"
                          /\ SettleStarted(ledger)[c] = "sent" <=> ledger[c] = "sent"
  BY <1>1, SettledEntry
<1>3. ledger' = SettleStarted(ledger) /\ rs' = Recovered(SettleStarted(ledger)) /\ executed' = executed
  BY DEF Start, history
<1> QED
  BY <1>2, <1>3, RecoveredEffect

\* With a store, every queued call is recorded and has not run since; every call that ran
\* is recorded.
LedgerInv ==
  HasStore =>
    /\ \A c \in Range(rs.queue) : ledger[c] # "absent" /\ c \notin executed
    /\ \A c \in executed : ledger[c] # "absent"

\* A record that says sent, and a send that ended well, have their result in the log.
DeliveredInv ==
  /\ \A c \in Calls : ledger[c] = "sent" => HasResult(c)
  /\ pc = "sent" /\ send.outcome = "posted" => HasResult(send.call)

\* The call may run.
Consented(c) == \/ Permission[c] = "allow"
                \/ Permission[c] = "ask" /\ ConfirmEvent(c, "allow") \in Range(log)

\* A confirmation the runner knows is in the log; what is queued may run.
ConsentInv ==
  /\ \A c \in Calls : rs.confirmations[c] # "none" => ConfirmEvent(c, rs.confirmations[c]) \in Range(log)
  /\ \A c \in Range(rs.queue) : Consented(c)

\* The types of what the three invariants speak of.
LEMMA QueueTypes ==
  ASSUME CallsInv
  PROVE  /\ Range(rs.queue) \subseteq Calls /\ executed \subseteq Calls
         /\ rs.confirmations \in [Calls -> Verdicts] /\ rs.active \notin Range(rs.queue)
         /\ Range(rs.queue) \subseteq rs.scheduled /\ NoCall \notin Calls
BY NamesAssumption DEF CallsInv, TypeOK, Orderly, RunnerStates, Range

-----------------------------------------------------------------------------
(* What is recorded, delivered and allowed                                 *)

\* The three invariants hold at first.
LEMMA InitLedgerInv == Init => LedgerInv /\ DeliveredInv /\ ConsentInv
BY DEF Init, LedgerInv, DeliveredInv, ConsentInv, FreshState, Range

\* Every step keeps LedgerInv.
LEMMA NextLedgerInv ==
  ASSUME CallsInv, ReadInv, LedgerInv, [Next]_vars PROVE LedgerInv'
<1> SUFFICES ASSUME HasStore
             PROVE  /\ \A c \in Range(rs'.queue) : ledger'[c] # "absent" /\ c \notin executed'
                    /\ \A c \in executed' : ledger'[c] # "absent"
  BY DEF LedgerInv
<1>i. /\ \A c \in Range(rs.queue) : ledger[c] # "absent" /\ c \notin executed
      /\ \A c \in executed : ledger[c] # "absent"
  BY DEF LedgerInv
<1>t. /\ Range(rs.queue) \subseteq Calls /\ executed \subseteq Calls
      /\ Range(rs.queue) \subseteq rs.scheduled
  BY QueueTypes
<1>t2. Range(rs'.queue) \subseteq Calls /\ executed' \subseteq Calls /\ rs'.active \notin Range(rs'.queue)
  <2>1. CallsInv'
    BY NextCallsInv
  <2> QED
    BY <2>1 DEF CallsInv, TypeOK, Orderly, RunnerStates, Range
<1>1. CASE QuietStep
  BY <1>1, <1>i, QuietStepEffect DEF Quiet
<1>2. CASE GoneStep
  <2>1. Range(rs'.queue) = {} /\ executed' = executed
    BY <1>2, GoneStepEffect, GoneEffect
  <2>2. \A c \in Calls : ledger[c] # "absent" => ledger'[c] # "absent"
    BY <1>2, GoneStepEffect
  <2> QED
    BY <1>i, <1>t, <2>1, <2>2
<1>3. ASSUME Range(rs'.queue) \subseteq Range(rs.queue), NEW hit, Dropped(hit), hit \cap Range(rs'.queue) = {}
      PROVE  /\ \A c \in Range(rs'.queue) : ledger'[c] # "absent" /\ c \notin executed'
             /\ \A c \in executed' : ledger'[c] # "absent"
  BY <1>3, <1>i, <1>t DEF Dropped
<1>4. CASE Start
  BY <1>4, <1>i, <1>t, StartEffect
<1>5. CASE ListEnds
  BY <1>3, <1>5, ListEndsEffect DEF Quiet
<1>6. CASE ListedEvent \/ StreamEvent
  <2>1. \E e : (ListedEvent /\ e = Current) \/ (StreamEvent /\ e = Arrived)
    BY <1>6
  <2>2. rs'.queue = rs.queue /\ Dropped({})
    BY <2>1, LearnStepEffect
  <2> QED
    BY <1>3, <2>2
<1>7. CASE ListedInterrupt \/ StreamInterrupt
  <2>1. PICK e, eligible : \/ ListedInterrupt /\ e = Current /\ eligible = Eligible
                           \/ StreamInterrupt /\ e = Arrived /\ eligible = Calls
    BY <1>7
  <2>2. eligible \in SUBSET Calls
    BY <2>1 DEF Eligible, CallsInv, TypeOK, Listings
  <2>3. /\ Range(rs'.queue) = {c \in Range(rs.queue) : ~(c \in eligible /\ Matches(c, e.thread))}
        /\ Dropped(Interrupted(rs, e.thread, eligible))
    BY <2>1, <2>2, InterruptStepEffect
  <2>4. Interrupted(rs, e.thread, eligible) \cap Range(rs'.queue) = {}
    BY <2>3 DEF Interrupted
  <2> QED
    BY <1>3, <2>3, <2>4
<1>8. ASSUME NEW c \in Calls, BeginFresh(c)
      PROVE  /\ \A d \in Range(rs'.queue) : ledger'[d] # "absent" /\ d \notin executed'
             /\ \A d \in executed' : ledger'[d] # "absent"
  <2>1. /\ Range(rs'.queue) \subseteq Range(rs.queue) \cup {c}
        /\ executed' = executed
           \/ (executed' = executed \cup {rs'.active} /\ rs'.active \in Range(rs.queue) \cup {c})
        /\ ledger[c] = "absent" /\ ledger'[c] = "started"
        /\ \A d \in Calls \ {c} : ledger'[d] = ledger[d]
    BY <1>8, BeginFreshEffect
  <2> QED
    BY <1>i, <1>t, <1>t2, <2>1
<1>9. ASSUME NEW c \in Calls, AwaitConfirmation(c) \/ ResolveWithoutPost(c) \/ BeginRecorded(c)
      PROVE  /\ \A d \in Range(rs'.queue) : ledger'[d] # "absent" /\ d \notin executed'
             /\ \A d \in executed' : ledger'[d] # "absent"
  <2>1. /\ rs'.queue = rs.queue /\ executed' = executed
        /\ \A d \in Calls : ledger'[d] # ledger[d] => ledger'[d] # "absent"
    BY <1>9, SettleStepEffect
  <2> QED
    BY <1>i, <1>t, <2>1
<1>10. CASE FinishAnswered \/ FinishUnanswered \/ SendEnds
  <2>1. /\ Range(rs'.queue) \subseteq Range(rs.queue)
        /\ executed' = executed
           \/ (executed' = executed \cup {rs'.active} /\ rs'.active \in Range(rs.queue))
        /\ \A c \in Calls : ledger'[c] # ledger[c] => ledger'[c] # "absent"
    BY <1>10, QueueStepEffect
  <2> QED
    BY <1>i, <1>t, <1>t2, <2>1
<1> QED
  BY <1>1, <1>2, <1>4, <1>5, <1>6, <1>7, <1>8, <1>9, <1>10, StepKinds DEF LoudStep

\* Where a result is taken for delivered it is in the log.
LEMMA PostedIsInLog ==
  ASSUME CallsInv, SendAccepted
  PROVE  HasResult(send.call)'
<1>1. log \in Seq(Events) /\ pc = "send" /\ send'.call = send.call
  BY DEF CallsInv, TypeOK, SendAccepted, Answered, PostStates
<1>2. CASE HasResult(send.call) /\ UNCHANGED log
  BY <1>1, <1>2 DEF HasResult
<1>3. CASE log' = Append(log, ResultEvent(send.call, send.result))
  <2>1. Len(log) + 1 \in DOMAIN log' /\ log'[Len(log) + 1] = ResultEvent(send.call, send.result)
    BY <1>1, <1>3
  <2>2. ResultEvent(send.call, send.result).type = "result" /\ ResultEvent(send.call, send.result).call = send.call
    BY DEF ResultEvent
  <2> QED
    BY <1>1, <2>1, <2>2 DEF HasResult
<1> QED
  BY <1>2, <1>3 DEF SendAccepted

\* Every step keeps DeliveredInv: the ledger says sent only where a send ended well.
LEMMA NextDeliveredInv ==
  ASSUME CallsInv, ReadInv, DeliveredInv, [Next]_vars PROVE DeliveredInv'
<1>g. \A c \in Calls : HasResult(c) => HasResult(c)'
  BY LogOnlyGrows
<1>i. \A c \in Calls : ledger[c] = "sent" => HasResult(c)
  BY DEF DeliveredInv
<1>1. \A c \in Calls : ledger'[c] = "sent" =>
        ledger[c] = "sent" \/ (pc = "sent" /\ send.outcome = "posted" /\ c = send.call)
  <2>1. CASE QuietStep
    BY <2>1, QuietStepEffect
  <2>2. CASE GoneStep
    BY <2>2, GoneStepEffect
  <2>3. CASE Start
    BY <2>3, StartEffect
  <2>4. CASE ListEnds
    BY <2>4, ListEndsEffect DEF Dropped
  <2>5. CASE ListedEvent \/ StreamEvent
    <3>1. \E e : (ListedEvent /\ e = Current) \/ (StreamEvent /\ e = Arrived)
      BY <2>5
    <3> QED
      BY <3>1, LearnStepEffect DEF Dropped
  <2>6. CASE ListedInterrupt \/ StreamInterrupt
    <3>1. PICK e, eligible : \/ ListedInterrupt /\ e = Current /\ eligible = Eligible
                             \/ StreamInterrupt /\ e = Arrived /\ eligible = Calls
      BY <2>6
    <3>2. eligible \in SUBSET Calls
      BY <3>1 DEF Eligible, CallsInv, TypeOK, Listings
    <3>3. Dropped(Interrupted(rs, e.thread, eligible))
      BY <3>1, <3>2, InterruptStepEffect
    <3> QED
      BY <3>3 DEF Dropped
  <2>7. ASSUME NEW c \in Calls, BeginFresh(c)
        PROVE  \A d \in Calls : ledger'[d] = "sent" => ledger[d] = "sent"
    BY <2>7, BeginFreshEffect
  <2>8. ASSUME NEW c \in Calls, AwaitConfirmation(c) \/ ResolveWithoutPost(c) \/ BeginRecorded(c)
        PROVE  \A d \in Calls : ledger'[d] = "sent" => ledger[d] = "sent"
    BY <2>8, SettleStepEffect
  <2>9. CASE FinishAnswered \/ FinishUnanswered \/ SendEnds
    BY <2>9, QueueStepEffect
  <2> QED
    BY <2>1, <2>2, <2>3, <2>4, <2>5, <2>6, <2>7, <2>8, <2>9, StepKinds DEF LoudStep
<1>2. \A c \in Calls : ledger'[c] = "sent" => HasResult(c)'
  BY <1>g, <1>i, <1>1 DEF DeliveredInv
<1>3. ASSUME pc' = "sent", send'.outcome = "posted" PROVE HasResult(send.call)' /\ send'.call = send.call
  <2>0. send \in PostStates /\ send.call \in Calls \cup {NoCall}
    BY DEF CallsInv, TypeOK, PostStates
  <2>1. CASE SendAccepted
    BY <2>1, PostedIsInLog DEF SendAccepted, Answered
  <2>2. CASE SendRefused \/ SendConflicts \/ SendFails
    <3>1. [send EXCEPT !.outcome = "refused"].outcome = "refused" /\ [send EXCEPT !.outcome = "kept"].outcome = "kept"
      BY <2>0 DEF PostStates
    <3> QED
      BY <1>3, <2>2, <3>1 DEF SendRefused, SendConflicts, SendFails, Answered, RetryOrKeep
  <2>3. CASE UNCHANGED <<pc, send>>
    <3>1. pc = "sent" /\ send.outcome = "posted" /\ send.call \in Calls
      BY <1>3, <2>3 DEF CallsInv, SendInv, Sends
    <3> QED
      BY <1>g, <2>3, <3>1 DEF DeliveredInv
  <2>4. ASSUME pc' # "sent" PROVE FALSE
    BY <1>3, <2>4
  <2>5. CASE QuietListing \/ QuietFlush \/ QuietWait \/ GoneStep
    <3>1. CASE GoneStep
      BY <2>4, <3>1, GoneStepEffect, GoneEffect
    <3>2. CASE QuietFlush \/ QuietWait
      <4>1. pc # "sleep" \/ wake # "sent"
        BY DEF CallsInv, PlaceInv, Place, Sends
      <4> QED
        BY <2>4, <3>2, <4>1 DEF QuietFlush, FlushStarts, FlushEnds, FlushNext, StartSend,
               QuietWait, StreamSeenBefore, Disconnected, Sleep, SleepEnds, Tick
    <3>3. CASE QuietListing
      BY <2>4, <3>3 DEF QuietListing, StreamOpens, StreamFails, Sleep, EventsListed, ReconcileFails, PollFails,
             SeenBefore, AtEvent, PassOver, PendingDone, HandleDone, AfterList
    <3> QED
      BY <2>5, <3>1, <3>2, <3>3
  <2>6. CASE QuietHandling \/ \E c \in Calls : AwaitConfirmation(c) \/ ResolveWithoutPost(c) \/ BeginFresh(c) \/ BeginRecorded(c)
    <3>1. PICK c \in Calls : \/ HandleSettled(c) \/ ResendResult(c) \/ SkipExternal(c)
                             \/ AwaitConfirmation(c) \/ ResolveWithoutPost(c) \/ BeginFresh(c) \/ BeginRecorded(c)
      BY <2>6 DEF QuietHandling
    <3>2. UNCHANGED <<pc, send>> \/ pc' = "send"
      BY <3>1 DEF HandleSettled, ResendResult, SkipExternal, AwaitConfirmation, ResolveWithoutPost, BeginFresh,
             BeginRecorded, StartSend
    <3> QED
      BY <2>3, <2>4, <3>2
  <2>7. CASE Goroutines \/ ControlPlane \/ Cancel \/ UNCHANGED vars
    <3>1. UNCHANGED <<pc, send>>
      <4>1. ControlPlane => UNCHANGED loop
        BY ControlPlaneEffect DEF CallsInv
      <4> QED
        BY <2>7, <4>1 DEF Goroutines, ToolReturns, ToolTimesOut, ToolCancelled, AbandonedToolEnds, Cancel,
               loop, vars
    <3> QED
      BY <2>3, <3>1
  <2>8. CASE Start \/ ListedInterrupt \/ ListedEvent \/ ListEnds \/ StreamInterrupt \/ StreamEvent
    BY <2>4, <2>8 DEF Start, Connect, ListedInterrupt, ListedEvent, AtNewEvent, AtEvent, ListEnds, StreamInterrupt, StreamEvent
  <2>9. CASE FinishAnswered \/ FinishUnanswered
    BY <2>4, <2>9 DEF FinishAnswered, FinishUnanswered, StartSend, Round
  <2>10. CASE SendEnds
    <3>1. send.back # "sent" /\ pc' = send.back
      BY <2>10 DEF SendEnds, CallsInv, SendInv, Sends
    <3> QED
      BY <2>4, <3>1
  <2> QED
    BY <2>1, <2>2, <2>5, <2>6, <2>7, <2>8, <2>9, <2>10, StepKinds
       DEF LoudStep, QuietStep, QuietSend
<1> QED
  BY <1>2, <1>3 DEF DeliveredInv

\* Every step keeps ConsentInv.
LEMMA NextConsentInv ==
  ASSUME CallsInv, ReadInv, ConsentInv, [Next]_vars PROVE ConsentInv'
<1>g. Range(log) \subseteq Range(log') /\ \A c : Consented(c) => Consented(c)'
  BY LogOnlyGrows DEF Consented
<1>i. /\ \A c \in Calls : rs.confirmations[c] # "none" => ConfirmEvent(c, rs.confirmations[c]) \in Range(log)
      /\ \A c \in Range(rs.queue) : Consented(c)
  BY DEF ConsentInv
<1>q. ASSUME rs'.confirmations = rs.confirmations \/ rs'.confirmations = [c \in Calls |-> "none"],
             Range(rs'.queue) \subseteq Range(rs.queue)
      PROVE  ConsentInv'
  <2>1. \A c \in Calls : rs'.confirmations[c] \in {"none", rs.confirmations[c]}
    BY <1>q
  <2>2. \A c \in Calls : rs'.confirmations[c] # "none" => ConfirmEvent(c, rs'.confirmations[c]) \in Range(log')
    BY <1>g, <1>i, <2>1
  <2>3. \A c \in Range(rs'.queue) : Consented(c)'
    BY <1>g, <1>i, <1>q
  <2> QED
    BY <2>2, <2>3 DEF ConsentInv, Consented
<1>1. CASE QuietStep
  BY <1>q, <1>1, QuietStepEffect DEF Quiet
<1>2. CASE GoneStep
  BY <1>q, <1>2, GoneStepEffect, GoneEffect
<1>4. CASE Start
  BY <1>q, <1>4, StartEffect
<1>5. CASE ListEnds
  BY <1>q, <1>5, ListEndsEffect DEF Quiet
<1>6. CASE ListedEvent \/ StreamEvent
  <2>1. PICK e : (ListedEvent /\ e = Current) \/ (StreamEvent /\ e = Arrived)
    BY <1>6
  <2>2. /\ e \in Events /\ e \in Range(log) /\ rs'.queue = rs.queue
        /\ \A c \in Calls : rs'.confirmations[c] \in
             {rs.confirmations[c]} \cup (IF e.type = "confirm" /\ e.call = c THEN {e.verdict} ELSE {})
    BY <2>1, LearnStepEffect
  <2>3. e.type = "confirm" => e = ConfirmEvent(e.call, e.verdict)
    BY <2>2, EventFields
  <2>4. \A c \in Calls : rs'.confirmations[c] # "none" => ConfirmEvent(c, rs'.confirmations[c]) \in Range(log')
    BY <1>g, <1>i, <2>2, <2>3
  <2>5. \A c \in Range(rs'.queue) : Consented(c)'
    BY <1>g, <1>i, <2>2
  <2> QED
    BY <2>4, <2>5 DEF ConsentInv, Consented
<1>7. CASE ListedInterrupt \/ StreamInterrupt
  <2>1. PICK e, eligible : \/ ListedInterrupt /\ e = Current /\ eligible = Eligible
                           \/ StreamInterrupt /\ e = Arrived /\ eligible = Calls
    BY <1>7
  <2>2. eligible \in SUBSET Calls
    BY <2>1 DEF Eligible, CallsInv, TypeOK, Listings
  <2>3. /\ Range(rs'.queue) = {c \in Range(rs.queue) : ~(c \in eligible /\ Matches(c, e.thread))}
        /\ rs'.confirmations = rs.confirmations
    BY <2>1, <2>2, InterruptStepEffect
  <2> QED
    BY <1>q, <2>3
<1>8. ASSUME NEW c \in Calls, BeginFresh(c) PROVE ConsentInv'
  <2>1. /\ Range(rs'.queue) \subseteq Range(rs.queue) \cup {c}
        /\ rs'.confirmations = rs.confirmations /\ Decision(c) = "allow"
    BY <1>8, BeginFreshEffect
  <2>2. Consented(c)
    BY <1>i, <2>1 DEF Consented, Decision
  <2>3. \A d \in Calls : rs'.confirmations[d] # "none" => ConfirmEvent(d, rs'.confirmations[d]) \in Range(log')
    BY <1>g, <1>i, <2>1
  <2>4. \A d \in Range(rs'.queue) : Consented(d)'
    BY <1>g, <1>i, <2>1, <2>2
  <2> QED
    BY <2>3, <2>4 DEF ConsentInv, Consented
<1>9. ASSUME NEW c \in Calls, AwaitConfirmation(c) \/ ResolveWithoutPost(c) \/ BeginRecorded(c)
      PROVE  ConsentInv'
  BY <1>q, <1>9, SettleStepEffect
<1>10. CASE FinishAnswered \/ FinishUnanswered \/ SendEnds
  BY <1>q, <1>10, QueueStepEffect
<1> QED
  BY <1>1, <1>2, <1>4, <1>5, <1>6, <1>7, <1>8, <1>9, <1>10, StepKinds DEF LoudStep

\* The loop has seen the use of c.
SeenUse(c) == \E i \in seen : log[i] = UseEvent(c)

\* The calls the loop has in hand.
Known == ({rs.active} \ {NoCall}) \cup Range(rs.queue) \cup rs.toolUses \cup rs.pendingAsk
         \cup Range(lp.uses) \cup lp.replayed \cup (IF Place = "handle" THEN todo ELSE {})

\* In a listing the calls collected so far are the ones used so far: an interrupt in a
\* reconciliation hits these and no others.
ReplayInv ==
  pc = "event" =>
    /\ \A c \in lp.replayed : \E i \in 1..(lp.next - 1) : log[i] = UseEvent(c)
    /\ mode = "stream" => \A i \in 1..(lp.next - 1) : log[i].type = "use" => log[i].call \in lp.replayed

\* The loop knows of no call it has not seen used, forgets none, gives up only on resolved
\* ones, and has given up on all that a seen interrupt hits.
InterruptInv ==
  /\ \A c \in Known : SeenUse(c)
  /\ \A c \in Calls : SeenUse(c) => c \in rs.toolUses \cup rs.answered
  /\ \A c \in rs.answered : Resolved(c)
  /\ ReplayInv
  /\ \A c \in Calls : InterruptedIn(seen, c) => c \in rs.answered /\ c \notin Range(rs.queue)

\* InterruptInv holds at first.
LEMMA InitInterruptInv == Init => InterruptInv
<1> SUFFICES ASSUME Init PROVE InterruptInv
  OBVIOUS
<1>1. /\ rs = FreshState /\ lp = NoList /\ pc = "down" /\ seen = {}
  BY DEF Init
<1>2. /\ Range(rs.queue) = {} /\ rs.active = NoCall /\ rs.answered = {} /\ rs.toolUses = {} /\ rs.pendingAsk = {}
  BY <1>1 DEF FreshState, Range
<1>3. Range(lp.uses) = {} /\ lp.replayed = {} /\ Place # "handle"
  BY <1>1 DEF NoList, Range, Place, Sends
<1> HIDE DEF Place
<1> QED
  BY <1>1, <1>2, <1>3 DEF InterruptInv, Known, SeenUse, ReplayInv, InterruptedIn

-----------------------------------------------------------------------------
(* What the loop has in hand                                               *)

\* What is resolved stays resolved.
LEMMA ResolvedStays ==
  ASSUME CallsInv, [Next]_vars
  PROVE  \A c \in Calls : Resolved(c) => Resolved(c)'
<1>1. /\ \A i \in DOMAIN log : i \in DOMAIN log' /\ log'[i] = log[i]
      /\ \A c \in Calls : HasResult(c) => HasResult(c)'
  BY LogOnlyGrows
<1>2. \A c \in Calls : InterruptedIn(DOMAIN log, c) => InterruptedIn(DOMAIN log, c)'
  BY <1>1 DEF InterruptedIn, Matches
<1>3. \A c \in Calls : Denied(c) => Denied(c)'
  BY <1>1 DEF Denied
<1> QED
  BY <1>1, <1>2, <1>3 DEF Resolved

\* What was seen stays seen.
LEMMA SeenStays ==
  ASSUME CallsInv, ReadInv, [Next]_vars
  PROVE  /\ \A i \in seen : i \in DOMAIN log /\ log'[i] = log[i]
         /\ seen \subseteq seen' => \A c \in Calls : SeenUse(c) => SeenUse(c)'
         /\ seen' = seen => \A c \in Calls : /\ SeenUse(c)' => SeenUse(c)
                                             /\ InterruptedIn(seen, c)' => InterruptedIn(seen, c)
<1>1. \A i \in seen : i \in DOMAIN log /\ log'[i] = log[i]
  BY LogOnlyGrows DEF ReadInv
<1>2. seen \subseteq seen' => \A c \in Calls : SeenUse(c) => SeenUse(c)'
  BY <1>1 DEF SeenUse
<1>3. seen' = seen => \A c \in Calls : SeenUse(c)' => SeenUse(c)
  BY <1>1 DEF SeenUse
<1>4. seen' = seen => \A c \in Calls : InterruptedIn(seen, c)' => InterruptedIn(seen, c)
  BY <1>1 DEF InterruptedIn, Matches
<1> QED
  BY <1>1, <1>2, <1>3, <1>4

\* The loop has only calls in hand.
LEMMA KnownTypes ==
  CallsInv => Known \subseteq Calls
<1> SUFFICES ASSUME CallsInv PROVE Known \subseteq Calls
  OBVIOUS
<1>1. /\ rs.active \in Calls \cup {NoCall} /\ Range(rs.queue) \subseteq Calls
      /\ rs.toolUses \subseteq Calls /\ rs.pendingAsk \subseteq Calls /\ todo \subseteq Calls
  BY DEF CallsInv, TypeOK, RunnerStates, Range
<1>2. Range(lp.uses) \subseteq Calls /\ lp.replayed \subseteq Calls
  BY DEF CallsInv, TypeOK, Listings, Range
<1> QED
  BY <1>1, <1>2 DEF Known

\* Known only of calls whose use the loop has seen, or sees in this step.
LEMMA KnownStays ==
  ASSUME CallsInv, ReadInv, [Next]_vars, \A c \in Known : SeenUse(c), seen \subseteq seen',
         NEW F \in SUBSET Calls, \A c \in F : SeenUse(c)',
         rs'.active \in {NoCall} \cup Known,
         Range(rs'.queue) \subseteq Known, rs'.toolUses \subseteq Known \cup F, rs'.pendingAsk \subseteq Known,
         Range(lp'.uses) \subseteq Known \cup F, lp'.replayed \subseteq Known \cup F,
         Place' = "handle" => todo' \subseteq Known \cup F
  PROVE  \A c \in Known' : SeenUse(c)'
<1>1. Known' \subseteq Known \cup F
  <2> DEFINE K == Known
  <2>1. Known' = ({rs'.active} \ {NoCall}) \cup Range(rs'.queue) \cup rs'.toolUses \cup rs'.pendingAsk
         \cup Range(lp'.uses) \cup lp'.replayed \cup (IF Place' = "handle" THEN todo' ELSE {})
    BY DEF Known
  <2> QED
    BY <2>1
<1>2. \A c \in Known : SeenUse(c)'
  BY KnownTypes, SeenStays
<1> QED
  BY <1>1, <1>2

\* A step that sees no new event.
LEMMA StayInterruptInv ==
  ASSUME CallsInv, ReadInv, InterruptInv, [Next]_vars, seen' = seen,
         rs'.active \in {NoCall} \cup Known,
         Range(rs'.queue) \subseteq Known, rs'.toolUses \subseteq Known, rs'.pendingAsk \subseteq Known,
         Range(lp'.uses) \subseteq Known, lp'.replayed \subseteq Known,
         Place' = "handle" => todo' \subseteq Known,
         rs.toolUses \cup rs.answered \subseteq rs'.toolUses \cup rs'.answered,
         rs.answered \subseteq rs'.answered, rs'.answered \subseteq Calls,
         \A c \in rs'.answered \ rs.answered : Resolved(c)',
         Range(rs'.queue) \cap rs.answered \subseteq Range(rs.queue),
         ReplayInv'
  PROVE  InterruptInv'
<1>1. \A c \in Known' : SeenUse(c)'
  <2> DEFINE F == {}
  <2>1. /\ F \in SUBSET Calls /\ \A c \in F : SeenUse(c)'
        /\ rs'.toolUses \subseteq Known \cup F
        /\ Range(lp'.uses) \subseteq Known \cup F /\ lp'.replayed \subseteq Known \cup F
        /\ Place' = "handle" => todo' \subseteq Known \cup F
        /\ seen \subseteq seen'
    OBVIOUS
  <2>2. \A c \in Known : SeenUse(c)
    BY DEF InterruptInv
  <2> HIDE DEF F, Place
  <2> QED
    BY <2>1, <2>2, KnownStays
<1>2. \A c \in Calls : SeenUse(c)' => c \in rs'.toolUses \cup rs'.answered
  BY SeenStays DEF InterruptInv
<1>3. \A c \in rs'.answered : Resolved(c)'
  BY ResolvedStays DEF InterruptInv
<1>4. \A c \in Calls : InterruptedIn(seen, c)' => c \in rs'.answered /\ c \notin Range(rs'.queue)
  BY SeenStays DEF InterruptInv
<1> QED
  BY <1>1, <1>2, <1>3, <1>4 DEF InterruptInv

-----------------------------------------------------------------------------
(* Steps that read no event                                                *)

\* What is left to handle after a quiet step was there before.
LEMMA QuietReading ==
  ASSUME CallsInv, ReadInv, QuietStep
  PROVE  /\ seen' = seen
         /\ Range(lp'.uses) \subseteq Range(lp.uses) /\ lp'.replayed \subseteq lp.replayed
         /\ Place' = "handle" => todo' \subseteq rs.pendingAsk \/ (Place = "handle" /\ todo' \subseteq todo)
         /\ pc' = "event" => \/ lp'.next = 1 /\ lp'.replayed = {}
                             \/ pc = "event" /\ lp' = lp
                             \/ pc = "event" /\ mode = "list" /\ lp'.next = lp.next + 1 /\ lp'.replayed = lp.replayed
<1>t. /\ TypeOK /\ lp \in Listings /\ todo \subseteq Calls /\ Len(log) \in Nat /\ SendInv /\ PlaceInv
  BY DEF CallsInv, TypeOK
<1>0. /\ Range(NoList.uses) = {} /\ NoList.replayed = {} /\ NoList.next = 1
  BY DEF NoList, Range
<1>1. CASE UNCHANGED <<pc, seen, lp, todo, send>>
  BY <1>1 DEF Place
<1>2. CASE StreamOpens \/ StreamFails \/ ReconcileFails
  <2>1. UNCHANGED <<seen, lp, todo, send>> /\ pc' \in {"list", "sleep"}
    BY <1>2 DEF StreamOpens, StreamFails, ReconcileFails, Sleep
  <2> QED
    BY <2>1 DEF Place, Sends
<1>3. CASE EventsListed \/ PollFails
  <2>1. UNCHANGED <<seen, todo, send>> /\ pc' \in {"event", "select"}
        /\ ((UNCHANGED lp /\ pc' = "select") \/ \E n \in Nat, b \in BOOLEAN : List(n, b))
    <3>1. CASE EventsListed
      BY <1>t, <3>1 DEF EventsListed
    <3>2. CASE PollFails
      <4>1. PICK n \in 0..Len(log) : IF n = 0 THEN pc' = "select" /\ UNCHANGED lp
                                              ELSE pc' = "event" /\ List(n, FALSE)
        BY <3>2 DEF PollFails
      <4>2. n \in Nat /\ FALSE \in BOOLEAN
        BY <1>t
      <4>3. UNCHANGED <<seen, todo, send>>
        BY <3>2 DEF PollFails
      <4> QED
        BY <4>1, <4>2, <4>3
    <3> QED
      BY <1>3, <3>1, <3>2
  <2>2. Place' # "handle"
    BY <2>1 DEF Place, Sends
  <2>3. CASE UNCHANGED lp /\ pc' = "select"
    BY <2>1, <2>2, <2>3
  <2>4. CASE \E n \in Nat, b \in BOOLEAN : List(n, b)
    <3>1. lp'.uses = <<>> /\ lp'.replayed = {} /\ lp'.next = 1
      BY <2>4, ListType
    <3>2. Range(lp'.uses) = {}
      BY <3>1 DEF Range
    <3> QED
      BY <2>1, <2>2, <3>1, <3>2
  <2> QED
    BY <2>1, <2>3, <2>4
<1>4. CASE SeenBefore
  <2>1. UNCHANGED <<pc, seen, todo, send>> /\ lp' = [lp EXCEPT !.next = @ + 1] /\ pc = "event" /\ mode = "list"
    BY <1>4 DEF SeenBefore, AtEvent
  <2>2. lp'.uses = lp.uses /\ lp'.replayed = lp.replayed /\ lp'.next = lp.next + 1
    BY <1>t, <2>1 DEF Listings
  <2>3. Place' = Place
    BY <2>1 DEF Place
  <2> QED
    BY <2>1, <2>2, <2>3
<1>5. CASE PassOver
  <2>1. UNCHANGED <<pc, seen, todo, send>> /\ lp' = [lp EXCEPT !.uses = Tail(@)] /\ pc = "pending" /\ lp.uses # <<>>
    BY <1>5 DEF PassOver
  <2>2. lp'.uses = Tail(lp.uses) /\ lp'.replayed = lp.replayed /\ lp.uses \in Seq(Calls)
    BY <1>t, <2>1 DEF Listings
  <2>3. Range(Tail(lp.uses)) \subseteq Range(lp.uses)
    BY <2>1, <2>2 DEF Range
  <2>4. Place' = Place
    BY <2>1 DEF Place
  <2> QED
    BY <2>1, <2>2, <2>3, <2>4
<1>6. CASE PendingDone
  <2>1. UNCHANGED <<seen, lp, send>> /\ pc' = "handle" /\ todo' = Ready(rs)
    BY <1>6 DEF PendingDone
  <2> QED
    BY <2>1 DEF Ready
<1>7. CASE HandleDone
  <2>1. UNCHANGED <<seen, send>> /\ pc' \in {"top", "select"} /\ lp' = NoList
    BY <1>7 DEF HandleDone, AfterList
  <2>2. Place' # "handle"
    BY <2>1 DEF Place, Sends
  <2> QED
    BY <1>0, <2>1, <2>2
<1>8. CASE QuietHandling
  <2>1. PICK c \in Calls : HandleSettled(c) \/ ResendResult(c) \/ SkipExternal(c)
    BY <1>8 DEF QuietHandling
  <2>2. Handles(c) /\ seen' = seen /\ (UNCHANGED <<pc, send>> \/ StartSend(c, rs.pendingResults[c], "use", pc))
    BY <2>1 DEF HandleSettled, ResendResult, SkipExternal, Remaining
  <2>3. /\ pc \in {"pending", "handle"} /\ todo' \subseteq todo /\ lp'.replayed = lp.replayed
        /\ Range(lp'.uses) \subseteq Range(lp.uses)
    BY <1>t, <2>2, HandlesEffect
  <2>4. StartSend(c, rs.pendingResults[c], "use", pc) => pc' = "send" /\ send'.back = pc
    BY DEF StartSend, NoSend
  <2>5. Place' = Place /\ pc' # "event"
    BY <2>2, <2>3, <2>4 DEF Place, Sends
  <2> QED
    BY <2>2, <2>3, <2>5
<1>9. CASE QuietSend
  <2>1. /\ pc = "send" /\ UNCHANGED Sending /\ pc' \in Sends /\ send'.back = send.back
    BY <1>9, SendStepEffect DEF QuietSend
  <2>2. UNCHANGED <<seen, lp, todo>> /\ Place' = Place /\ pc' # "event"
    BY <2>1 DEF Sending, Place, Sends
  <2> QED
    BY <2>2
<1>10. CASE QuietFlush
  <2>1. UNCHANGED <<seen, lp>> /\ (pc' \in {"flush", "select"} \/ (pc' = "send" /\ send'.back = "flush"))
    BY <1>10 DEF QuietFlush, FlushStarts, FlushEnds, FlushNext, StartSend, NoSend
  <2>2. Place' # "handle" /\ pc' # "event"
    BY <2>1 DEF Place, Sends
  <2> QED
    BY <2>1, <2>2
<1>11. CASE QuietWait
  <2>1. /\ UNCHANGED <<lp, todo, send>> /\ seen' = seen
        /\ pc' \in {"top", "sleep", "list", wake} /\ (pc' = wake => pc = "sleep" \/ pc' \in {"top", "sleep", "list"})
    BY <1>11 DEF QuietWait, StreamSeenBefore, Consume, Disconnected, Sleep, SleepEnds, Tick
  <2>2. pc = "sleep" => wake \in {"open", "list"}
    BY <1>t DEF PlaceInv, Place, Sends
  <2>3. pc' \in {"top", "sleep", "list", "open"}
    BY <2>1, <2>2
  <2>4. Place' # "handle"
    BY <2>3 DEF Place, Sends
  <2> QED
    BY <2>1, <2>3, <2>4
<1>12. CASE Goroutines \/ ControlPlane \/ Cancel \/ UNCHANGED vars
  <2>1. ControlPlane => UNCHANGED loop
    BY <1>t, ControlPlaneEffect
  <2>2. UNCHANGED <<pc, seen, lp, todo, send>>
    BY <1>12, <2>1 DEF Goroutines, ToolReturns, ToolTimesOut, ToolCancelled, AbandonedToolEnds, Cancel, loop, vars
  <2> QED
    BY <1>1, <2>2
<1> QED
  BY <1>2, <1>3, <1>4, <1>5, <1>6, <1>7, <1>8, <1>9, <1>10, <1>11, <1>12 DEF QuietStep, QuietListing

\* A quiet step keeps InterruptInv.
LEMMA QuietInterruptInv ==
  ASSUME CallsInv, ReadInv, InterruptInv, QuietStep
  PROVE  InterruptInv'
<1>n. [Next]_vars
  BY StepKinds
<1>q. /\ rs'.queue = rs.queue /\ rs'.active = rs.active /\ rs'.answered = rs.answered
      /\ rs'.toolUses = rs.toolUses /\ rs'.pendingAsk = rs.pendingAsk /\ mode' = mode
  BY QuietStepEffect DEF Quiet
<1>r. /\ seen' = seen
      /\ Range(lp'.uses) \subseteq Range(lp.uses) /\ lp'.replayed \subseteq lp.replayed
      /\ Place' = "handle" => todo' \subseteq rs.pendingAsk \/ (Place = "handle" /\ todo' \subseteq todo)
      /\ pc' = "event" => \/ lp'.next = 1 /\ lp'.replayed = {}
                          \/ pc = "event" /\ lp' = lp
                          \/ pc = "event" /\ mode = "list" /\ lp'.next = lp.next + 1 /\ lp'.replayed = lp.replayed
  BY QuietReading
<1>t. rs.answered \subseteq Calls /\ lp.next \in Nat /\ Len(log) \in Nat
  BY DEF CallsInv, TypeOK, RunnerStates, Listings
<1>1. /\ rs'.active \in {NoCall} \cup Known
      /\ Range(rs'.queue) \subseteq Known /\ rs'.toolUses \subseteq Known /\ rs'.pendingAsk \subseteq Known
      /\ Range(lp'.uses) \subseteq Known /\ lp'.replayed \subseteq Known
      /\ Place' = "handle" => todo' \subseteq Known
  <2>1. /\ rs.active \in {NoCall} \cup Known
        /\ Range(rs.queue) \subseteq Known /\ rs.toolUses \subseteq Known /\ rs.pendingAsk \subseteq Known
        /\ Range(lp.uses) \subseteq Known /\ lp.replayed \subseteq Known
        /\ Place = "handle" => todo \subseteq Known
    BY DEF Known
  <2> QED
    BY <1>q, <1>r, <2>1
<1>2. ReplayInv'
  <2> SUFFICES ASSUME pc' = "event"
               PROVE  /\ \A c \in lp'.replayed : \E i \in 1..(lp'.next - 1) : log'[i] = UseEvent(c)
                      /\ mode' = "stream" => \A i \in 1..(lp'.next - 1) : log'[i].type = "use" => log'[i].call \in lp'.replayed
    BY DEF ReplayInv
  <2>1. CASE lp'.next = 1 /\ lp'.replayed = {}
    BY <2>1
  <2>2. CASE pc = "event" /\ (lp' = lp \/ (mode = "list" /\ lp'.next = lp.next + 1 /\ lp'.replayed = lp.replayed))
    <3>1. \A i \in 1..(lp.next - 1) : i \in seen
      BY <2>2 DEF ReadInv
    <3>2. \A i \in 1..(lp.next - 1) : log'[i] = log[i]
      BY <1>n, <3>1, SeenStays
    <3>3. /\ \A c \in lp.replayed : \E i \in 1..(lp.next - 1) : log[i] = UseEvent(c)
          /\ mode = "stream" => \A i \in 1..(lp.next - 1) : log[i].type = "use" => log[i].call \in lp.replayed
      BY <2>2 DEF InterruptInv, ReplayInv
    <3>4. CASE lp' = lp
      BY <1>q, <3>2, <3>3, <3>4
    <3>5. CASE mode = "list" /\ lp'.next = lp.next + 1 /\ lp'.replayed = lp.replayed
      <4>1. lp'.next - 1 = lp.next /\ \A i \in 1..(lp.next - 1) : i \in 1..lp.next
        BY <1>t, <3>5
      <4>2. ASSUME NEW c \in lp'.replayed PROVE \E i \in 1..lp.next : log'[i] = UseEvent(c)
        BY <3>2, <3>3, <3>5, <4>1
      <4>3. mode' # "stream"
        BY <1>q, <3>5
      <4> QED
        BY <4>1, <4>2, <4>3
    <3> QED
      BY <2>2, <3>4, <3>5
  <2> QED
    BY <1>r, <2>1, <2>2
<1> QED
  BY <1>n, <1>q, <1>r, <1>t, <1>1, <1>2, StayInterruptInv

\* A runner that ended has nothing in hand.
LEMMA GoneInterruptInv ==
  ASSUME CallsInv, GoneStep PROVE InterruptInv'
<1>1. /\ rs'.active = NoCall /\ Range(rs'.queue) = {} /\ rs'.answered = {} /\ rs'.toolUses = {} /\ rs'.pendingAsk = {}
      /\ seen' = {} /\ lp' = NoList /\ Place' = "down" /\ pc' = "down"
  BY GoneStepEffect, GoneEffect
<1>2. Range(lp'.uses) = {} /\ lp'.replayed = {}
  BY <1>1 DEF NoList, Range
<1>3. Known' = {}
  BY <1>1, <1>2 DEF Known
<1> QED
  BY <1>1, <1>3 DEF InterruptInv, SeenUse, ReplayInv, InterruptedIn

\* A runner that starts gives up only on calls whose result was delivered.
LEMMA StartInterruptInv ==
  ASSUME CallsInv, DeliveredInv, Start PROVE InterruptInv'
<1>1. /\ rs'.active = NoCall /\ Range(rs'.queue) = {} /\ rs'.toolUses = {} /\ rs'.pendingAsk = {}
      /\ rs'.answered = {c \in Calls : ledger[c] = "sent"}
  BY StartEffect
<1>2. seen' = {} /\ lp' = NoList /\ pc' \in {"open", "list"} /\ UNCHANGED log
  BY DEF Start, Connect, plane, CallsInv, PlaceInv
<1>3. Range(lp'.uses) = {} /\ lp'.replayed = {} /\ Place' # "handle"
  BY <1>2 DEF NoList, Range, Place, Sends
<1>4. Known' = {}
  BY <1>1, <1>3 DEF Known
<1>5. \A c \in rs'.answered : HasResult(c)'
  BY <1>1, <1>2 DEF DeliveredInv, HasResult
<1> QED
  BY <1>1, <1>2, <1>4, <1>5 DEF InterruptInv, SeenUse, ReplayInv, InterruptedIn, Resolved

\* Settling a call reads no event and takes up no new call.
LEMMA LoudStepMoves ==
  ASSUME CallsInv, ReadInv,
         \/ ListEnds \/ FinishAnswered \/ FinishUnanswered \/ SendEnds
         \/ \E c \in Calls : AwaitConfirmation(c) \/ ResolveWithoutPost(c) \/ BeginFresh(c) \/ BeginRecorded(c)
  PROVE  /\ seen' = seen /\ pc' # "event" /\ UNCHANGED log
         /\ Range(lp'.uses) \subseteq Range(lp.uses) /\ lp'.replayed = lp.replayed
         /\ Place' = "handle" => Place = "handle" /\ todo' \subseteq todo
<1>t. /\ TypeOK /\ SendInv
  BY DEF CallsInv, TypeOK
<1>1. CASE ListEnds \/ FinishAnswered \/ FinishUnanswered
  <2>1. /\ seen' = seen /\ UNCHANGED <<log, lp, todo>>
        /\ \/ pc' \in {"pending", "top", "list", "sleep"} /\ UNCHANGED send
           \/ pc' = "send" /\ send'.back \in {"top", "list", "sleep"}
    BY <1>1 DEF ListEnds, FinishAnswered, FinishUnanswered, StartSend, NoSend, Round, plane
  <2>2. Place' # "handle" /\ pc' # "event"
    BY <2>1 DEF Place, Sends
  <2> QED
    BY <2>1, <2>2
<1>2. CASE SendEnds
  <2>1. pc = "sent" /\ pc' = send.back /\ UNCHANGED <<log, seen, lp, todo>>
    BY <1>2 DEF SendEnds, plane
  <2>2. Place' = Place /\ pc' # "event"
    BY <1>t, <2>1 DEF Place, Sends, SendInv
  <2> QED
    BY <2>1, <2>2
<1>3. ASSUME NEW c \in Calls, AwaitConfirmation(c) \/ ResolveWithoutPost(c) \/ BeginFresh(c) \/ BeginRecorded(c)
      PROVE  /\ seen' = seen /\ pc' # "event" /\ UNCHANGED log
             /\ Range(lp'.uses) \subseteq Range(lp.uses) /\ lp'.replayed = lp.replayed
             /\ Place' = "handle" => Place = "handle" /\ todo' \subseteq todo
  <2>1. /\ Handles(c) /\ UNCHANGED <<seen, log>>
        /\ UNCHANGED <<pc, send>> \/ \E r : StartSend(c, r, "use", pc)
    BY <1>3 DEF AwaitConfirmation, ResolveWithoutPost, BeginFresh, BeginRecorded, Allowed, Remaining, plane
  <2>2. (\E r : StartSend(c, r, "use", pc)) => pc' = "send" /\ send'.back = pc
    BY DEF StartSend, NoSend
  <2>3. /\ pc \in {"pending", "handle"} /\ todo' \subseteq todo /\ lp'.replayed = lp.replayed
        /\ Range(lp'.uses) \subseteq Range(lp.uses)
    BY <1>t, <2>1, HandlesEffect
  <2>4. Place' = Place /\ pc' # "event"
    BY <2>1, <2>2, <2>3 DEF Place, Sends
  <2> QED
    BY <2>1, <2>3, <2>4
<1> QED
  BY <1>1, <1>2, <1>3

\* A call that the loop handles is one whose use it has seen.
LEMMA HandledIsKnown ==
  ASSUME CallsInv, NEW c \in Calls, Handles(c) PROVE c \in Known
<1>1. \/ pc = "pending" /\ c \in Range(lp.uses)
      \/ pc = "handle" /\ c \in todo
  BY HandlesEffect DEF CallsInv
<1> QED
  BY <1>1 DEF Known, Place, Sends

\* The places where the loop has calls in hand.
LEMMA ParkedKnown ==
  /\ rs.active \in {NoCall} \cup Known
  /\ Range(rs.queue) \subseteq Known /\ rs.toolUses \subseteq Known /\ rs.pendingAsk \subseteq Known
  /\ Range(lp.uses) \subseteq Known /\ lp.replayed \subseteq Known
  /\ Place = "handle" => todo \subseteq Known
BY DEF Known

\* Handling, finishing and sending keep InterruptInv: only a call with a result in the log, or
\* a denied one, is given up.
LEMMA SettlingInterruptInv ==
  ASSUME CallsInv, ReadInv, DeliveredInv, ConsentInv, InterruptInv,
         \/ ListEnds \/ FinishAnswered \/ FinishUnanswered \/ SendEnds
         \/ \E c \in Calls : AwaitConfirmation(c) \/ ResolveWithoutPost(c) \/ BeginFresh(c) \/ BeginRecorded(c)
  PROVE  InterruptInv'
<1>n. [Next]_vars
  BY StepKinds DEF LoudStep
<1>t. /\ rs.answered \subseteq Calls /\ ReplayInv'
  BY LoudStepMoves DEF CallsInv, TypeOK, RunnerStates, ReplayInv
<1>m. /\ seen' = seen /\ UNCHANGED log
      /\ Range(lp'.uses) \subseteq Known /\ lp'.replayed \subseteq Known
      /\ Place' = "handle" => todo' \subseteq Known
  BY LoudStepMoves, ParkedKnown
<1>k. /\ rs.active \in {NoCall} \cup Known
      /\ Range(rs.queue) \subseteq Known /\ rs.toolUses \subseteq Known /\ rs.pendingAsk \subseteq Known
  BY ParkedKnown
<1>r. \A c \in Calls : HasResult(c) \/ Denied(c) => Resolved(c)'
  BY <1>m DEF Resolved, HasResult, Denied
<1>s. ASSUME rs'.active \in {NoCall} \cup Known,
             Range(rs'.queue) \subseteq Known, rs'.toolUses \subseteq Known, rs'.pendingAsk \subseteq Known,
             NEW told \in SUBSET Calls,
             rs'.answered = rs.answered \cup told, rs'.toolUses = rs.toolUses \ told,
             \A c \in told : HasResult(c) \/ Denied(c),
             Range(rs'.queue) \cap rs.answered \subseteq Range(rs.queue)
      PROVE  InterruptInv'
  <2>1. /\ rs.toolUses \cup rs.answered \subseteq rs'.toolUses \cup rs'.answered
        /\ rs.answered \subseteq rs'.answered /\ rs'.answered \subseteq Calls
        /\ \A c \in rs'.answered \ rs.answered : Resolved(c)'
    BY <1>s, <1>t, <1>r
  <2> QED
    BY <1>n, <1>t, <1>m, <1>s, <2>1, StayInterruptInv
<1>1. CASE ListEnds
  <2>1. Quiet
    BY <1>1, ListEndsEffect
  <2>2. {} \in SUBSET Calls /\ rs'.answered = rs.answered \cup {} /\ rs'.toolUses = rs.toolUses \ {}
    BY <2>1 DEF Quiet
  <2> QED
    BY <1>k, <1>s, <2>1, <2>2 DEF Quiet
<1>2. CASE FinishAnswered \/ FinishUnanswered \/ SendEnds
  <2> DEFINE told == IF SendEnds /\ send.outcome = "posted" THEN {send.call} ELSE {}
  <2>1. /\ rs'.answered = rs.answered \cup told /\ rs'.toolUses = rs.toolUses \ told
        /\ rs'.pendingAsk = rs.pendingAsk \ told
        /\ Range(rs'.queue) \subseteq Range(rs.queue)
        /\ rs'.active \in {NoCall, rs.active} \cup Range(rs.queue)
    BY <1>2, QueueStepEffect
  <2>2. told \in SUBSET Calls /\ \A c \in told : HasResult(c)
    BY DEF SendEnds, DeliveredInv, CallsInv, SendInv, Sends
  <2> HIDE DEF told
  <2>3. /\ rs'.active \in {NoCall} \cup Known
        /\ Range(rs'.queue) \subseteq Known /\ rs'.toolUses \subseteq Known /\ rs'.pendingAsk \subseteq Known
        /\ Range(rs'.queue) \cap rs.answered \subseteq Range(rs.queue)
    BY <1>k, <2>1
  <2> QED
    BY <1>s, <2>1, <2>2, <2>3
<1>3. ASSUME NEW c \in Calls, BeginFresh(c) PROVE InterruptInv'
  <2>1. /\ rs'.answered = rs.answered /\ rs'.toolUses = rs.toolUses
        /\ rs'.pendingAsk = rs.pendingAsk
        /\ Range(rs'.queue) \subseteq Range(rs.queue) \cup {c}
        /\ rs'.active \in {NoCall, rs.active, c} \cup Range(rs.queue)
    BY <1>3, BeginFreshEffect
  <2>2. Handles(c) /\ c \notin rs.answered
    BY <1>3 DEF BeginFresh, Allowed, Untouched
  <2>3. c \in Known
    BY <2>2, HandledIsKnown
  <2>4. {} \in SUBSET Calls /\ rs'.answered = rs.answered \cup {} /\ rs'.toolUses = rs.toolUses \ {}
    BY <2>1
  <2>5. /\ rs'.active \in {NoCall} \cup Known
        /\ Range(rs'.queue) \subseteq Known /\ rs'.toolUses \subseteq Known /\ rs'.pendingAsk \subseteq Known
        /\ Range(rs'.queue) \cap rs.answered \subseteq Range(rs.queue)
    BY <1>k, <2>1, <2>2, <2>3
  <2> QED
    BY <1>s, <2>4, <2>5
<1>4. ASSUME NEW c \in Calls, AwaitConfirmation(c) \/ ResolveWithoutPost(c) \/ BeginRecorded(c)
      PROVE  InterruptInv'
  <2> DEFINE told == IF AwaitConfirmation(c) \/ (BeginRecorded(c) /\ ledger[c] # "sent") THEN {} ELSE {c}
  <2>1. /\ rs'.queue = rs.queue /\ rs'.active = rs.active
        /\ rs'.answered = rs.answered \cup told /\ rs'.toolUses = rs.toolUses \ told
        /\ rs'.pendingAsk \subseteq rs.pendingAsk \cup {c}
    BY <1>4, SettleStepEffect
  <2>2. Handles(c)
    BY <1>4 DEF AwaitConfirmation, ResolveWithoutPost, BeginRecorded, Allowed
  <2>3. c \in Known
    BY <2>2, HandledIsKnown
  <2>4. ASSUME ResolveWithoutPost(c) PROVE Denied(c)
    <3>1. Decision(c) = "deny"
      BY <2>4 DEF ResolveWithoutPost
    <3>2. Permission[c] # "deny" => Permission[c] = "ask" /\ rs.confirmations[c] = "deny"
      BY <3>1 DEF Decision
    <3>3. rs.confirmations[c] = "deny" => ConfirmEvent(c, "deny") \in Range(log)
      BY DEF ConsentInv
    <3> QED
      BY <3>2, <3>3 DEF Denied, Range
  <2>5. ASSUME ledger[c] = "sent" PROVE HasResult(c)
    BY <2>5 DEF DeliveredInv
  <2>6. told \in SUBSET Calls /\ \A d \in told : HasResult(d) \/ Denied(d)
    BY <1>4, <2>4, <2>5
  <2> HIDE DEF told
  <2>7. /\ rs'.active \in {NoCall} \cup Known
        /\ Range(rs'.queue) \subseteq Known /\ rs'.toolUses \subseteq Known /\ rs'.pendingAsk \subseteq Known
        /\ Range(rs'.queue) \cap rs.answered \subseteq Range(rs.queue)
    BY <1>k, <2>1, <2>3
  <2> QED
    BY <1>s, <2>1, <2>6, <2>7
<1> QED
  BY <1>1, <1>2, <1>3, <1>4

-----------------------------------------------------------------------------
(* Steps that read an event                                                *)

\* Reading the next event changes what is seen by that event alone.
LEMMA ReadOneEvent ==
  ASSUME CallsInv, ReadInv, NEW j \in DOMAIN log, 1..(j - 1) \subseteq seen, seen' = seen \cup {j}, UNCHANGED log
  PROVE  /\ \A c \in Calls : SeenUse(c)' <=> SeenUse(c) \/ log[j] = UseEvent(c)
         /\ \A c \in Calls : InterruptedIn(seen, c)' =>
              \/ InterruptedIn(seen, c)
              \/ log[j].type = "interrupt" /\ Matches(c, log[j].thread) /\ \E i \in 1..(j - 1) : log[i] = UseEvent(c)
<1>t. log \in Seq(Events) /\ \A i \in seen : i \in DOMAIN log /\ 1..i \subseteq seen
  BY DEF CallsInv, TypeOK, ReadInv
<1>1. \A c \in Calls : SeenUse(c)' <=> SeenUse(c) \/ log[j] = UseEvent(c)
  BY DEF SeenUse
<1>2. ASSUME NEW c \in Calls, NEW i \in seen', NEW k \in seen', i < k, log[i] = UseEvent(c),
             log[k].type = "interrupt", Matches(c, log[k].thread)
      PROVE  \/ InterruptedIn(seen, c)
             \/ log[j].type = "interrupt" /\ Matches(c, log[j].thread) /\ \E h \in 1..(j - 1) : log[h] = UseEvent(c)
  <2>1. i \in Nat \ {0} /\ k \in Nat
    BY <1>t, <1>2
  <2>2. CASE k \in seen
    <3>1. i \in seen
      BY <1>t, <1>2, <2>1, <2>2
    <3> QED
      BY <1>2, <2>2, <3>1 DEF InterruptedIn
  <2>3. CASE k = j
    BY <1>2, <2>1, <2>3
  <2> QED
    BY <1>2, <2>2, <2>3
<1> QED
  BY <1>1, <1>2 DEF InterruptedIn, Matches

\* Where the loop reads an event, and what it keeps of it.
LEMMA LearnStepMoves ==
  ASSUME CallsInv, ReadInv, NEW e, (ListedEvent /\ e = Current) \/ (StreamEvent /\ e = Arrived)
  PROVE  /\ UNCHANGED <<log, mode>> /\ e.type # "interrupt"
         /\ \E j \in DOMAIN log : e = log[j] /\ 1..(j - 1) \subseteq seen /\ seen' = seen \cup {j}
         /\ LET used == IF e.type = "use" THEN {e.call} ELSE {}
            IN /\ Range(lp'.uses) \subseteq Range(lp.uses) \cup used /\ lp'.replayed \subseteq lp.replayed \cup used
               /\ Place' = "handle" => todo' \subseteq rs'.pendingAsk \cup used
               /\ pc' = "event" => /\ pc = "event" /\ lp'.next = lp.next + 1
                                   /\ lp.next \in DOMAIN log /\ e = log[lp.next]
                                   /\ lp'.replayed = lp.replayed \cup used
<1>t. lp \in Listings /\ lp.next \in Nat /\ Len(log) \in Nat
  BY DEF CallsInv, TypeOK, Listings
<1>1. CASE ListedEvent /\ e = Current
  <2>1. /\ UNCHANGED <<log, mode, pc, todo, send>> /\ e.type # "interrupt" /\ seen' = seen \cup {lp.next}
        /\ pc = "event" /\ AtEvent
    BY <1>1 DEF ListedEvent, AtNewEvent, AtEvent, plane
  <2>2. lp.next \in DOMAIN log /\ e = log[lp.next] /\ e \in Events
    BY <1>1, <2>1, CurrentIsEvent DEF Current
  <2>3. 1..(lp.next - 1) \subseteq seen
    BY <2>1 DEF ReadInv
  <2> DEFINE l == Touch(e, lp.next \notin seen)
             used == IF e.type = "use" THEN {e.call} ELSE {}
  <2>4. l \in Listings /\ l.next = lp.next + 1 /\ l.uses = lp.uses /\ l.replayed = lp.replayed
    BY <1>t, TouchType
  <2>5. lp' = IF e.type = "use" THEN Collect(l, e.call) ELSE l
    BY <1>1 DEF ListedEvent
  <2> HIDE DEF l
  <2>6. /\ Range(lp'.uses) \subseteq Range(lp.uses) \cup used /\ lp'.replayed = lp.replayed \cup used
        /\ lp'.next = lp.next + 1
    <3>1. CASE e.type = "use"
      <4>1. /\ lp'.next = l.next /\ lp'.replayed = l.replayed \cup {e.call}
            /\ lp'.uses \in {l.uses, Append(l.uses, e.call)}
        BY <2>4, <2>5, <3>1 DEF Collect, Listings
      <4>2. l.uses \in Seq(Calls)
        BY <2>4 DEF Listings
      <4>3. Range(Append(l.uses, e.call)) \subseteq Range(l.uses) \cup {e.call}
        BY <4>2 DEF Range
      <4> QED
        BY <2>4, <3>1, <4>1, <4>3
    <3>2. CASE e.type # "use"
      BY <2>4, <2>5, <3>2
    <3> QED
      BY <3>1, <3>2
  <2>7. Place' = "event"
    BY <2>1 DEF Place, Sends
  <2> QED
    BY <2>1, <2>2, <2>3, <2>6, <2>7
<1>2. CASE StreamEvent /\ e = Arrived
  <2>1. /\ UNCHANGED <<log, mode, lp, send>> /\ e.type # "interrupt" /\ seen' = seen \cup {stream}
        /\ AtStream /\ pc' \in {"top", "handle"}
    BY <1>2 DEF StreamEvent, Consume, plane
  <2>2. stream \in DOMAIN log /\ e = log[stream] /\ pc = "select" /\ mode = "stream"
    BY <1>2, <2>1, ArrivedIsEvent DEF Arrived
  <2>3. 1..(stream - 1) \subseteq seen
    BY <2>2 DEF ReadInv, Place, Sends
  <2>4. todo' \subseteq rs'.pendingAsk \cup (IF e.type = "use" THEN {e.call} ELSE {})
    BY <1>2 DEF StreamEvent, Ready
  <2> QED
    BY <2>1, <2>2, <2>3, <2>4
<1> QED
  BY <1>1, <1>2

\* An event that is no interrupt keeps InterruptInv.
LEMMA LearnInterruptInv ==
  ASSUME CallsInv, ReadInv, InterruptInv, ListedEvent \/ StreamEvent
  PROVE  InterruptInv'
<1>n. [Next]_vars
  BY StepKinds DEF LoudStep
<1>1. PICK e : (ListedEvent /\ e = Current) \/ (StreamEvent /\ e = Arrived)
  OBVIOUS
<1> DEFINE told == IF e.type = "result" THEN {e.call} ELSE {}
           used == IF e.type = "use" THEN {e.call} ELSE {}
<1>2. /\ e \in Events /\ e \in Range(log)
      /\ rs'.queue = rs.queue /\ rs'.active = rs.active
      /\ rs'.answered = rs.answered \cup told
      /\ rs'.toolUses = (rs.toolUses \cup (used \ rs.answered)) \ told
      /\ rs'.pendingAsk = rs.pendingAsk \ told
  BY <1>1, LearnStepEffect
<1>3. /\ UNCHANGED <<log, mode>> /\ e.type # "interrupt"
      /\ Range(lp'.uses) \subseteq Range(lp.uses) \cup used /\ lp'.replayed \subseteq lp.replayed \cup used
      /\ Place' = "handle" => todo' \subseteq rs'.pendingAsk \cup used
      /\ pc' = "event" => /\ pc = "event" /\ lp'.next = lp.next + 1
                          /\ lp.next \in DOMAIN log /\ e = log[lp.next]
                          /\ lp'.replayed = lp.replayed \cup used
  BY <1>1, LearnStepMoves
<1>4. PICK j \in DOMAIN log : e = log[j] /\ 1..(j - 1) \subseteq seen /\ seen' = seen \cup {j}
  BY <1>1, LearnStepMoves
<1>5. /\ e.type = "use" => e.call \in Calls /\ e = UseEvent(e.call)
      /\ e.type = "result" => e.call \in Calls
      /\ told \in SUBSET Calls /\ used \in SUBSET Calls
      /\ e.type = "use" => told = {}
  BY <1>2, EventFields
<1>6. /\ \A c \in Calls : SeenUse(c)' <=> SeenUse(c) \/ e = UseEvent(c)
      /\ \A c \in Calls : InterruptedIn(seen, c)' => InterruptedIn(seen, c)
  BY <1>3, <1>4, ReadOneEvent
<1>7. \A c \in Calls : e = UseEvent(c) => e.type = "use" /\ e.call = c
  BY DEF UseEvent
<1>8. \A c \in told : HasResult(c)
  BY <1>4 DEF HasResult
<1>f. \A c \in used : SeenUse(c)'
  BY <1>5, <1>6
<1>u. e.type = "use" => used = {e.call}
  OBVIOUS
<1>9. \A c \in Known' : SeenUse(c)'
  <2>1. /\ rs.active \in {NoCall} \cup Known
        /\ Range(rs.queue) \subseteq Known /\ rs.toolUses \subseteq Known /\ rs.pendingAsk \subseteq Known
        /\ Range(lp.uses) \subseteq Known /\ lp.replayed \subseteq Known
    BY ParkedKnown
  <2> HIDE DEF told, used, Place
  <2>2. /\ rs'.active \in {NoCall} \cup Known
        /\ Range(rs'.queue) \subseteq Known /\ rs'.toolUses \subseteq Known \cup used /\ rs'.pendingAsk \subseteq Known
        /\ Range(lp'.uses) \subseteq Known \cup used /\ lp'.replayed \subseteq Known \cup used
    BY <1>2, <1>3, <2>1
  <2>3. Place' = "handle" => todo' \subseteq Known \cup used
    BY <1>3, <2>2
  <2>4. \A c \in Known : SeenUse(c)
    BY DEF InterruptInv
  <2>5. seen \subseteq seen'
    BY <1>4
  <2> QED
    BY <1>n, <1>5, <1>f, <2>2, <2>3, <2>4, <2>5, KnownStays
<1>10. \A c \in Calls : SeenUse(c)' => c \in rs'.toolUses \cup rs'.answered
  <2> SUFFICES ASSUME NEW c \in Calls, SeenUse(c)' PROVE c \in rs'.toolUses \cup rs'.answered
    OBVIOUS
  <2>1. CASE SeenUse(c)
    <3>1. c \in rs.toolUses \cup rs.answered
      BY <2>1 DEF InterruptInv
    <3> HIDE DEF told, used
    <3> QED
      BY <1>2, <3>1
  <2>2. CASE e = UseEvent(c)
    <3>1. c \in used
      BY <1>7, <2>2
    <3>2. told = {}
      BY <1>5, <1>7, <2>2
    <3> HIDE DEF told, used
    <3> QED
      BY <1>2, <3>1, <3>2
  <2> QED
    BY <1>6, <2>1, <2>2
<1>11. \A c \in rs'.answered : Resolved(c)'
  <2>1. \A c \in rs.answered : Resolved(c)' /\ rs.answered \subseteq Calls
    BY <1>n, ResolvedStays DEF InterruptInv, CallsInv, TypeOK, RunnerStates
  <2>2. \A c \in told : Resolved(c)'
    BY <1>3, <1>8 DEF Resolved, HasResult
  <2> HIDE DEF told
  <2> QED
    BY <1>2, <2>1, <2>2
<1>12. \A c \in Calls : InterruptedIn(seen, c)' => c \in rs'.answered /\ c \notin Range(rs'.queue)
  <2> HIDE DEF told
  <2> QED
    BY <1>2, <1>6 DEF InterruptInv
<1>13. ReplayInv'
  <2> SUFFICES ASSUME pc' = "event"
               PROVE  /\ \A c \in lp'.replayed : \E i \in 1..(lp'.next - 1) : log'[i] = UseEvent(c)
                      /\ mode' = "stream" => \A i \in 1..(lp'.next - 1) : log'[i].type = "use" => log'[i].call \in lp'.replayed
    BY DEF ReplayInv
  <2>1. /\ lp.next \in Nat \ {0} /\ pc = "event" /\ lp'.next = lp.next + 1 /\ e = log[lp.next] /\ log' = log /\ mode' = mode
        /\ lp'.replayed = lp.replayed \cup used
    BY <1>3 DEF CallsInv, TypeOK, Listings
  <2>2. /\ \A c \in lp.replayed : \E i \in 1..(lp.next - 1) : log[i] = UseEvent(c)
        /\ mode = "stream" => \A i \in 1..(lp.next - 1) : log[i].type = "use" => log[i].call \in lp.replayed
    BY <2>1 DEF InterruptInv, ReplayInv
  <2>3. lp'.next - 1 = lp.next /\ 1..lp.next = 1..(lp.next - 1) \cup {lp.next}
    BY <2>1
  <2>4. \A c \in used : log[lp.next] = UseEvent(c)
    BY <1>5, <2>1
  <2>5. log[lp.next].type = "use" => log[lp.next].call \in used
    BY <1>u, <2>1
  <2> HIDE DEF used
  <2>6. \A c \in lp'.replayed : \E i \in 1..lp.next : log[i] = UseEvent(c)
    BY <2>1, <2>2, <2>3, <2>4
  <2>7. mode = "stream" => \A i \in 1..lp.next : log[i].type = "use" => log[i].call \in lp'.replayed
    BY <2>1, <2>2, <2>3, <2>5
  <2> QED
    BY <2>1, <2>3, <2>6, <2>7
<1> HIDE DEF told, used
<1> QED
  BY <1>9, <1>10, <1>11, <1>12, <1>13 DEF InterruptInv

\* The calls an interrupt can hit are the ones used before it in the log.
LEMMA InterruptStepMoves ==
  ASSUME CallsInv, ReadInv, InterruptInv, NEW e, NEW eligible \in SUBSET Calls,
         \/ ListedInterrupt /\ e = Current /\ eligible = Eligible
         \/ StreamInterrupt /\ e = Arrived /\ eligible = Calls
  PROVE  /\ UNCHANGED <<log, mode>>
         /\ \E j \in DOMAIN log :
               /\ e = log[j] /\ 1..(j - 1) \subseteq seen /\ seen' = seen \cup {j}
               /\ \A c \in eligible \cap Known : \E i \in 1..(j - 1) : log[i] = UseEvent(c)
               /\ \A c \in Calls : (\E i \in 1..(j - 1) : log[i] = UseEvent(c)) => c \in eligible
         /\ Range(lp'.uses) = Range(lp.uses) /\ lp'.replayed = lp.replayed /\ Place' # "handle"
         /\ pc' = "event" => /\ pc = "event" /\ lp'.next = lp.next + 1
                             /\ lp.next \in DOMAIN log /\ e = log[lp.next]
<1>t. lp \in Listings /\ lp.next \in Nat /\ Len(log) \in Nat /\ log \in Seq(Events) /\ mode \in {"stream", "list"}
  BY ModesAssumption DEF CallsInv, TypeOK, Listings
<1>s. \A i \in seen : i \in DOMAIN log /\ 1..i \subseteq seen
  BY DEF ReadInv
<1>k. \A c \in Known : \E i \in seen : log[i] = UseEvent(c)
  BY DEF InterruptInv, SeenUse
<1>a. ASSUME NEW j \in DOMAIN log, j \notin seen, NEW c \in Known
      PROVE  \E i \in 1..(j - 1) : log[i] = UseEvent(c)
  <2>1. PICK i \in seen : log[i] = UseEvent(c)
    BY <1>k
  <2>2. i \in Nat /\ i >= 1 /\ j \in Nat /\ j >= 1 /\ j \notin 1..i
    BY <1>t, <1>s, <1>a
  <2>3. i \in 1..(j - 1)
    BY <2>2
  <2> QED
    BY <2>1, <2>3
<1>1. CASE ListedInterrupt /\ e = Current /\ eligible = Eligible
  <2>1. /\ UNCHANGED <<log, mode, pc, send>> /\ seen' = seen \cup {lp.next}
        /\ pc = "event" /\ AtEvent /\ (mode = "stream" \/ lp.next \notin seen)
    BY <1>1 DEF ListedInterrupt, AtNewEvent, AtEvent, plane
  <2>2. lp.next \in DOMAIN log /\ e = log[lp.next]
    BY <1>1, <2>1, CurrentIsEvent DEF Current
  <2>3. 1..(lp.next - 1) \subseteq seen
    BY <2>1 DEF ReadInv
  <2>4. lp'.next = lp.next + 1 /\ lp'.uses = lp.uses /\ lp'.replayed = lp.replayed
    BY <1>1, <1>t, TouchType DEF ListedInterrupt
  <2>5. Place' # "handle"
    BY <2>1 DEF Place, Sends
  <2>6. CASE mode = "stream"
    <3>1. eligible = lp.replayed
      BY <1>1, <2>6 DEF Eligible
    <3>2. /\ \A c \in lp.replayed : \E i \in 1..(lp.next - 1) : log[i] = UseEvent(c)
          /\ \A i \in 1..(lp.next - 1) : log[i].type = "use" => log[i].call \in lp.replayed
      BY <2>1, <2>6 DEF InterruptInv, ReplayInv
    <3>3. \A c \in Calls : UseEvent(c).type = "use" /\ UseEvent(c).call = c
      BY DEF UseEvent
    <3>4. \A c \in Calls : (\E i \in 1..(lp.next - 1) : log[i] = UseEvent(c)) => c \in eligible
      BY <3>1, <3>2, <3>3
    <3> QED
      BY <2>1, <2>2, <2>3, <2>4, <2>5, <3>1, <3>2, <3>4
  <2>7. CASE mode # "stream"
    <3>1. eligible = Calls /\ lp.next \notin seen
      BY <1>1, <2>1, <2>7 DEF Eligible
    <3>2. \A c \in Known : \E i \in 1..(lp.next - 1) : log[i] = UseEvent(c)
      BY <1>a, <2>2, <3>1
    <3> QED
      BY <2>1, <2>2, <2>3, <2>4, <2>5, <3>1, <3>2
  <2> QED
    BY <2>6, <2>7
<1>2. CASE StreamInterrupt /\ e = Arrived /\ eligible = Calls
  <2>1. /\ UNCHANGED <<log, mode, lp, send>> /\ seen' = seen \cup {stream} /\ AtStream /\ pc' = "top" /\ stream \notin seen
    BY <1>2 DEF StreamInterrupt, Consume, plane
  <2>2. stream \in DOMAIN log /\ e = log[stream] /\ pc = "select" /\ mode = "stream"
    BY <1>2, <2>1, ArrivedIsEvent DEF Arrived
  <2>3. 1..(stream - 1) \subseteq seen
    BY <2>2 DEF ReadInv, Place, Sends
  <2>4. Place' # "handle" /\ pc' # "event"
    BY <2>1 DEF Place, Sends
  <2>5. \A c \in Known : \E i \in 1..(stream - 1) : log[i] = UseEvent(c)
    BY <1>a, <2>1, <2>2
  <2> QED
    BY <1>2, <2>1, <2>2, <2>3, <2>4, <2>5
<1> QED
  BY <1>1, <1>2

\* An interrupt keeps InterruptInv: it settles all calls used before it and no others.
LEMMA InterruptInterruptInv ==
  ASSUME CallsInv, ReadInv, InterruptInv, ListedInterrupt \/ StreamInterrupt
  PROVE  InterruptInv'
<1>n. [Next]_vars
  BY StepKinds DEF LoudStep
<1>1. PICK e, eligible : \/ ListedInterrupt /\ e = Current /\ eligible = Eligible
                         \/ StreamInterrupt /\ e = Arrived /\ eligible = Calls
  OBVIOUS
<1>2. eligible \in SUBSET Calls
  BY <1>1 DEF Eligible, CallsInv, TypeOK, Listings
<1> DEFINE hit == Interrupted(rs, e.thread, eligible)
<1>3. /\ e.type = "interrupt"
      /\ hit \subseteq Calls
      /\ rs'.answered = rs.answered \cup hit /\ rs'.toolUses = rs.toolUses \ hit
      /\ rs'.pendingAsk = rs.pendingAsk \ hit
      /\ rs'.active = rs.active
      /\ Range(rs'.queue) = {c \in Range(rs.queue) : ~(c \in eligible /\ Matches(c, e.thread))}
  BY <1>1, <1>2, InterruptStepEffect
<1>4. /\ UNCHANGED <<log, mode>>
      /\ Range(lp'.uses) = Range(lp.uses) /\ lp'.replayed = lp.replayed /\ Place' # "handle"
      /\ pc' = "event" => /\ pc = "event" /\ lp'.next = lp.next + 1
                          /\ lp.next \in DOMAIN log /\ e = log[lp.next]
  BY <1>1, <1>2, InterruptStepMoves
<1>5. PICK j \in DOMAIN log :
               /\ e = log[j] /\ 1..(j - 1) \subseteq seen /\ seen' = seen \cup {j}
               /\ \A c \in eligible \cap Known : \E i \in 1..(j - 1) : log[i] = UseEvent(c)
               /\ \A c \in Calls : (\E i \in 1..(j - 1) : log[i] = UseEvent(c)) => c \in eligible
  BY <1>1, <1>2, InterruptStepMoves
<1>h. \A c \in hit : c \in Known /\ c \in eligible /\ Matches(c, e.thread)
  BY DEF Interrupted, Known
<1>hh. \A c \in rs.toolUses \ rs.answered : c \in eligible /\ Matches(c, e.thread) => c \in hit
  BY DEF Interrupted
<1> HIDE DEF hit, Place
<1>6. /\ \A c \in Calls : SeenUse(c)' <=> SeenUse(c) \/ log[j] = UseEvent(c)
      /\ \A c \in Calls : InterruptedIn(seen, c)' =>
           \/ InterruptedIn(seen, c)
           \/ Matches(c, e.thread) /\ \E i \in 1..(j - 1) : log[i] = UseEvent(c)
  BY <1>4, <1>5, ReadOneEvent
<1>7. \A c : log[j] # UseEvent(c)
  BY <1>3, <1>5 DEF UseEvent
<1>9. \A c \in Known' : SeenUse(c)'
  <2> DEFINE F == {}
  <2>1. /\ rs.active \in {NoCall} \cup Known
        /\ Range(rs.queue) \subseteq Known /\ rs.toolUses \subseteq Known /\ rs.pendingAsk \subseteq Known
        /\ Range(lp.uses) \subseteq Known /\ lp.replayed \subseteq Known
    BY ParkedKnown
  <2>2. /\ rs'.active \in {NoCall} \cup Known
        /\ Range(rs'.queue) \subseteq Known /\ rs'.toolUses \subseteq Known \cup F /\ rs'.pendingAsk \subseteq Known
        /\ Range(lp'.uses) \subseteq Known \cup F /\ lp'.replayed \subseteq Known \cup F
        /\ Place' = "handle" => todo' \subseteq Known \cup F
        /\ F \in SUBSET Calls /\ \A c \in F : SeenUse(c)'
    BY <1>3, <1>4, <2>1
  <2>4. \A c \in Known : SeenUse(c)
    BY DEF InterruptInv
  <2>5. seen \subseteq seen'
    BY <1>5
  <2> HIDE DEF F
  <2> QED
    BY <1>n, <2>2, <2>4, <2>5, KnownStays
<1>10. \A c \in Calls : SeenUse(c)' => c \in rs'.toolUses \cup rs'.answered
  BY <1>3, <1>6, <1>7 DEF InterruptInv
<1>11. \A c \in rs'.answered : Resolved(c)'
  <2>1. \A c \in rs.answered : Resolved(c)' /\ rs.answered \subseteq Calls
    BY <1>n, ResolvedStays DEF InterruptInv, CallsInv, TypeOK, RunnerStates
  <2>2. ASSUME NEW c \in hit PROVE Resolved(c)'
    <3>1. PICK i \in 1..(j - 1) : log[i] = UseEvent(c)
      BY <1>5, <1>h
    <3>2. log \in Seq(Events)
      BY DEF CallsInv, TypeOK
    <3>3. i \in DOMAIN log /\ i < j
      BY <3>1, <3>2, <1>5
    <3>4. InterruptedIn(DOMAIN log, c)
      BY <1>3, <1>5, <1>h, <3>1, <3>3 DEF InterruptedIn
    <3> QED
      BY <1>n, <1>3, <3>4, ResolvedStays DEF Resolved
  <2> QED
    BY <1>3, <2>1, <2>2
<1>12. \A c \in Calls : InterruptedIn(seen, c)' => c \in rs'.answered /\ c \notin Range(rs'.queue)
  <2> SUFFICES ASSUME NEW c \in Calls, InterruptedIn(seen, c)' PROVE c \in rs'.answered /\ c \notin Range(rs'.queue)
    OBVIOUS
  <2>1. CASE InterruptedIn(seen, c)
    BY <1>3, <2>1 DEF InterruptInv
  <2>2. CASE Matches(c, e.thread) /\ \E i \in 1..(j - 1) : log[i] = UseEvent(c)
    <3>1. SeenUse(c)
      BY <1>5, <2>2 DEF SeenUse
    <3>2. c \in rs.toolUses \cup rs.answered
      BY <3>1 DEF InterruptInv
    <3>3. c \in eligible
      BY <1>5, <2>2
    <3> QED
      BY <1>3, <1>hh, <2>2, <3>2, <3>3
  <2> QED
    BY <1>6, <2>1, <2>2
<1>13. ReplayInv'
  <2> SUFFICES ASSUME pc' = "event"
               PROVE  /\ \A c \in lp'.replayed : \E i \in 1..(lp'.next - 1) : log'[i] = UseEvent(c)
                      /\ mode' = "stream" => \A i \in 1..(lp'.next - 1) : log'[i].type = "use" => log'[i].call \in lp'.replayed
    BY DEF ReplayInv
  <2>1. /\ lp.next \in Nat \ {0} /\ pc = "event" /\ lp'.next = lp.next + 1 /\ e = log[lp.next] /\ log' = log /\ mode' = mode
        /\ lp'.replayed = lp.replayed
    BY <1>4 DEF CallsInv, TypeOK, Listings
  <2>2. /\ \A c \in lp.replayed : \E i \in 1..(lp.next - 1) : log[i] = UseEvent(c)
        /\ mode = "stream" => \A i \in 1..(lp.next - 1) : log[i].type = "use" => log[i].call \in lp.replayed
    BY <2>1 DEF InterruptInv, ReplayInv
  <2>3. lp'.next - 1 = lp.next /\ 1..lp.next = 1..(lp.next - 1) \cup {lp.next}
    BY <2>1
  <2>4. log[lp.next].type # "use"
    BY <1>3, <2>1
  <2>5. \A c \in lp'.replayed : \E i \in 1..lp.next : log[i] = UseEvent(c)
    BY <2>1, <2>2, <2>3
  <2>6. mode = "stream" => \A i \in 1..lp.next : log[i].type = "use" => log[i].call \in lp'.replayed
    BY <2>1, <2>2, <2>3, <2>4
  <2> QED
    BY <2>1, <2>3, <2>5, <2>6
<1> QED
  BY <1>9, <1>10, <1>11, <1>12, <1>13 DEF InterruptInv

\* Every step keeps InterruptInv.
LEMMA NextInterruptInv ==
  ASSUME CallsInv, ReadInv, DeliveredInv, ConsentInv, InterruptInv, [Next]_vars PROVE InterruptInv'
BY StepKinds, QuietInterruptInv, GoneInterruptInv, StartInterruptInv, SettlingInterruptInv, LearnInterruptInv,
   InterruptInterruptInv DEF LoudStep

-----------------------------------------------------------------------------
(* The idle timer                                                          *)

\* No tool use the runner has seen is open.
SeenResolved == \A i \in seen : log[i].type = "use" => Resolved(log[i].call)

\* The agent ends its turn only when every tool use before is resolved.
TurnsEnd ==
  \A i \in DOMAIN log : log[i].type = "end_turn" =>
     \A j \in 1..i : log[j].type = "use" => Resolved(log[j].call)

\* The timer is set only while nothing seen is open, but for a listing that has touched
\* the session and will take the timer back at its end; what it has touched counts from
\* the events on to the last call it handles.
IdleInv ==
  /\ TurnsEnd
  /\ TimerSet(rs) => SeenResolved \/ (pc = "event" /\ lp.touched)
  /\ lp.touched /\ lp.lastEndTurn => SeenResolved
  /\ lp.touched => Place \in {"event", "pending", "handle"}

\* IdleInv holds at first.
LEMMA InitIdleInv == Init => IdleInv
BY DEF Init, IdleInv, TurnsEnd, TimerSet, FreshState, NoList

\* Only an agent without open calls ends its turn.
LEMMA AppendedEndTurn ==
  ASSUME CallsInv, [Next]_vars
  PROVE  \/ log' = log
         \/ \E e \in Events : log' = Append(log, e) /\ (e.type = "end_turn" => OpenCalls = {})
<1>t. TypeOK
  BY DEF CallsInv
<1> DEFINE Goal == \/ log' = log
                   \/ \E e \in Events : log' = Append(log, e) /\ (e.type = "end_turn" => OpenCalls = {})
<1>3. CASE ControlPlane
  BY <1>t, <1>3, ControlPlaneEffect
<1>4. CASE QuietSend
  <2>1. /\ send.call \in Calls /\ send.result \in Results
        /\ log' = log \/ log' = Append(log, ResultEvent(send.call, send.result))
    BY <1>4, SendStepEffect DEF QuietSend, CallsInv, SendInv, Sends
  <2>2. ResultEvent(send.call, send.result) \in Events /\ ResultEvent(send.call, send.result).type # "end_turn"
    BY <2>1 DEF Events, ResultEvent
  <2> QED
    BY <2>1, <2>2
<1>5. CASE GoneStep \/ LoudStep
  BY <1>5, GoneStepEffect, LoudStepPlane DEF plane
<1>6. CASE QuietStep /\ ~ControlPlane /\ ~QuietSend
  <2>1. CASE QuietListing
    BY <2>1 DEF QuietListing, StreamOpens, StreamFails, EventsListed, ReconcileFails, PollFails, SeenBefore,
               PassOver, PendingDone, HandleDone, plane
  <2>2. CASE QuietHandling
    BY <2>2 DEF QuietHandling, HandleSettled, ResendResult, SkipExternal, Remaining, plane
  <2>3. CASE QuietFlush \/ QuietWait
    BY <2>3 DEF QuietFlush, FlushStarts, FlushEnds, FlushNext, QuietWait, StreamSeenBefore, Disconnected, SleepEnds,
               Tick, plane
  <2>4. CASE Goroutines \/ Cancel \/ UNCHANGED vars
    BY <2>4 DEF Goroutines, ToolReturns, ToolTimesOut, ToolCancelled, AbandonedToolEnds, Cancel, vars, plane
  <2> QED
    BY <1>6, <2>1, <2>2, <2>3, <2>4 DEF QuietStep
<1> QED
  BY <1>3, <1>4, <1>5, <1>6, StepKinds

\* Every step keeps TurnsEnd.
LEMMA NextTurnsEnd ==
  ASSUME CallsInv, TurnsEnd, [Next]_vars PROVE TurnsEnd'
<1>t. /\ log \in Seq(Events) /\ \A i \in DOMAIN log : i \in DOMAIN log' /\ log'[i] = log[i]
  BY LogOnlyGrows DEF CallsInv, TypeOK
<1>r. \A c \in Calls : Resolved(c) => Resolved(c)'
  BY ResolvedStays
<1>1. SUFFICES ASSUME NEW i \in DOMAIN log', log'[i].type = "end_turn", NEW j \in 1..i, log'[j].type = "use"
               PROVE  Resolved(log[j].call)' /\ log'[j] = log[j]
  <2> HIDE DEF Resolved
  <2> QED
    BY DEF TurnsEnd
<1>2. CASE i \in DOMAIN log
  <2>1. j \in DOMAIN log /\ log'[j] = log[j] /\ log'[i] = log[i] /\ log[j] \in Events
    BY <1>t, <1>2
  <2>2. Resolved(log[j].call) /\ log[j].call \in Calls
    BY <1>1, <1>2, <2>1, EventFields DEF TurnsEnd
  <2> QED
    BY <1>r, <2>1, <2>2
<1>3. CASE i \notin DOMAIN log
  <2>1. PICK e \in Events : log' = Append(log, e) /\ (e.type = "end_turn" => OpenCalls = {})
    BY <1>3, AppendedEndTurn
  <2>2. i = Len(log) + 1 /\ log'[i] = e
    BY <1>t, <1>3, <2>1
  <2>3. j # i
    BY <1>1
  <2>4. j \in DOMAIN log /\ log'[j] = log[j] /\ log[j] \in Events
    BY <1>t, <2>2, <2>3
  <2>5. log[j].call \in Calls /\ log[j].call \in Used /\ OpenCalls = {}
    BY <1>1, <2>1, <2>2, <2>4, EventFields DEF Used
  <2>6. Resolved(log[j].call)
    BY <2>5 DEF OpenCalls
  <2> QED
    BY <1>r, <2>4, <2>5, <2>6
<1> QED
  BY <1>2, <1>3

\* What was seen and resolved stays so, whatever else is seen that is no tool use.
LEMMA SeenResolvedStays ==
  ASSUME CallsInv, ReadInv, [Next]_vars, SeenResolved,
         \A i \in seen' : i \in seen \/ (i \in DOMAIN log /\ log[i].type # "use")
  PROVE  SeenResolved'
<1>1. \A i \in seen : i \in DOMAIN log /\ log'[i] = log[i] /\ log[i] \in Events
  BY LogOnlyGrows DEF ReadInv, CallsInv, TypeOK
<1>2. \A i \in DOMAIN log : log'[i] = log[i]
  BY LogOnlyGrows
<1>3. \A c \in Calls : Resolved(c) => Resolved(c)'
  BY ResolvedStays
<1>4. SUFFICES ASSUME NEW i \in seen', log'[i].type = "use" PROVE Resolved(log[i].call)' /\ log'[i] = log[i]
  <2> HIDE DEF Resolved
  <2> QED
    BY DEF SeenResolved
<1>5. i \in seen /\ log'[i] = log[i] /\ log[i].type = "use" /\ log[i].call \in Calls
  BY <1>1, <1>2, <1>4, EventFields
<1>6. Resolved(log[i].call)
  BY <1>5 DEF SeenResolved
<1> QED
  BY <1>3, <1>5, <1>6

\* Once an end_turn is seen no tool use seen is open, if all before it was seen.
LEMMA EndTurnSeen ==
  ASSUME CallsInv, ReadInv, TurnsEnd, [Next]_vars, UNCHANGED log,
         NEW j \in DOMAIN log, j \notin seen, seen' = seen \cup {j}, log[j].type = "end_turn"
  PROVE  SeenResolved'
<1>t. log \in Seq(Events) /\ \A i \in seen : i \in DOMAIN log /\ 1..i \subseteq seen
  BY DEF CallsInv, TypeOK, ReadInv
<1>1. \A i \in seen' : i \in 1..j
  BY <1>t
<1>2. ASSUME NEW i \in seen', log[i].type = "use" PROVE Resolved(log[i].call)'
  <2>1. i \in DOMAIN log /\ log[i] \in Events /\ Resolved(log[i].call)
    BY <1>t, <1>1, <1>2 DEF TurnsEnd
  <2>2. log[i].call \in Calls
    BY <1>2, <2>1, EventFields
  <2> QED
    BY <2>1, <2>2, ResolvedStays
<1> QED
  <2> HIDE DEF Resolved
  <2> QED
    BY <1>2 DEF SeenResolved

\* A step that sees no new event: the timer was set before, or nothing seen is open.
LEMMA StayIdleInv ==
  ASSUME CallsInv, ReadInv, IdleInv, [Next]_vars, UNCHANGED seen,
         TimerSet(rs') => TimerSet(rs) \/ SeenResolved,
         pc = "event" /\ lp.touched => ~TimerSet(rs') \/ (pc' = "event" /\ lp'.touched),
         lp'.touched => /\ lp.touched /\ lp'.lastEndTurn = lp.lastEndTurn
                        /\ Place' \in {"event", "pending", "handle"}
  PROVE  IdleInv'
<1>1. TurnsEnd'
  BY NextTurnsEnd DEF IdleInv
<1>2. SeenResolved => SeenResolved'
  BY SeenResolvedStays
<1>3. TimerSet(rs)' => SeenResolved' \/ (pc' = "event" /\ lp'.touched)
  <2> HIDE DEF SeenResolved
  <2> QED
    BY <1>2 DEF IdleInv, TimerSet
<1>4. lp'.touched /\ lp'.lastEndTurn => SeenResolved'
  <2> HIDE DEF SeenResolved
  <2> QED
    BY <1>2 DEF IdleInv
<1> QED
  BY <1>1, <1>3, <1>4 DEF IdleInv

\* A step that neither reads nor lists, and stays where it is or was not in a listing.
LEMMA StillIdleInv ==
  ASSUME CallsInv, ReadInv, IdleInv, [Next]_vars, UNCHANGED seen,
         TimerSet(rs') => TimerSet(rs),
         lp'.touched = lp.touched, lp'.lastEndTurn = lp.lastEndTurn,
         \/ Place' = Place /\ (pc = "event" => pc' = "event")
         \/ Place \notin {"event", "pending", "handle"}
         \/ Place = "pending" /\ Place' = "handle"
  PROVE  IdleInv'
<1>1. lp.touched => Place \in {"event", "pending", "handle"}
  BY DEF IdleInv
<1>2. lp'.touched => Place' \in {"event", "pending", "handle"}
  BY <1>1
<1>3. pc = "event" /\ lp.touched => pc' = "event"
  BY DEF Place, Sends
<1> QED
  BY <1>2, <1>3, StayIdleInv

\* The end of a runner leaves nothing seen and no timer.
LEMMA GoneIdleInv ==
  ASSUME CallsInv, ReadInv, IdleInv, GoneStep PROVE IdleInv'
<1>1. [Next]_vars
  BY StepKinds
<1>2. PICK why \in {"idle", "terminated", "cancelled", "error", "died"} : Gone(why)
  BY GoneStepEffect
<1>3. rs' = FreshState /\ lp' = NoList
  BY <1>2, GoneEffect
<1>4. ~TimerSet(rs') /\ ~lp'.touched
  BY <1>3 DEF FreshState, NoList, TimerSet
<1>5. TurnsEnd'
  BY <1>1, NextTurnsEnd DEF IdleInv
<1> QED
  BY <1>4, <1>5 DEF IdleInv, TimerSet

\* handleToolUse sets no timer.
LEMMA HandlingIdleInv ==
  ASSUME CallsInv, ReadInv, IdleInv, NEW c \in Calls, HandleToolUse(c) PROVE IdleInv'
<1>t. TypeOK /\ rs \in RunnerStates /\ Orderly(rs)
  BY DEF CallsInv, TypeOK
<1>n. [Next]_vars
  BY DEF Next, EventLoop
<1>0. CASE BeginFails(c)
  BY <1>0, GoneIdleInv DEF GoneStep
<1> SUFFICES ASSUME ~BeginFails(c) PROVE IdleInv'
  BY <1>0
<1>1. Handles(c) /\ UNCHANGED Remaining
  BY DEF HandleToolUse, HandleSettled, ResendResult, SkipExternal, AwaitConfirmation,
         ResolveWithoutPost, BeginFresh, BeginRecorded, Allowed
<1>2. pc \in {"pending", "handle"} /\ lp'.touched = lp.touched /\ lp'.lastEndTurn = lp.lastEndTurn
  BY <1>t, <1>1 DEF Handles, TypeOK, Listings
<1>3. ASSUME NEW r, StartSend(c, r, "use", pc) PROVE pc' = "send" /\ send'.back = pc
  BY <1>3 DEF StartSend, NoSend
<1>4. UNCHANGED <<pc, send>> \/ \E r : StartSend(c, r, "use", pc)
  BY DEF HandleToolUse, HandleSettled, ResendResult, SkipExternal, AwaitConfirmation,
         ResolveWithoutPost, BeginFresh, BeginRecorded
<1>5. Place' = Place /\ pc # "event"
  BY <1>2, <1>3, <1>4 DEF Place, Sends
<1>6. TimerSet(rs') => TimerSet(rs)
  <2>1. CASE HandleSettled(c) \/ ResendResult(c)
    BY <2>1 DEF HandleSettled, ResendResult
  <2>2. CASE SkipExternal(c)
    <3> DEFINE u == [rs EXCEPT !.external = @ \cup {c}]
    <3>1. u \in RunnerStates /\ u.armed = rs.armed /\ u.armPending = rs.armPending
      BY <1>t DEF RunnerStates
    <3>2. rs' = MaybeArmPendingIdle(u)
      BY <2>2 DEF SkipExternal
    <3> HIDE DEF u
    <3> QED
      BY <3>1, <3>2, IdleTimer DEF TimerSet
  <2>3. CASE AwaitConfirmation(c)
    BY <1>t, <2>3 DEF AwaitConfirmation, TimerSet, RunnerStates
  <2>4. CASE ResolveWithoutPost(c)
    BY <1>t, <2>4, MarkAllAnsweredTimer DEF ResolveWithoutPost, MarkAnswered
  <2>5. CASE BeginFresh(c)
    BY <1>t, <2>5, QueueTimer DEF BeginFresh, Become
  <2>6. CASE BeginRecorded(c)
    <3>1. PICK r : rs' = MarkAnswered(rs, c) \/ rs' = [rs EXCEPT !.pendingResults[c] = r]
      BY <2>6 DEF BeginRecorded
    <3>2. CASE rs' = MarkAnswered(rs, c)
      BY <1>t, <3>2, MarkAllAnsweredTimer DEF MarkAnswered
    <3>3. CASE rs' = [rs EXCEPT !.pendingResults[c] = r]
      BY <1>t, <3>3 DEF TimerSet, RunnerStates
    <3> QED
      BY <3>1, <3>2, <3>3
  <2> QED
    BY <2>1, <2>2, <2>3, <2>4, <2>5, <2>6 DEF HandleToolUse
<1> QED
  BY <1>n, <1>1, <1>2, <1>5, <1>6, StillIdleInv DEF Remaining

\* Finishing an execution and sending set no timer, and are not part of a listing but where
\* they go back to it.
LEMMA DeliveryIdleInv ==
  ASSUME CallsInv, ReadInv, IdleInv, Delivery PROVE IdleInv'
<1>t. TypeOK /\ rs \in RunnerStates /\ Orderly(rs) /\ ExecInv /\ SendInv
  BY DEF CallsInv, TypeOK
<1>n. [Next]_vars
  BY DEF Next, EventLoop
<1>1. CASE SendCancelled
  BY <1>1, GoneIdleInv DEF GoneStep
<1>2. CASE FinishAnswered
  <2>1. UNCHANGED <<seen, lp, send>> /\ pc \in {"select", "sleep"} /\ rs' = StartNext(ClearActive(rs))
    BY <1>2 DEF FinishAnswered
  <2>2. ClearActive(rs) \in RunnerStates
    BY <1>t, ClearActiveEffect
  <2>3. TimerSet(rs') => TimerSet(rs)
    <3>1. exec.call \in Calls
      BY <1>t, <1>2 DEF FinishAnswered, TypeOK, ExecStates, ExecInv
    <3> QED
      BY <1>t, <2>1, <2>2, <3>1, QueueTimer
  <2> QED
    BY <1>n, <2>1, <2>3, StillIdleInv DEF Place, Sends
<1>3. CASE FinishUnanswered
  <2>1. /\ UNCHANGED <<seen, lp>> /\ pc \in {"select", "sleep"} /\ exec.call \in Calls
        /\ rs' \in {[ClearActive(rs) EXCEPT !.pendingResults[exec.call] = exec.result], ClearActive(rs)}
    BY <1>3, <1>t DEF FinishUnanswered, TypeOK, ExecStates, ExecInv
  <2>2. ClearActive(rs) \in RunnerStates /\ (TimerSet(ClearActive(rs)) => TimerSet(rs))
    BY <1>t, <2>1, ClearActiveEffect, QueueTimer
  <2> DEFINE u == ClearActive(rs)
             w == [u EXCEPT !.pendingResults[exec.call] = exec.result]
  <2>3. w.armed = u.armed /\ w.armPending = u.armPending
    <3> HIDE DEF u
    <3> QED
      BY <2>2 DEF RunnerStates
  <2>4. TimerSet(rs') => TimerSet(rs)
    BY <2>1, <2>2, <2>3 DEF TimerSet
  <2> QED
    BY <1>n, <2>1, <2>4, StillIdleInv DEF Place, Sends
<1>4. CASE SendAccepted \/ SendRefused \/ SendConflicts \/ SendFails
  <2>1. pc = "send" /\ UNCHANGED Sending /\ pc' \in Sends /\ send'.back = send.back
    BY <1>4, SendStepEffect
  <2>2. Place' = Place /\ pc # "event" /\ UNCHANGED <<rs, seen, lp>>
    BY <2>1 DEF Place, Sends, Sending
  <2> QED
    BY <1>n, <2>2, StillIdleInv
<1>5. CASE SendEnds
  <2>1. pc = "sent" /\ pc' = send.back /\ UNCHANGED <<seen, lp>> /\ rs' = NextState
    BY <1>5 DEF SendEnds, Become, NextState
  <2>2. pc' \in {"pending", "handle", "flush", "top", "list", "sleep"} /\ send.call \in Calls
    BY <1>t, <2>1 DEF SendInv, Sends
  <2>3. Place' = Place
    BY <2>1, <2>2 DEF Place, Sends
  <2>4. AfterSend(rs) \in RunnerStates
    BY <2>1, AfterSendEffect DEF Frame
  <2>5. TimerSet(AfterSend(rs)) => TimerSet(rs)
    <3>1. TimerSet(MarkAnswered(rs, send.call)) => TimerSet(rs)
      BY <1>t, <2>2, MarkAllAnsweredTimer DEF MarkAnswered
    <3>2. TimerSet([rs EXCEPT !.pendingResults[send.call] = send.result]) => TimerSet(rs)
      BY <1>t DEF TimerSet, RunnerStates
    <3> QED
      BY <3>1, <3>2 DEF AfterSend
  <2>6. TimerSet(rs') => TimerSet(rs)
    BY <2>1, <2>2, <2>4, <2>5, QueueTimer DEF NextState
  <2> QED
    BY <1>n, <2>1, <2>3, <2>6, StillIdleInv
<1>6. CASE FlushStarts \/ FlushEnds \/ \E c \in Calls : FlushNext(c)
  <2>1. /\ UNCHANGED <<seen, lp>> /\ pc \in {"top", "flush"}
        /\ rs' \in {rs, MaybeArmPendingIdle(rs)}
    BY <1>6 DEF FlushStarts, FlushEnds, FlushNext
  <2>2. TimerSet(rs') => TimerSet(rs)
    BY <1>t, <2>1, IdleTimer
  <2> QED
    BY <1>n, <2>1, <2>2, StillIdleInv DEF Place, Sends
<1> QED
  BY <1>1, <1>2, <1>3, <1>4, <1>5, <1>6 DEF Delivery

\* A listing arms the timer only where the last new event was an end_turn, and takes it back
\* at its end if it has touched the session.
LEMMA ListingIdleInv ==
  ASSUME CallsInv, ReadInv, IdleInv, Listing, ~ListedEvent, ~ListedInterrupt PROVE IdleInv'
<1>t. TypeOK /\ rs \in RunnerStates /\ Orderly(rs) /\ lp \in Listings
  BY DEF CallsInv, TypeOK
<1>n. [Next]_vars
  BY DEF Next, EventLoop
<1>0. ~NoList.touched /\ NoList \in Listings
  BY Defaults DEF NoList
<1>1. CASE StreamRefused \/ ListedTermination
  BY <1>1, GoneIdleInv DEF GoneStep
<1>2. CASE StreamOpens \/ StreamFails \/ ReconcileFails
  <2>1. UNCHANGED <<rs, seen, lp>> /\ pc \in {"open", "list"}
    BY <1>2 DEF StreamOpens, StreamFails, ReconcileFails
  <2> QED
    BY <1>n, <2>1, StillIdleInv DEF Place, Sends
<1>3. CASE EventsListed \/ PollFails
  <2>1. UNCHANGED <<rs, seen>> /\ pc = "list" /\ (UNCHANGED lp \/ \E n \in Nat, b \in BOOLEAN : List(n, b))
    <3>1. Len(log) \in Nat
      BY <1>t DEF TypeOK
    <3>2. CASE EventsListed
      BY <3>1, <3>2 DEF EventsListed
    <3>3. CASE PollFails
      <4>1. \A n \in 0..Len(log) : n \in Nat
        BY <3>1
      <4> QED
        BY <3>3, <4>1 DEF PollFails
    <3> QED
      BY <1>3, <3>2, <3>3
  <2>2. ASSUME NEW n \in Nat, NEW b \in BOOLEAN, List(n, b) PROVE ~lp'.touched
    BY <2>2, <1>0 DEF List, Listings
  <2>3. ~lp.touched
    BY <2>1 DEF IdleInv, Place, Sends
  <2>4. ~lp'.touched
    BY <2>1, <2>2, <2>3
  <2> QED
    BY <1>n, <2>1, <2>4, StayIdleInv
<1>4. CASE SeenBefore \/ PassOver \/ PendingDone
  <2>1. UNCHANGED <<rs, seen>> /\ lp'.touched = lp.touched /\ lp'.lastEndTurn = lp.lastEndTurn
    BY <1>t, <1>4 DEF SeenBefore, PassOver, PendingDone, Listings
  <2>2. \/ pc' = pc /\ pc \notin Sends
        \/ pc = "pending" /\ pc' = "handle"
    BY <1>4 DEF SeenBefore, AtEvent, PassOver, PendingDone, Sends
  <2>3. \/ Place' = Place /\ (pc = "event" => pc' = "event")
        \/ Place = "pending" /\ Place' = "handle"
    BY <2>2 DEF Place, Sends
  <2> QED
    BY <1>n, <2>1, <2>3, StillIdleInv
<1>5. CASE ListEnds
  <2> DEFINE s == ReconcileUnmatchedRequiresAction(rs)
             t == ReconcileRecoveredResults(s)
  <2>1. /\ UNCHANGED <<seen, lp>> /\ pc = "event" /\ pc' = "pending"
        /\ rs' = IF lp.touched THEN DisarmIdle(t) ELSE t
    BY <1>5 DEF ListEnds
  <2>2. s \in RunnerStates /\ (TimerSet(s) => TimerSet(rs))
    BY <1>t, ReconcileUnmatchedEffect, ReconcileTimer
  <2>3. t \in RunnerStates /\ (TimerSet(t) => TimerSet(s))
    <3> HIDE DEF s
    <3> QED
      BY <2>2, ReconcileRecoveredEffect, ReconcileTimer
  <2> HIDE DEF s, t
  <2>4. lp.touched => ~TimerSet(rs')
    BY <2>1, <2>3, IdleTimer
  <2>5. TimerSet(rs') => TimerSet(rs)
    BY <2>1, <2>2, <2>3, <2>4
  <2>6. Place' = "pending"
    BY <2>1 DEF Place, Sends
  <2> QED
    BY <1>n, <2>1, <2>4, <2>5, <2>6, StayIdleInv
<1>6. CASE HandleDone
  <2>1. /\ UNCHANGED seen /\ pc = "handle" /\ lp' = NoList
        /\ rs' = IF lp.on /\ lp.touched /\ lp.lastEndTurn THEN ArmIdle(rs) ELSE rs
    BY <1>6 DEF HandleDone
  <2>2. TimerSet(rs') => TimerSet(rs) \/ SeenResolved
    <3> HIDE DEF SeenResolved
    <3> QED
      BY <2>1 DEF IdleInv
  <2>3. ~lp'.touched
    BY <1>0, <2>1
  <2> QED
    BY <1>n, <2>1, <2>2, <2>3, StayIdleInv
<1> QED
  BY <1>1, <1>2, <1>3, <1>4, <1>5, <1>6 DEF Listing

\* Learning an event sets no timer.
LEMMA LearnTimer ==
  ASSUME NEW s \in RunnerStates, NEW e \in Events
  PROVE  TimerSet(Learn(s, e)) => TimerSet(s)
<1>1. CASE e.type = "confirm"
  <2>1. TimerSet(RecordConfirmation(s, e.call, e.verdict)) => TimerSet(s)
    BY DEF RecordConfirmation, TimerSet, RunnerStates
  <2> QED
    BY <1>1, <2>1 DEF Learn
<1>2. CASE e.type = "result"
  <2>1. {e.call} \in SUBSET Calls
    BY <1>2, EventFields
  <2>2. TimerSet(MarkAllAnswered(s, {e.call})) => TimerSet(s)
    BY <2>1, MarkAllAnsweredTimer
  <2> QED
    BY <1>2, <2>2 DEF Learn, MarkAnswered
<1>3. CASE e.type \notin {"confirm", "result"}
  BY <1>3 DEF Learn
<1> QED
  BY <1>1, <1>2, <1>3

\* What Touch and Collect note for the idle timer.
LEMMA TouchFlags ==
  ASSUME lp \in Listings, NEW e, NEW new, NEW c
  PROVE  LET l == Touch(e, new)
         IN /\ Collect(l, c).touched = l.touched /\ Collect(l, c).lastEndTurn = l.lastEndTurn
            /\ new /\ e.type # "confirm" => l.touched /\ (l.lastEndTurn => e.type = "end_turn")
            /\ ~new \/ e.type = "confirm" => l.touched = lp.touched /\ l.lastEndTurn = lp.lastEndTurn
<1> DEFINE l == Touch(e, new)
           ended == e.type = "end_turn"
           far == [lp EXCEPT !.next = @ + 1, !.touched = TRUE, !.lastEndTurn = ended]
           near == [lp EXCEPT !.next = @ + 1]
<1>1. l \in Listings
  BY TouchType
<1>2. Collect(l, c).touched = l.touched /\ Collect(l, c).lastEndTurn = l.lastEndTurn
  <2> DEFINE u == IF c \in Range(l.uses) THEN l.uses ELSE Append(l.uses, c)
             r == l.replayed \cup {c}
  <2>1. Collect(l, c) = [l EXCEPT !.replayed = r, !.uses = u]
    BY DEF Collect
  <2> HIDE DEF l, u, r
  <2> QED
    BY <1>1, <2>1 DEF Listings
<1>3. near.touched = lp.touched /\ near.lastEndTurn = lp.lastEndTurn
  BY DEF Listings
<1>4. far.touched = TRUE /\ far.lastEndTurn = ended
  <2> HIDE DEF ended
  <2> QED
    BY DEF Listings
<1>5. new /\ e.type # "confirm" => l = far
  BY DEF Touch
<1>6. ~new \/ e.type = "confirm" => l = near
  BY DEF Touch
<1> HIDE DEF l, far, near
<1> QED
  BY <1>2, <1>3, <1>4, <1>5, <1>6 DEF l, ended

\* A listed event takes no effect on the timer but through the marks of the listing.
LEMMA ListedIdleInv ==
  ASSUME CallsInv, ReadInv, IdleInv, ListedEvent \/ ListedInterrupt PROVE IdleInv'
<1>t. TypeOK /\ rs \in RunnerStates /\ Orderly(rs) /\ lp \in Listings
  BY DEF CallsInv, TypeOK
<1>n. [Next]_vars
  BY DEF Next, EventLoop, Listing
<1> DEFINE e == Current
           l == Touch(e, lp.next \notin seen)
<1>1. /\ UNCHANGED <<log, pc, send>> /\ AtEvent /\ seen' = seen \cup {lp.next}
      /\ lp' \in {l} \cup {Collect(l, c) : c \in Calls}
  <2>1. CASE ListedInterrupt
    BY <2>1 DEF ListedInterrupt, AtNewEvent, plane
  <2>2. CASE ListedEvent
    <3>1. UNCHANGED <<log, pc, send>> /\ AtEvent /\ seen' = seen \cup {lp.next}
          /\ lp' = IF e.type = "use" THEN Collect(l, e.call) ELSE l
      BY <2>2 DEF ListedEvent, AtNewEvent, plane
    <3>2. e.type = "use" => e.call \in Calls
      BY <3>1, CurrentIsEvent, EventFields
    <3> HIDE DEF l, e
    <3> QED
      BY <3>1, <3>2
  <2> QED
    BY <2>1, <2>2
<1>2. e \in Events /\ lp.next \in DOMAIN log /\ e = log[lp.next] /\ pc = "event"
  BY <1>1, CurrentIsEvent DEF Current
<1>3. TimerSet(rs') => TimerSet(rs)
  <2>1. Observed \in RunnerStates /\ Orderly(Observed)
    BY <1>t, <1>2, ObservedEffect DEF Observed, Frame
  <2>2. TimerSet(Observed) => TimerSet(rs)
    BY <1>t, ObserveTimer DEF Observed
  <2> HIDE DEF e
  <2>3. CASE ListedInterrupt
    <3>1. rs' = HandleInterrupt(Observed, Current.thread, Eligible)
      BY <2>3 DEF ListedInterrupt
    <3>2. Eligible \in SUBSET Calls
      BY <1>t DEF Eligible, Listings
    <3> QED
      BY <2>1, <2>2, <3>1, <3>2, HandleInterruptTimer
  <2>4. CASE ListedEvent
    <3>1. rs' = Learn(Observed, e)
      BY <2>4 DEF ListedEvent, e
    <3>2. TimerSet(Learn(Observed, e)) => TimerSet(Observed)
      BY <1>2, <2>1, LearnTimer
    <3> QED
      BY <2>2, <3>1, <3>2
  <2> QED
    BY <2>3, <2>4
<1>4. /\ lp'.touched = l.touched /\ lp'.lastEndTurn = l.lastEndTurn
      /\ (lp.next \notin seen /\ e.type # "confirm") => l.touched /\ (l.lastEndTurn => e.type = "end_turn")
      /\ (lp.next \in seen \/ e.type = "confirm") => l.touched = lp.touched /\ l.lastEndTurn = lp.lastEndTurn
  <2>1. /\ \A c \in Calls : Collect(l, c).touched = l.touched /\ Collect(l, c).lastEndTurn = l.lastEndTurn
        /\ (lp.next \notin seen /\ e.type # "confirm") => l.touched /\ (l.lastEndTurn => e.type = "end_turn")
        /\ (lp.next \in seen \/ e.type = "confirm") => l.touched = lp.touched /\ l.lastEndTurn = lp.lastEndTurn
    <3> HIDE DEF e
    <3>1. \A c \in Calls : LET k == Touch(e, lp.next \notin seen)
                           IN Collect(k, c).touched = k.touched /\ Collect(k, c).lastEndTurn = k.lastEndTurn
      BY <1>t, TouchFlags
    <3>2. LET k == Touch(e, lp.next \notin seen)
          IN /\ (lp.next \notin seen /\ e.type # "confirm") => k.touched /\ (k.lastEndTurn => e.type = "end_turn")
             /\ (~(lp.next \notin seen) \/ e.type = "confirm") =>
                  k.touched = lp.touched /\ k.lastEndTurn = lp.lastEndTurn
      BY <1>t, TouchFlags
    <3> QED
      BY <3>1, <3>2
  <2> HIDE DEF l
  <2> QED
    BY <1>1, <2>1
<1>5. Place' = "event" /\ pc' = "event" /\ TurnsEnd'
  BY <1>n, <1>1, <1>2, NextTurnsEnd DEF Place, Sends, IdleInv
<1> HIDE DEF l
<1>6. CASE lp.next \in seen \/ e.type = "confirm"
  <2>1. \A i \in seen' : i \in seen \/ (i \in DOMAIN log /\ log[i].type # "use")
    BY <1>1, <1>2, <1>6
  <2>2. SeenResolved => SeenResolved'
    BY <1>n, <2>1, SeenResolvedStays
  <2>3. lp'.touched = lp.touched /\ lp'.lastEndTurn = lp.lastEndTurn
    BY <1>4, <1>6
  <2>4. TimerSet(rs)' => TimerSet(rs)
    BY <1>3 DEF TimerSet
  <2> QED
    <3> HIDE DEF SeenResolved, TimerSet, Place
    <3> QED
      BY <1>5, <2>2, <2>3, <2>4 DEF IdleInv
<1>7. CASE lp.next \notin seen /\ e.type # "confirm"
  <2>1. e.type = "end_turn" => SeenResolved'
    BY <1>n, <1>1, <1>2, <1>7, EndTurnSeen DEF IdleInv
  <2> QED
    <3> HIDE DEF SeenResolved, TimerSet, Place
    <3> QED
      BY <1>4, <1>5, <1>7, <2>1 DEF IdleInv
<1> QED
  BY <1>6, <1>7

\* An event of the stream arms the timer only if it is an end_turn; any other but a
\* confirmation takes it back.
LEMMA StreamIdleInv ==
  ASSUME CallsInv, ReadInv, IdleInv, StreamEvent \/ StreamInterrupt PROVE IdleInv'
<1>t. TypeOK /\ rs \in RunnerStates /\ Orderly(rs) /\ log \in Seq(Events)
  BY DEF CallsInv, TypeOK
<1>n. [Next]_vars
  BY DEF Next, EventLoop, Waiting
<1> DEFINE e == Arrived
           o == ObserveSessionState(rs, e)
           r == ReconcileRecoveredResults(o)
<1>1. UNCHANGED <<log, lp>> /\ AtStream /\ stream \notin seen /\ seen' = seen \cup {stream}
  BY DEF StreamEvent, StreamInterrupt, Consume, plane
<1>2. e \in Events /\ stream \in DOMAIN log /\ e = log[stream] /\ pc = "select"
  BY <1>1, ArrivedIsEvent DEF Arrived
<1>3. ~lp'.touched
  BY <1>1, <1>2 DEF IdleInv, Place, Sends
<1>4. TurnsEnd'
  BY <1>n, NextTurnsEnd DEF IdleInv
<1> HIDE DEF e
<1>5. o \in RunnerStates /\ Orderly(o) /\ (TimerSet(o) => TimerSet(rs))
  BY <1>t, <1>2, ObservedEffect, ObserveTimer DEF Frame
<1>6. r \in RunnerStates /\ (TimerSet(r) => TimerSet(rs))
  <2> HIDE DEF o
  <2> QED
    BY <1>5, ReconciledEffect, ReconcileTimer DEF Frame
<1>7. Noted = NoteIdleEvent(r, e)
  BY DEF Noted, e
<1>8. Noted \in RunnerStates /\ Orderly(Noted)
  BY <1>t, <1>2, NotedEffect DEF Noted, Frame, e
<1> HIDE DEF o, r
<1>9. TimerSet(Noted) => e.type = "end_turn" \/ (e.type = "confirm" /\ TimerSet(rs))
  BY <1>6, <1>7, IdleTimer DEF NoteIdleEvent
<1>10. TimerSet(rs') => TimerSet(Noted)
  <2>1. CASE StreamInterrupt
    <3>1. rs' = HandleInterrupt(Noted, Arrived.thread, Calls)
      BY <2>1 DEF StreamInterrupt
    <3> QED
      BY <1>8, <3>1, HandleInterruptTimer
  <2>2. CASE StreamEvent
    <3>1. rs' = Learn(Noted, e)
      BY <2>2 DEF StreamEvent, e
    <3> QED
      BY <1>2, <1>8, <3>1, LearnTimer
  <2> QED
    BY <2>1, <2>2
<1>11. TimerSet(rs)' => SeenResolved'
  <2> SUFFICES ASSUME TimerSet(rs') PROVE SeenResolved'
    BY DEF TimerSet
  <2>1. CASE e.type = "end_turn"
    BY <1>n, <1>1, <1>2, <2>1, EndTurnSeen DEF IdleInv
  <2>2. CASE e.type = "confirm" /\ TimerSet(rs)
    <3>1. SeenResolved
      BY <1>2, <2>2 DEF IdleInv
    <3>2. \A i \in seen' : i \in seen \/ (i \in DOMAIN log /\ log[i].type # "use")
      BY <1>1, <1>2, <2>2
    <3> QED
      BY <1>n, <3>1, <3>2, SeenResolvedStays
  <2> QED
    BY <1>9, <1>10, <2>1, <2>2
<1> QED
  BY <1>3, <1>4, <1>11 DEF IdleInv

\* Every step keeps IdleInv.
LEMMA NextIdleInv ==
  ASSUME CallsInv, ReadInv, IdleInv, [Next]_vars PROVE IdleInv'
<1>t. TypeOK /\ rs \in RunnerStates
  BY DEF CallsInv, TypeOK
<1>1. CASE UNCHANGED vars \/ ControlPlane \/ Goroutines \/ Cancel
  <2>1. UNCHANGED <<pc, rs, seen, lp, send>>
    <3>1. ControlPlane => UNCHANGED loop
      BY <1>t, ControlPlaneEffect
    <3> QED
      BY <1>1, <3>1 DEF vars, loop, Goroutines, ToolReturns, ToolTimesOut, ToolCancelled, AbandonedToolEnds, Cancel
  <2> QED
    BY <2>1, StillIdleInv DEF Place
<1>2. CASE Start
  <2>1. /\ pc = "down" /\ UNCHANGED <<seen, lp, send>> /\ rs' = Recovered(SettleStarted(ledger))
    BY <1>2 DEF Start
  <2>2. ~TimerSet(rs')
    <3>1. FreshState \in RunnerStates /\ ~TimerSet(FreshState)
      BY FreshIsOrderly DEF FreshState, TimerSet
    <3> DEFINE f == FreshState
    <3>2. \E ans, pend, rec : rs' = [f EXCEPT !.answered = ans, !.pendingResults = pend, !.recovered = rec]
      BY <2>1 DEF Recovered
    <3> HIDE DEF f
    <3>3. f \in RunnerStates /\ ~TimerSet(f)
      BY <3>1 DEF f
    <3> QED
      BY <3>2, <3>3 DEF TimerSet, RunnerStates
  <2>3. ~lp'.touched
    BY <2>1 DEF CallsInv, PlaceInv, NoList
  <2> QED
    BY <2>1, <2>2, <2>3, StayIdleInv
<1>3. CASE Listing
  BY <1>3, ListingIdleInv, ListedIdleInv
<1>4. CASE Delivery
  BY <1>4, DeliveryIdleInv
<1>5. ASSUME NEW c \in Calls, HandleToolUse(c) PROVE IdleInv'
  BY <1>5, HandlingIdleInv
<1>6. CASE StreamTermination \/ IdleTimeout \/ CancelSeen \/ Crash
  BY <1>6, GoneIdleInv DEF GoneStep
<1>7. CASE StreamEvent \/ StreamInterrupt
  BY <1>7, StreamIdleInv
<1>8. CASE Disconnected \/ SleepEnds \/ Tick
  <2>1. UNCHANGED <<rs, seen, lp, send>> /\ pc \in {"select", "sleep"}
    BY <1>8 DEF Disconnected, SleepEnds, Tick
  <2> QED
    BY <2>1, StillIdleInv DEF Place, Sends
<1>9. CASE StreamSeenBefore
  <2>1. UNCHANGED <<rs, lp>> /\ pc = "select" /\ stream \in seen /\ seen' = seen \cup {stream}
    BY <1>9 DEF StreamSeenBefore, AtStream, Consume
  <2>2. seen' = seen
    BY <2>1
  <2> QED
    BY <2>1, <2>2, StillIdleInv DEF Place, Sends
<1> QED
  BY <1>1, <1>2, <1>3, <1>4, <1>5, <1>6, <1>7, <1>8, <1>9 DEF Next, EventLoop, Waiting

-----------------------------------------------------------------------------
(* How the runner ends                                                     *)

\* A runner has no outcome until it ends.
OutcomeInv == pc # "down" => outcome = "none"

\* Only the start and the end of a runner change the outcome.
LEMMA OutcomeStep ==
  ASSUME CallsInv, [Next]_vars
  PROVE  GoneStep \/ Start \/ (outcome' = outcome /\ (pc = "down" => pc' = "down"))
<1> DEFINE Same == outcome' = outcome /\ (pc = "down" => pc' = "down")
<1>1. CASE LoudStep /\ ~Start
  <2>1. CASE ListedInterrupt \/ ListedEvent \/ ListEnds
    BY <2>1 DEF ListedInterrupt, ListedEvent, AtNewEvent, AtEvent, ListEnds
  <2>2. ASSUME NEW c \in Calls, AwaitConfirmation(c) \/ ResolveWithoutPost(c) \/ BeginFresh(c) \/ BeginRecorded(c)
        PROVE  Same
    <3>1. UNCHANGED Remaining /\ Handles(c)
      BY <2>2 DEF AwaitConfirmation, ResolveWithoutPost, BeginFresh, BeginRecorded, Allowed
    <3> QED
      BY <3>1 DEF Remaining, Handles
  <2>3. CASE FinishAnswered \/ FinishUnanswered \/ SendEnds
    BY <2>3 DEF FinishAnswered, FinishUnanswered, SendEnds
  <2>4. CASE StreamInterrupt \/ StreamEvent
    BY <2>4 DEF StreamInterrupt, StreamEvent, AtStream
  <2> QED
    BY <1>1, <2>1, <2>2, <2>3, <2>4 DEF LoudStep
<1>2. CASE QuietStep
  <2>1. CASE ControlPlane
    BY <2>1, ControlPlaneEffect DEF CallsInv, loop
  <2>2. CASE QuietListing
    BY <2>2 DEF QuietListing, StreamOpens, StreamFails, EventsListed, ReconcileFails, PollFails, SeenBefore,
               AtEvent, PassOver, PendingDone, HandleDone
  <2>3. ASSUME NEW c \in Calls, HandleSettled(c) \/ ResendResult(c) \/ SkipExternal(c) PROVE Same
    <3>1. UNCHANGED Remaining /\ Handles(c)
      BY <2>3 DEF HandleSettled, ResendResult, SkipExternal
    <3> QED
      BY <3>1 DEF Remaining, Handles
  <2>4. CASE QuietSend
    BY <2>4, SendStepEffect DEF QuietSend, Sending
  <2>5. CASE QuietFlush \/ QuietWait
    BY <2>5 DEF QuietFlush, FlushStarts, FlushEnds, FlushNext, QuietWait, StreamSeenBefore, AtStream, Disconnected,
               SleepEnds, Tick
  <2>6. CASE Goroutines \/ Cancel \/ UNCHANGED vars
    BY <2>6 DEF Goroutines, ToolReturns, ToolTimesOut, ToolCancelled, AbandonedToolEnds, Cancel, vars, loop
  <2> QED
    BY <1>2, <2>1, <2>2, <2>3, <2>4, <2>5, <2>6 DEF QuietStep, QuietHandling
<1> QED
  BY <1>1, <1>2, StepKinds

\* Every step keeps OutcomeInv.
LEMMA NextOutcomeInv ==
  ASSUME CallsInv, OutcomeInv, [Next]_vars PROVE OutcomeInv'
<1>1. GoneStep => pc' = "down"
  BY GoneStepEffect, GoneEffect
<1>2. Start => outcome' = "none"
  BY DEF Start
<1> QED
  BY <1>1, <1>2, OutcomeStep DEF OutcomeInv

-----------------------------------------------------------------------------
(* The theorems                                                            *)

\* The inductive invariant.
IInv == CallsInv /\ ReadInv /\ LedgerInv /\ DeliveredInv /\ ConsentInv /\ InterruptInv
        /\ IdleInv /\ OutcomeInv

\* The invariant holds at first.
LEMMA InitIInv == Init => IInv
BY InitCallsInv, InitReadInv, InitLedgerInv, InitInterruptInv, InitIdleInv DEF IInv, Init, OutcomeInv

\* Every step keeps the invariant.
LEMMA NextIInv == IInv /\ [Next]_vars => IInv'
BY NextCallsInv, NextReadInv, NextLedgerInv, NextDeliveredInv, NextConsentInv, NextInterruptInv, NextIdleInv,
   NextOutcomeInv DEF IInv

\* The invariant holds in every state of every run.
THEOREM IInvHolds == Spec => []IInv
BY InitIInv, NextIInv, PTL DEF Spec

\* Every variable keeps its type, for all calls, threads, faults and logs.
THEOREM TypeCorrect == Spec => []TypeOK
<1>1. IInv => TypeOK
  BY DEF IInv, CallsInv
<1> QED
  BY <1>1, IInvHolds, PTL

\* A call that was started has a record in the ledger (resultStore.Begin precedes the queue):
\* whatever discards, crashes and failing stores come between.
THEOREM Recorded == Spec => []ExecutedIsRecorded
<1>1. IInv => ExecutedIsRecorded
  BY DEF IInv, LedgerInv, ExecutedIsRecorded
<1> QED
  BY <1>1, IInvHolds, PTL

\* The ledger says sent only of results the control plane has (MarkSent follows a send that
\* was answered).
THEOREM Delivered == Spec => []SentIsDelivered
<1>1. IInv => SentIsDelivered
  BY DEF IInv, DeliveredInv, SentIsDelivered
<1> QED
  BY <1>1, IInvHolds, PTL

\* A call the runner has marked answered has a result in the log, was interrupted or was
\* denied: markAnswered is never a mistake.
THEOREM GivenUpIsResolved == Spec => []AnsweredIsResolved
<1>1. IInv => AnsweredIsResolved
  BY DEF IInv, InterruptInv, AnsweredIsResolved
<1> QED
  BY <1>1, IInvHolds, PTL

\* A call that an interrupt the runner has seen hits is neither queued nor held nor sent any
\* more: handleInterrupt reaches it wherever it was.
THEOREM InterruptsAreFinal == Spec => []InterruptIsFinal
<1>1. ASSUME IInv PROVE InterruptIsFinal
  <2> SUFFICES ASSUME NEW c \in Calls, InterruptedIn(seen, c)
               PROVE  /\ c \notin Range(rs.queue) \cup rs.recovered
                      /\ rs.pendingResults[c] = NoResult
                      /\ send.call # c
    BY DEF InterruptIsFinal
  <2>1. c \in rs.answered /\ c \notin Range(rs.queue)
    BY <1>1 DEF IInv, InterruptInv
  <2>2. rs.pendingResults[c] = NoResult /\ c \notin rs.recovered
    BY <1>1, <2>1 DEF IInv, CallsInv, Orderly
  <2>3. send.call # c
    BY <1>1, <2>1, NamesAssumption DEF IInv, CallsInv, SendInv, NoSend
  <2> QED
    BY <2>1, <2>2, <2>3
<1> QED
  BY <1>1, IInvHolds, PTL

\* A scheduled call that has no answer is in the queue or executing: no step of the runner
\* loses it, whatever is cancelled, interrupted or answered around it.
THEOREM ScheduledWaits == Spec => []ScheduledIsQueued
<1>1. IInv => ScheduledIsQueued
  BY DEF IInv, CallsInv, Orderly, ScheduledIsQueued
<1> QED
  BY <1>1, IInvHolds, PTL

-----------------------------------------------------------------------------
(* What may be started                                                     *)

\* A call that starts was queued, or is queued and started in one step.
LEMMA LaunchStep ==
  ASSUME CallsInv, ReadInv, [Next]_vars, NEW c \in Calls, Launches(c)
  PROVE  c \in Range(rs.queue) \/ BeginFresh(c)
<1>0. CallsInv'
  BY NextCallsInv
<1>1. exec.call = rs.active /\ exec'.call = rs'.active /\ NoCall \notin Calls
  BY <1>0, NamesAssumption DEF CallsInv, ExecInv
<1>2. rs'.active = c /\ rs'.active # rs.active /\ rs'.active # NoCall
  BY <1>1 DEF Launches
<1>3. CASE QuietStep
  BY <1>2, <1>3, QuietStepEffect DEF Quiet
<1>4. CASE GoneStep
  BY <1>2, <1>4, GoneStepEffect, GoneEffect
<1>5. CASE Start
  BY <1>2, <1>5, StartEffect
<1>6. CASE ListEnds
  BY <1>2, <1>6, ListEndsEffect DEF Quiet
<1>7. CASE ListedEvent \/ StreamEvent
  <2>1. \E e : (ListedEvent /\ e = Current) \/ (StreamEvent /\ e = Arrived)
    BY <1>7
  <2> QED
    BY <1>2, <2>1, LearnStepEffect
<1>8. CASE ListedInterrupt \/ StreamInterrupt
  <2>1. PICK e, eligible : \/ ListedInterrupt /\ e = Current /\ eligible = Eligible
                           \/ StreamInterrupt /\ e = Arrived /\ eligible = Calls
    BY <1>8
  <2>2. eligible \in SUBSET Calls
    BY <2>1 DEF Eligible, CallsInv, TypeOK, Listings
  <2> QED
    BY <1>2, <2>1, <2>2, InterruptStepEffect
<1>9. ASSUME NEW d \in Calls, BeginFresh(d) PROVE c \in Range(rs.queue) \/ BeginFresh(c)
  <2>1. rs'.active \in {NoCall, rs.active, d} \cup Range(rs.queue)
    BY <1>9, BeginFreshEffect
  <2> QED
    BY <1>2, <1>9, <2>1
<1>10. ASSUME NEW d \in Calls, AwaitConfirmation(d) \/ ResolveWithoutPost(d) \/ BeginRecorded(d) PROVE FALSE
  BY <1>2, <1>10, SettleStepEffect
<1>11. CASE FinishAnswered \/ FinishUnanswered \/ SendEnds
  BY <1>2, <1>11, QueueStepEffect
<1> QED
  BY <1>3, <1>4, <1>5, <1>6, <1>7, <1>8, <1>9, <1>10, <1>11, StepKinds DEF LoudStep

\* With a store a call is not started again while its record stands: Begin finds the record,
\* a queued call has none of an execution, and only Discard removes both.
THEOREM OneExecution == ASSUME HasStore PROVE Spec => NeverExecutedTwice
<1>1. ASSUME IInv, [Next]_vars
      PROVE  [\A c \in Calls : Launches(c) => c \notin executed]_vars
  <2> SUFFICES ASSUME NEW c \in Calls, Launches(c) PROVE c \notin executed
    OBVIOUS
  <2>1. c \in Range(rs.queue) \/ BeginFresh(c)
    BY <1>1, LaunchStep DEF IInv
  <2>2. CASE c \in Range(rs.queue)
    BY <1>1, <2>2 DEF IInv, LedgerInv
  <2>3. CASE BeginFresh(c)
    BY <1>1, <2>3 DEF IInv, LedgerInv, BeginFresh
  <2> QED
    BY <2>1, <2>2, <2>3
<1> QED
  BY <1>1, IInvHolds, PTL DEF Spec, NeverExecutedTwice

\* A tool is started only if its policy allows it, or asks and the user has allowed it.
THEOREM ConsentFirst == Spec => NoExecutionWithoutConsent
<1>1. ASSUME IInv, [Next]_vars
      PROVE  [\A c \in Calls : Launches(c) =>
                \/ Permission[c] = "allow"
                \/ Permission[c] = "ask" /\ ConfirmEvent(c, "allow") \in Range(log)]_vars
  <2> SUFFICES ASSUME NEW c \in Calls, Launches(c) PROVE Consented(c)
    BY DEF Consented
  <2>1. c \in Range(rs.queue) \/ BeginFresh(c)
    BY <1>1, LaunchStep DEF IInv
  <2>2. CASE c \in Range(rs.queue)
    BY <1>1, <2>2 DEF IInv, ConsentInv
  <2>3. CASE BeginFresh(c)
    <3>1. Decision(c) = "allow"
      BY <2>3 DEF BeginFresh, Allowed
    <3>2. Permission[c] = "allow" \/ (Permission[c] = "ask" /\ rs.confirmations[c] = "allow")
      BY <3>1 DEF Decision
    <3> QED
      BY <1>1, <3>2 DEF IInv, ConsentInv, Consented
  <2> QED
    BY <2>1, <2>2, <2>3
<1> QED
  BY <1>1, IInvHolds, PTL DEF Spec, NoExecutionWithoutConsent

-----------------------------------------------------------------------------
(* When the runner is idle                                                 *)

\* The runner ends as idle only where nothing it has seen is open: whatever disarms, puts
\* off or arms the timer (armIdle, noteIdleEvent, processListedEvents), it never runs on
\* while a tool use that was seen waits for an answer.
THEOREM IdleIsDone == Spec => IdleLeavesNothingOpen
<1>1. ASSUME IInv, [Next]_vars, outcome' = "idle", pc # "down" PROVE SeenResolved
  <2>1. GoneStep
    BY <1>1, OutcomeStep DEF IInv, OutcomeInv, Start
  <2>2. IdleTimeout
    BY <1>1, <2>1 DEF GoneStep, StreamRefused, ListedTermination, StreamTermination, CancelSeen, Crash,
                      SendCancelled, BeginFails, Exit, Gone
  <2>3. pc \in {"select", "sleep"} /\ TimerSet(rs)
    BY <2>2 DEF IdleTimeout, TimerSet
  <2> QED
    BY <1>1, <2>3 DEF IInv, IdleInv
<1>2. IInv /\ [Next]_vars => [outcome' = "idle" /\ pc # "down" =>
                                \A i \in seen : log[i].type = "use" => Resolved(log[i].call)]_vars
  BY <1>1 DEF SeenResolved
<1> QED
  BY <1>2, IInvHolds, PTL DEF Spec, IdleLeavesNothingOpen

\* Of the quiet steps only those of the control plane and of a send change anything at the
\* control plane.
LEMMA OthersLeavePlane ==
  ASSUME QuietStep, ~ControlPlane, ~QuietSend
  PROVE  UNCHANGED plane
<1>1. CASE QuietListing
  BY <1>1 DEF QuietListing, StreamOpens, StreamFails, EventsListed, ReconcileFails, PollFails, SeenBefore,
             PassOver, PendingDone, HandleDone, plane
<1>2. CASE QuietHandling
  BY <1>2 DEF QuietHandling, HandleSettled, ResendResult, SkipExternal, Remaining, plane
<1>3. CASE QuietFlush \/ QuietWait
  BY <1>3 DEF QuietFlush, FlushStarts, FlushEnds, FlushNext, QuietWait, StreamSeenBefore, Disconnected, SleepEnds,
             Tick, plane
<1>4. CASE Goroutines \/ Cancel \/ UNCHANGED vars
  BY <1>4 DEF Goroutines, ToolReturns, ToolTimesOut, ToolCancelled, AbandonedToolEnds, Cancel, vars, plane
<1> QED
  BY <1>1, <1>2, <1>3, <1>4 DEF QuietStep

-----------------------------------------------------------------------------
(* What the status events of the log mean                                  *)

\* What one result per call needs: a store that does not fail, a status that names the open
\* calls, and, where the session is polled, listings that are complete.
Reliable ==
  /\ HasStore /\ Opaque = {}
  /\ "store" \notin Faults /\ "reschedule" \notin Faults
  /\ "list" \in Modes => "network" \notin Faults

\* The control plane logs e only where it may: the agent ends its turn, or runs on after one,
\* with no call open, and waits for all that are open; a user confirms a call once, if it
\* asks; a result of an owned call was sent by the runner.
Fits(e) ==
  /\ e.type = "use" => Status = "running"
  /\ e.type = "end_turn" => OpenCalls = {}
  /\ e.type = "running" => Status = "end_turn" \/ OpenCalls = {}
  /\ e.type = "requires_action" => \A c \in OpenCalls : EventId(c) \in e.refs
  /\ e.type = "confirm" => /\ Permission[e.call] = "ask"
                           /\ \A i \in DOMAIN log : ~(log[i].type = "confirm" /\ log[i].call = e.call)
  /\ e.type = "result" => \/ e.call \notin Owned
                          \/ <<e.call, e.result>> \in net
                          \/ pc = "send" /\ e = ResultEvent(send.call, send.result)

\* The control plane logs nothing else.
LEMMA PlaneLogs ==
  ASSUME TypeOK, Reliable, ControlPlane
  PROVE  log' = log \/ \E e \in Events : log' = Append(log, e) /\ Fits(e)
<1> DEFINE Goal == log' = log \/ \E e \in Events : log' = Append(log, e) /\ Fits(e)
<1>1. ASSUME NEW e \in Events, Fits(e), Emit(e) PROVE Goal
  BY <1>1 DEF Emit
<1> HIDE DEF Goal
<1>2. OpenCalls \subseteq Calls
  BY UsedCalls DEF TypeOK, OpenCalls
<1>3. ASSUME NEW c \in Calls, AgentUses(c) PROVE Goal
  <2>1. UseEvent(c) \in Events /\ UseEvent(c).type = "use"
    BY DEF Events, UseEvent
  <2>2. Fits(UseEvent(c)) /\ Emit(UseEvent(c))
    BY <1>3, <2>1 DEF Fits, AgentUses
  <2> QED
    BY <1>1, <2>1, <2>2
<1>4. ASSUME NEW c \in Calls, OthersAnswer(c) PROVE Goal
  <2>1. ResultEvent(c, "done") \in Events /\ ResultEvent(c, "done").type = "result"
        /\ ResultEvent(c, "done").call = c
    BY DEF Events, Results, ResultEvent
  <2>2. Fits(ResultEvent(c, "done")) /\ Emit(ResultEvent(c, "done"))
    BY <1>4, <2>1 DEF Fits, OthersAnswer
  <2> QED
    BY <1>1, <2>1, <2>2
<1>5. ASSUME NEW c \in Calls, NEW v \in {"allow", "deny"}, UserConfirms(c, v) PROVE Goal
  <2>1. ConfirmEvent(c, v) \in Events /\ ConfirmEvent(c, v).type = "confirm" /\ ConfirmEvent(c, v).call = c
    BY DEF Events, ConfirmEvent
  <2>2. Fits(ConfirmEvent(c, v)) /\ Emit(ConfirmEvent(c, v))
    BY <1>5, <2>1 DEF Fits, UserConfirms
  <2> QED
    BY <1>1, <2>1, <2>2
<1>6. ASSUME AgentWaits PROVE Goal
  <2> DEFINE refs == {EventId(c) : c \in OpenCalls}
  <2>1. Emit(RequiresActionEvent(refs))
    <3>1. PICK r \in {refs} \cup {{OpaqueId(o)} : o \in Opaque} : Emit(RequiresActionEvent(r))
      BY <1>6 DEF AgentWaits
    <3>2. r = refs
      BY <3>1 DEF Reliable
    <3> QED
      BY <3>1, <3>2
  <2>2. refs \in SUBSET Refs
    BY <1>2 DEF Refs
  <2>3. \A c \in OpenCalls : EventId(c) \in refs
    OBVIOUS
  <2> HIDE DEF refs
  <2>4. RequiresActionEvent(refs) \in Events /\ RequiresActionEvent(refs).type = "requires_action"
        /\ RequiresActionEvent(refs).refs = refs
    BY <2>2 DEF Events, RequiresActionEvent
  <2>5. Fits(RequiresActionEvent(refs))
    BY <2>3, <2>4 DEF Fits
  <2> QED
    BY <1>1, <2>1, <2>4, <2>5
<1>7. ASSUME AgentEndsTurn \/ AgentRuns \/ Terminated PROVE Goal
  <2> DEFINE E(type) == StatusEvent(type)
  <2>1. \A type \in {"end_turn", "running", "terminated"} : E(type) \in Events /\ E(type).type = type
    BY DEF Events, StatusEvent
  <2>2. /\ AgentEndsTurn => Emit(E("end_turn")) /\ OpenCalls = {}
        /\ AgentRuns => Emit(E("running")) /\ (Status = "end_turn" \/ OpenCalls = {})
        /\ Terminated => Emit(E("terminated"))
    BY DEF AgentEndsTurn, AgentRuns, Terminated
  <2> HIDE DEF E
  <2>3. /\ AgentEndsTurn => Fits(E("end_turn"))
        /\ AgentRuns => Fits(E("running"))
        /\ Fits(E("terminated"))
    BY <2>1, <2>2 DEF Fits
  <2> QED
    BY <1>1, <1>7, <2>1, <2>2, <2>3
<1>8. ASSUME NEW t \in Threads \cup {AnyThread}, UserInterrupts(t) PROVE Goal
  <2>1. InterruptEvent(t) \in Events /\ InterruptEvent(t).type = "interrupt"
    BY DEF Events, InterruptEvent
  <2>2. Fits(InterruptEvent(t)) /\ Emit(InterruptEvent(t))
    BY <1>8, <2>1 DEF Fits, UserInterrupts
  <2> QED
    BY <1>1, <2>1, <2>2
<1>9. ASSUME NEW m \in net, LateDelivery(m) PROVE Goal
  <2>1. /\ ResultEvent(m[1], m[2]) \in Events /\ ResultEvent(m[1], m[2]).type = "result"
        /\ ResultEvent(m[1], m[2]).call = m[1] /\ ResultEvent(m[1], m[2]).result = m[2]
        /\ <<m[1], m[2]>> = m
    BY DEF Events, TypeOK, ResultEvent
  <2>2. Fits(ResultEvent(m[1], m[2]))
    BY <2>1 DEF Fits
  <2> QED
    BY <1>9, <2>1, <2>2 DEF LateDelivery, Goal
<1>10. ~Rescheduled
  BY DEF Rescheduled, Fault, Reliable
<1>11. Goal
  BY <1>3, <1>4, <1>5, <1>6, <1>7, <1>8, <1>9, <1>10 DEF ControlPlane
<1> QED
  BY <1>11 DEF Goal

\* A step appends to the log what the control plane logs, or the result the runner sends.
LEMMA LoggedEvent ==
  ASSUME CallsInv, Reliable, [Next]_vars
  PROVE  log' = log \/ \E e \in Events : log' = Append(log, e) /\ Fits(e)
<1>t. TypeOK
  BY DEF CallsInv
<1> DEFINE Goal == log' = log \/ \E e \in Events : log' = Append(log, e) /\ Fits(e)
<1>3. CASE ControlPlane
  BY <1>t, <1>3, PlaneLogs
<1>4. CASE QuietSend
  <2>1. /\ send.call \in Calls /\ send.result \in Results /\ pc = "send"
        /\ log' = log \/ log' = Append(log, ResultEvent(send.call, send.result))
    BY <1>4, SendStepEffect DEF QuietSend, CallsInv, SendInv, Sends
  <2>2. ResultEvent(send.call, send.result) \in Events /\ ResultEvent(send.call, send.result).type = "result"
    BY <2>1 DEF Events, ResultEvent
  <2>3. Fits(ResultEvent(send.call, send.result))
    BY <2>1, <2>2 DEF Fits
  <2> QED
    BY <2>1, <2>2, <2>3
<1>5. CASE GoneStep \/ LoudStep
  BY <1>5, GoneStepEffect, LoudStepPlane DEF plane
<1>6. CASE QuietStep /\ ~ControlPlane /\ ~QuietSend
  BY <1>6, OthersLeavePlane DEF plane
<1> QED
  BY <1>3, <1>4, <1>5, <1>6, StepKinds

\* A nonempty set of numbers with a bound has a greatest one.
LEMMA GreatestElement ==
  ASSUME NEW n \in Nat, NEW S \in SUBSET (1..n), S # {}
  PROVE  \E i \in S : \A j \in S : j <= i
<1> DEFINE T == {k \in 0..n : n - k \in S}
<1>1. T \in SUBSET Nat /\ T # {}
  <2>1. PICK i \in S : TRUE
    OBVIOUS
  <2>2. i \in 1..n /\ n - i \in 0..n /\ n - (n - i) = i
    BY <2>1
  <2>3. n - i \in T
    BY <2>2
  <2>4. T \in SUBSET Nat
    OBVIOUS
  <2> QED
    BY <2>3, <2>4
<1>2. PICK k \in T : \A j \in T : k <= j
  BY <1>1, SmallestElement
<1>3. \A j \in S : n - j \in T
  OBVIOUS
<1> QED
  BY <1>2, <1>3

\* Status is the type of the last event that is a status.
LEMMA LatestStatus ==
  ASSUME log \in Seq(Events), NEW e \in Events, log' = Append(log, e)
  PROVE  Status' = IF e.type \in StatusTypes THEN e.type ELSE Status
<1> DEFINE at == {i \in DOMAIN log : log[i].type \in StatusTypes}
           after == {i \in DOMAIN log' : log'[i].type \in StatusTypes}
           n == Len(log) + 1
<1>1. /\ DOMAIN log = 1..Len(log) /\ Len(log) \in Nat /\ DOMAIN log' = 1..n /\ n \in DOMAIN log'
      /\ log'[n] = e /\ \A i \in DOMAIN log : log'[i] = log[i]
  OBVIOUS
<1>2. /\ Status = IF at = {} THEN "running" ELSE log[CHOOSE i \in at : \A j \in at : j <= i].type
      /\ Status' = IF after = {} THEN "running" ELSE log'[CHOOSE i \in after : \A j \in after : j <= i].type
  BY DEF Status
<1>3. CASE e.type \in StatusTypes
  <2>1. n \in after /\ \A j \in after : j \in 1..n
    BY <1>1, <1>3
  <2> DEFINE m == CHOOSE i \in after : \A j \in after : j <= i
  <2>2. m \in after /\ \A j \in after : j <= m
    <3>1. n \in after /\ \A j \in after : j <= n
      BY <1>1, <2>1
    <3> QED
      BY <3>1
  <2> HIDE DEF m, after
  <2>3. m = n
    BY <1>1, <2>1, <2>2
  <2>4. Status' = log'[m].type
    BY <1>2, <2>1 DEF m
  <2> QED
    BY <1>1, <1>3, <2>3, <2>4
<1>4. CASE e.type \notin StatusTypes
  <2>1. after = at
    BY <1>1, <1>4
  <2>2. CASE at = {}
    BY <1>2, <1>4, <2>1, <2>2
  <2>3. CASE at # {}
    <3> DEFINE m == CHOOSE i \in at : \A j \in at : j <= i
    <3>1. \E i \in at : \A j \in at : j <= i
      BY <1>1, <2>3, GreatestElement
    <3>2. m \in at
      BY <3>1
    <3>3. m \in DOMAIN log
      BY <3>2
    <3>4. Status = log[m].type /\ Status' = log'[m].type
      BY <1>2, <2>1, <2>3
    <3> HIDE DEF m
    <3> QED
      BY <1>1, <1>4, <3>3, <3>4
  <2> QED
    BY <2>2, <2>3
<1> QED
  BY <1>3, <1>4

\* c is resolved by what comes before the i-th event, or by its denial.
ResolvedBefore(i, c) ==
  \/ \E k \in 1..(i - 1) : log[k].type = "result" /\ log[k].call = c
  \/ InterruptedIn(1..(i - 1), c)
  \/ Denied(c)

\* A turn ends with no call open; where the agent runs, ends its turn or waits, every call used
\* before is resolved, or it is one of those waited for.
HistoryInv ==
  /\ Status = "end_turn" => OpenCalls = {}
  /\ \A i \in DOMAIN log : log[i].type \in {"running", "end_turn", "requires_action"} =>
       \A j \in 1..(i - 1) : \A c \in Calls : log[j] = UseEvent(c) =>
         ResolvedBefore(i, c) \/ (log[i].type = "requires_action" /\ EventId(c) \in log[i].refs)

\* Each call that asks for permission is confirmed at most once, and no other.
ConfirmInv ==
  /\ \A i \in DOMAIN log : log[i].type = "confirm" => Permission[log[i].call] = "ask"
  /\ \A i, j \in DOMAIN log :
        log[i].type = "confirm" /\ log[j].type = "confirm" /\ log[i].call = log[j].call => i = j

\* What the runner has a record of was used, and may run.
GrantInv == \A c \in Calls : ledger[c] # "absent" => c \in Used /\ Consented(c)

\* A call that may run is not denied.
LEMMA ConsentedNotDenied ==
  ASSUME ConfirmInv, NEW c \in Calls, Consented(c)
  PROVE  ~Denied(c)
<1> SUFFICES ASSUME Denied(c) PROVE FALSE
  OBVIOUS
<1>1. PICK i \in DOMAIN log : log[i] = ConfirmEvent(c, "deny")
  BY DEF Denied, Consented
<1>2. log[i].type = "confirm" /\ log[i].call = c /\ log[i].verdict = "deny"
  BY <1>1 DEF ConfirmEvent
<1>3. Permission[c] = "ask"
  BY <1>2 DEF ConfirmInv
<1>4. PICK j \in DOMAIN log : log[j] = ConfirmEvent(c, "allow")
  BY <1>3 DEF Consented, Range
<1>5. log[j].type = "confirm" /\ log[j].call = c /\ log[j].verdict = "allow"
  BY <1>4 DEF ConfirmEvent
<1> QED
  BY <1>2, <1>5 DEF ConfirmInv

\* Every step keeps ConfirmInv.
LEMMA NextConfirmInv ==
  ASSUME CallsInv, Reliable, ConfirmInv, [Next]_vars PROVE ConfirmInv'
<1>t. log \in Seq(Events)
  BY DEF CallsInv, TypeOK
<1>1. CASE log' = log
  BY <1>1 DEF ConfirmInv
<1>2. CASE log' # log
  <2>1. PICK e \in Events : log' = Append(log, e) /\ Fits(e)
    BY <1>2, LoggedEvent
  <2>2. /\ DOMAIN log' = 1..Len(log) + 1 /\ DOMAIN log = 1..Len(log) /\ Len(log) \in Nat
        /\ log'[Len(log) + 1] = e /\ \A i \in DOMAIN log : log'[i] = log[i]
    BY <1>t, <2>1
  <2>3. e.type = "confirm" => /\ Permission[e.call] = "ask"
                              /\ \A i \in DOMAIN log : ~(log[i].type = "confirm" /\ log[i].call = e.call)
    BY <2>1 DEF Fits
  <2> QED
    BY <2>2, <2>3 DEF ConfirmInv
<1> QED
  BY <1>1, <1>2

\* What resolves a call stays in the log, before every event that comes after it.
LEMMA ResolvedBeforeStays ==
  ASSUME CallsInv, [Next]_vars, NEW c \in Calls
  PROVE  /\ \A i \in DOMAIN log : ResolvedBefore(i, c) => ResolvedBefore(i, c)'
         /\ \A i : i = Len(log) + 1 /\ Resolved(c) => ResolvedBefore(i, c)'
<1>1. /\ log \in Seq(Events) /\ \A i \in DOMAIN log : i \in DOMAIN log' /\ log'[i] = log[i]
  BY LogOnlyGrows DEF CallsInv, TypeOK
<1>2. DOMAIN log = 1..Len(log) /\ Len(log) \in Nat
  BY <1>1
<1>3. Denied(c) => Denied(c)'
  BY <1>1 DEF Denied
<1>4. ASSUME NEW i \in 1..Len(log) + 1
      PROVE  /\ 1..(i - 1) \subseteq DOMAIN log
             /\ InterruptedIn(1..(i - 1), c) => InterruptedIn(1..(i - 1), c)'
             /\ (\E k \in 1..(i - 1) : log[k].type = "result" /\ log[k].call = c) =>
                   \E k \in 1..(i - 1) : log'[k].type = "result" /\ log'[k].call = c
  <2>1. 1..(i - 1) \subseteq DOMAIN log
    BY <1>2
  <2> QED
    BY <1>1, <2>1 DEF InterruptedIn
<1>5. ASSUME NEW i \in DOMAIN log, ResolvedBefore(i, c) PROVE ResolvedBefore(i, c)'
  <2>1. i \in 1..Len(log) + 1
    BY <1>2
  <2> QED
    BY <1>3, <1>4, <1>5, <2>1 DEF ResolvedBefore
<1>6. ASSUME NEW i, i = Len(log) + 1, Resolved(c) PROVE ResolvedBefore(i, c)'
  <2>1. i \in 1..Len(log) + 1 /\ 1..(i - 1) = DOMAIN log
    BY <1>2, <1>6
  <2> QED
    BY <1>3, <1>4, <1>6, <2>1 DEF ResolvedBefore, Resolved, HasResult
<1> QED
  BY <1>5, <1>6

\* Every step keeps HistoryInv.
LEMMA NextHistoryInv ==
  ASSUME CallsInv, Reliable, HistoryInv, [Next]_vars PROVE HistoryInv'
<1>t. /\ log \in Seq(Events) /\ \A i \in DOMAIN log : i \in DOMAIN log' /\ log'[i] = log[i]
  BY LogOnlyGrows DEF CallsInv, TypeOK
<1>r. \A c \in Calls : Resolved(c) => Resolved(c)'
  BY ResolvedStays
<1>u. Used \subseteq Calls
  BY <1>t, UsedCalls
<1>1. CASE log' = log
  <2>1. Status' = Status
    BY <1>1 DEF Status
  <2>2. Used' = Used
    BY <1>1 DEF Used
  <2>3. OpenCalls = {} => OpenCalls' = {}
    BY <1>r, <1>u, <2>2 DEF OpenCalls
  <2>4. \A i \in DOMAIN log : \A c \in Calls : ResolvedBefore(i, c) => ResolvedBefore(i, c)'
    BY ResolvedBeforeStays
  <2> HIDE DEF Status, ResolvedBefore, OpenCalls
  <2> QED
    BY <1>1, <2>1, <2>3, <2>4 DEF HistoryInv
<1>2. CASE log' # log
  <2>1. PICK e \in Events : log' = Append(log, e) /\ Fits(e)
    BY <1>2, LoggedEvent
  <2> DEFINE n == Len(log) + 1
  <2>2. /\ DOMAIN log' = 1..n /\ DOMAIN log = 1..Len(log) /\ Len(log) \in Nat /\ log'[n] = e
    BY <1>t, <2>1
  <2>3. Status' = IF e.type \in StatusTypes THEN e.type ELSE Status
    BY <1>t, <2>1, LatestStatus
  <2>4. ASSUME Status' = "end_turn" PROVE OpenCalls' = {}
    <3>1. e.type # "use" /\ OpenCalls = {}
      BY <2>1, <2>3, <2>4 DEF Fits, StatusTypes, HistoryInv
    <3>2. Used' \subseteq Used
      BY <1>t, <2>2, <3>1 DEF Used
    <3> QED
      BY <1>r, <1>u, <3>1, <3>2 DEF OpenCalls
  <2>5. ASSUME NEW i \in DOMAIN log', log'[i].type \in {"running", "end_turn", "requires_action"},
               NEW j \in 1..(i - 1), NEW c \in Calls, log'[j] = UseEvent(c)
        PROVE  ResolvedBefore(i, c)' \/ (log'[i].type = "requires_action" /\ EventId(c) \in log'[i].refs)
    <3>1. j \in DOMAIN log /\ log[j] = UseEvent(c)
      BY <1>t, <2>2, <2>5
    <3>2. CASE i \in DOMAIN log
      BY <1>t, <2>5, <3>1, <3>2, ResolvedBeforeStays DEF HistoryInv
    <3>3. CASE i = n
      <4>1. CASE Resolved(c)
        BY <3>3, <4>1, ResolvedBeforeStays
      <4>2. CASE ~Resolved(c)
        <5>1. c \in OpenCalls
          BY <3>1, <4>2 DEF OpenCalls, Used, UseEvent
        <5>2. Status # "end_turn"
          BY <5>1 DEF HistoryInv
        <5>3. e.type = "requires_action" /\ EventId(c) \in e.refs
          BY <2>1, <2>2, <2>5, <3>3, <5>1, <5>2 DEF Fits
        <5> QED
          BY <2>2, <3>3, <5>3
      <4> QED
        BY <4>1, <4>2
    <3> QED
      BY <2>2, <3>2, <3>3
  <2> HIDE DEF n
  <2> QED
    BY <2>4, <2>5 DEF HistoryInv
<1> QED
  BY <1>1, <1>2

\* A call that handleToolUse queues has been used.
LEMMA HandledIsUsed ==
  ASSUME CallsInv, ReadInv, InterruptInv, NEW c \in Calls, Handles(c)
  PROVE  c \in Used
<1>1. c \in Known
  BY HandledIsKnown
<1>2. PICK i \in seen : log[i] = UseEvent(c)
  BY <1>1 DEF InterruptInv, SeenUse
<1>3. i \in DOMAIN log
  BY DEF ReadInv
<1> QED
  BY <1>2, <1>3 DEF Used, UseEvent

\* Where the store does not fail a discard takes the records of all its calls, and a result
\* that is saved is in its record.
LEMMA ReliableStore ==
  ASSUME TypeOK, Reliable
  PROVE  /\ \A S : Discard(S) =>
              /\ UNCHANGED ever
              /\ \A c \in Calls : ledger'[c] = IF c \in S THEN "absent" ELSE ledger[c]
         /\ \A c \in Calls : \A entry \in Entries : Persist(c, entry) /\ ledger[c] # "absent" =>
              ledger' = [ledger EXCEPT ![c] = entry]
         /\ \A c \in Calls : ~BeginFails(c)
BY DEF Reliable, Discard, Persist, BeginFails, Fault

\* Only BeginFresh makes a record where there was none.
LEMMA RecordIsBegun ==
  ASSUME CallsInv, ReadInv, Reliable, [Next]_vars, NEW c \in Calls, ledger[c] = "absent", ledger'[c] # "absent"
  PROVE  BeginFresh(c)
<1>2. CASE QuietStep
  BY <1>2, QuietStepEffect
<1>3. CASE GoneStep
  <2>1. ~ \E d \in Calls : BeginFails(d)
    BY ReliableStore DEF CallsInv
  <2>2. CASE SendCancelled
    <3>1. send.call \in Calls /\ "sent" \in Entries
      BY <2>2 DEF SendCancelled, CallsInv, SendInv, Sends, Entries
    <3>2. send.outcome = "posted" => UNCHANGED ledger \/
              (ledger[send.call] # "absent" /\ ledger' = [ledger EXCEPT ![send.call] = "sent"])
      BY <2>2, <3>1, PersistEffect DEF SendCancelled, CallsInv
    <3>3. send.outcome # "posted" => UNCHANGED ledger
      BY <2>2 DEF SendCancelled
    <3> QED
      BY <3>1, <3>2, <3>3 DEF CallsInv, TypeOK
  <2>3. CASE StreamRefused \/ ListedTermination \/ StreamTermination \/ IdleTimeout \/ CancelSeen \/ Crash
    BY <2>3 DEF StreamRefused, ListedTermination, StreamTermination, IdleTimeout, CancelSeen, Crash, Exit
  <2> QED
    BY <1>3, <2>1, <2>2, <2>3 DEF GoneStep
<1>4. CASE Start
  BY <1>4, StartEffect
<1>5. CASE ListEnds
  BY <1>5, ListEndsEffect DEF Dropped
<1>6. CASE ListedEvent \/ StreamEvent
  <2>1. \E e : (ListedEvent /\ e = Current) \/ (StreamEvent /\ e = Arrived)
    BY <1>6
  <2> QED
    BY <2>1, LearnStepEffect DEF Dropped
<1>7. CASE ListedInterrupt \/ StreamInterrupt
  <2>1. PICK e, eligible : \/ ListedInterrupt /\ e = Current /\ eligible = Eligible
                           \/ StreamInterrupt /\ e = Arrived /\ eligible = Calls
    BY <1>7
  <2>2. eligible \in SUBSET Calls
    BY <2>1 DEF Eligible, CallsInv, TypeOK, Listings
  <2> QED
    BY <2>1, <2>2, InterruptStepEffect DEF Dropped
<1>8. ASSUME NEW d \in Calls, BeginFresh(d) PROVE BeginFresh(c)
  BY <1>8, BeginFreshEffect
<1>9. ASSUME NEW d \in Calls, AwaitConfirmation(d) \/ ResolveWithoutPost(d) \/ BeginRecorded(d) PROVE FALSE
  BY <1>9, SettleStepEffect
<1>10. CASE FinishAnswered \/ FinishUnanswered \/ SendEnds
  BY <1>10, QueueStepEffect
<1> QED
  BY <1>2, <1>3, <1>4, <1>5, <1>6, <1>7, <1>8, <1>9, <1>10, StepKinds DEF LoudStep

\* Every step keeps GrantInv.
LEMMA NextGrantInv ==
  ASSUME CallsInv, ReadInv, ConsentInv, InterruptInv, Reliable, GrantInv, [Next]_vars PROVE GrantInv'
<1>1. Range(log) \subseteq Range(log') /\ \A i \in DOMAIN log : i \in DOMAIN log' /\ log'[i] = log[i]
  BY LogOnlyGrows
<1>2. ASSUME NEW c \in Calls PROVE /\ c \in Used => c \in Used'
                                   /\ Consented(c) => Consented(c)'
  BY <1>1 DEF Used, Consented
<1>3. ASSUME NEW c \in Calls, ledger[c] = "absent", ledger'[c] # "absent" PROVE c \in Used /\ Consented(c)
  <2>1. BeginFresh(c)
    BY <1>3, RecordIsBegun
  <2>2. Handles(c) /\ Decision(c) = "allow"
    BY <2>1 DEF BeginFresh, Allowed
  <2>3. c \in Used
    BY <2>2, HandledIsUsed
  <2>4. Permission[c] = "allow" \/ (Permission[c] = "ask" /\ rs.confirmations[c] = "allow")
    BY <2>2 DEF Decision
  <2> QED
    BY <2>3, <2>4 DEF ConsentInv, Consented
<1> QED
  BY <1>2, <1>3 DEF GrantInv

-----------------------------------------------------------------------------
(* How far the loop has read                                               *)

\* Event j is listed, and read wherever the loop handles calls or waits for the stream: the
\* loop comes by it before it decides anything that j concerns.
Ahead(j) == (pc = "event" => j <= lp.end) /\ (Place \in Caught => j \in seen)

\* What is seen does not go beyond what is listed.
ListingInv == pc = "event" => \A i \in seen : i <= lp.end

\* A quiet step lists the whole log, or leaves the listing alone; it does not pass by a listing.
LEMMA QuietPlaces ==
  ASSUME CallsInv, Reliable, QuietStep
  PROVE  /\ pc' = "event" => lp'.end = Len(log) \/ (pc = "event" /\ lp'.end = lp.end)
         /\ Place' \in Caught => Place \in Caught
<1>t. /\ TypeOK /\ lp \in Listings /\ Len(log) \in Nat /\ SendInv /\ PlaceInv /\ mode \in Modes
  BY DEF CallsInv, TypeOK
<1>1. CASE UNCHANGED <<pc, lp, send>>
  BY <1>1 DEF Place
<1>2. CASE StreamOpens \/ StreamFails \/ ReconcileFails
  <2>1. UNCHANGED send /\ pc' \in {"list", "sleep"}
    BY <1>2 DEF StreamOpens, StreamFails, ReconcileFails, Sleep
  <2> QED
    BY <2>1 DEF Place, Sends, Caught
<1>3. CASE EventsListed
  <2>1. pc' = "event" /\ List(Len(log), TRUE)
    BY <1>3 DEF EventsListed
  <2>2. lp'.end = Len(log)
    BY <1>t, <2>1, ListType
  <2> QED
    BY <2>1, <2>2 DEF Place, Sends, Caught
<1>4. ~PollFails
  BY <1>t DEF PollFails, Fault, Reliable
<1>5. CASE SeenBefore
  <2>1. UNCHANGED <<pc, send>> /\ lp' = [lp EXCEPT !.next = @ + 1]
    BY <1>5 DEF SeenBefore
  <2>2. lp'.end = lp.end
    BY <1>t, <2>1 DEF Listings
  <2> QED
    BY <2>1, <2>2 DEF Place
<1>6. CASE PassOver
  <2>1. UNCHANGED <<pc, send>> /\ pc = "pending"
    BY <1>6 DEF PassOver
  <2> QED
    BY <2>1 DEF Place
<1>7. CASE PendingDone \/ HandleDone
  <2>1. pc \in {"pending", "handle"} /\ pc' # "event"
    BY <1>7 DEF PendingDone, HandleDone, AfterList
  <2> QED
    BY <2>1 DEF Place, Sends, Caught
<1>8. CASE QuietHandling
  <2>1. PICK c \in Calls : HandleSettled(c) \/ ResendResult(c) \/ SkipExternal(c)
    BY <1>8 DEF QuietHandling
  <2>2. Handles(c) /\ (UNCHANGED <<pc, send>> \/ StartSend(c, rs.pendingResults[c], "use", pc))
    BY <2>1 DEF HandleSettled, ResendResult, SkipExternal, Remaining
  <2>3. pc \in {"pending", "handle"}
    BY <1>t, <2>2, HandlesEffect
  <2>4. StartSend(c, rs.pendingResults[c], "use", pc) => pc' = "send" /\ send'.back = pc
    BY DEF StartSend, NoSend
  <2> QED
    BY <2>2, <2>3, <2>4 DEF Place, Sends, Caught
<1>9. CASE QuietSend
  <2>1. /\ pc = "send" /\ pc' \in Sends /\ send'.back = send.back
    BY <1>9, SendStepEffect DEF QuietSend
  <2> QED
    BY <2>1 DEF Place, Sends
<1>10. CASE QuietFlush
  <2>1. pc \in {"top", "flush"} /\ pc' # "event"
    BY <1>10 DEF QuietFlush, FlushStarts, FlushEnds, FlushNext, StartSend
  <2> QED
    BY <2>1 DEF Place, Sends, Caught
<1>11. CASE QuietWait
  <2>1. \/ pc = "select" /\ pc' # "event"
        \/ pc = "sleep" /\ pc' = wake
    BY <1>11 DEF QuietWait, StreamSeenBefore, AtStream, Disconnected, Sleep, SleepEnds, Tick
  <2>2. pc = "sleep" => wake \in {"open", "list"}
    BY <1>t DEF PlaceInv, Place, Sends
  <2> QED
    BY <2>1, <2>2 DEF Place, Sends, Caught
<1>12. CASE Goroutines \/ ControlPlane \/ Cancel \/ UNCHANGED vars
  <2>1. ControlPlane => UNCHANGED loop
    BY <1>t, ControlPlaneEffect
  <2>2. UNCHANGED <<pc, lp, send>>
    BY <1>12, <2>1 DEF Goroutines, ToolReturns, ToolTimesOut, ToolCancelled, AbandonedToolEnds, Cancel, loop, vars
  <2> QED
    BY <1>1, <2>2
<1> QED
  BY <1>2, <1>3, <1>4, <1>5, <1>6, <1>7, <1>8, <1>9, <1>10, <1>11, <1>12 DEF QuietStep, QuietListing

\* The loop gets to where it decides only from such a place, or at the end of a listing; a
\* listing goes on to its end, and a new one has the whole log.
LEMMA ReadingGoesOn ==
  ASSUME CallsInv, ReadInv, Reliable, [Next]_vars
  PROVE  \/ seen' = {} /\ pc' \in {"down", "open", "list"} /\ Place' \notin Caught
         \/ /\ seen \subseteq seen'
            /\ Place' \in Caught => Place \in Caught \/ (pc = "event" /\ lp.next > lp.end)
            /\ pc' = "event" =>
                 \/ seen' = seen /\ (lp'.end = Len(log) \/ (pc = "event" /\ lp'.end = lp.end))
                 \/ pc = "event" /\ lp'.end = lp.end /\ lp.next <= lp.end /\ seen' = seen \cup {lp.next}
<1>t. /\ TypeOK /\ lp \in Listings /\ SendInv
  BY DEF CallsInv, TypeOK
<1>1. CASE QuietStep
  BY <1>1, QuietPlaces, QuietReading
<1>2. CASE GoneStep
  BY <1>2, GoneStepEffect, GoneEffect DEF Caught
<1>3. CASE Start
  <2>1. seen' = {} /\ pc' \in {"open", "list"}
    BY <1>3 DEF Start, Connect, CallsInv, PlaceInv
  <2> QED
    BY <2>1 DEF Place, Sends, Caught
<1>4. CASE ListedEvent \/ ListedInterrupt
  <2>1. /\ UNCHANGED <<pc, send>> /\ pc = "event" /\ seen' = seen \cup {lp.next} /\ AtEvent
        /\ LET l == Touch(Current, lp.next \notin seen) IN lp' \in {l, Collect(l, Current.call)}
    BY <1>4 DEF ListedEvent, ListedInterrupt, AtNewEvent, AtEvent
  <2> DEFINE l == Touch(Current, lp.next \notin seen)
  <2>2. l \in Listings /\ l.end = lp.end
    BY <1>t, TouchType
  <2>3. lp' \in {l, Collect(l, Current.call)}
    BY <2>1
  <2> HIDE DEF l
  <2>4. lp'.end = lp.end
    BY <2>2, <2>3 DEF Collect, Listings
  <2> QED
    BY <2>1, <2>4 DEF AtEvent, Place, Sends, Caught
<1>5. CASE StreamEvent \/ StreamInterrupt
  <2>1. pc = "select" /\ pc' \in {"top", "handle"} /\ seen \subseteq seen'
    BY <1>5 DEF StreamEvent, StreamInterrupt, AtStream, Consume
  <2> QED
    BY <2>1 DEF Place, Sends, Caught
<1>6. CASE ListEnds
  <2>1. pc = "event" /\ lp.next > lp.end /\ pc' = "pending" /\ seen' = seen
    BY <1>6 DEF ListEnds
  <2> QED
    BY <2>1
<1>7. CASE FinishAnswered \/ FinishUnanswered
  <2>1. /\ pc \in {"select", "sleep"} /\ seen' = seen
        /\ \/ pc' = IF pc = "select" THEN Round ELSE pc
           \/ pc' = "send" /\ send'.back = IF pc = "select" THEN Round ELSE pc
    BY <1>7 DEF FinishAnswered, FinishUnanswered, StartSend, NoSend
  <2>2. pc' # "event" /\ (Place' \in Caught => pc = "select")
    BY <2>1 DEF Round, Place, Sends, Caught
  <2> QED
    BY <2>1, <2>2 DEF Place, Sends, Caught
<1>8. CASE SendEnds
  <2>1. pc = "sent" /\ pc' = send.back /\ seen' = seen
    BY <1>8 DEF SendEnds
  <2>2. Place' = Place /\ pc' # "event"
    BY <1>t, <2>1 DEF Place, Sends, SendInv
  <2> QED
    BY <2>1, <2>2
<1>9. ASSUME NEW c \in Calls, AwaitConfirmation(c) \/ ResolveWithoutPost(c) \/ BeginFresh(c) \/ BeginRecorded(c)
      PROVE  seen' = seen /\ pc' # "event" /\ Place \in Caught
  <2>1. Handles(c)
    BY <1>9 DEF AwaitConfirmation, ResolveWithoutPost, BeginFresh, BeginRecorded, Allowed
  <2>2. pc \in {"pending", "handle"}
    BY <1>t, <2>1, HandlesEffect
  <2>3. seen' = seen /\ pc' # "event"
    BY <1>9, LoudStepMoves
  <2> QED
    BY <2>2, <2>3 DEF Place, Sends, Caught
<1> QED
  BY <1>1, <1>2, <1>3, <1>4, <1>5, <1>6, <1>7, <1>8, <1>9, StepKinds DEF LoudStep

\* An event stays ahead, and what is listed stays listed.
LEMMA AheadStays ==
  ASSUME CallsInv, ReadInv, ListingInv, Reliable, [Next]_vars
  PROVE  /\ \A j \in DOMAIN log : Ahead(j) => Ahead(j)'
         /\ ListingInv'
<1>t. /\ lp \in Listings /\ lp.next \in Nat /\ lp.end \in Nat /\ DOMAIN log = 1..Len(log) /\ Len(log) \in Nat
      /\ lp.end <= Len(log)
  BY DEF CallsInv, TypeOK, Listings, ReadInv
<1>1. CASE seen' = {} /\ pc' \in {"down", "open", "list"} /\ Place' \notin Caught
  BY <1>1 DEF Ahead, ListingInv
<1>2. ASSUME /\ seen \subseteq seen'
             /\ Place' \in Caught => Place \in Caught \/ (pc = "event" /\ lp.next > lp.end)
             /\ pc' = "event" =>
                  \/ seen' = seen /\ (lp'.end = Len(log) \/ (pc = "event" /\ lp'.end = lp.end))
                  \/ pc = "event" /\ lp'.end = lp.end /\ lp.next <= lp.end /\ seen' = seen \cup {lp.next}
      PROVE  (\A j \in DOMAIN log : Ahead(j) => Ahead(j)') /\ ListingInv'
  <2>1. ASSUME NEW j \in DOMAIN log, Ahead(j) PROVE Ahead(j)'
    <3>1. pc' = "event" => j <= lp'.end
      BY <1>t, <1>2, <2>1 DEF Ahead
    <3>2. Place' \in Caught => j \in seen
      <4>1. pc = "event" /\ lp.next > lp.end => j \in 1..(lp.next - 1)
        BY <1>t, <2>1 DEF Ahead
      <4> QED
        BY <1>2, <2>1, <4>1 DEF Ahead, ReadInv
    <3> QED
      BY <1>2, <3>1, <3>2 DEF Ahead
  <2>2. \A i \in seen : i \in DOMAIN log
    BY DEF ReadInv
  <2>3. ListingInv'
    BY <1>t, <1>2, <2>2 DEF ListingInv
  <2> QED
    BY <2>1, <2>3
<1> QED
  BY <1>1, <1>2, ReadingGoesOn

-----------------------------------------------------------------------------
(* What becomes of the results a runner holds                              *)

\* t has what s has, or less: no call is queued, held for sending or recovered anew.
Fewer(s, t) ==
  /\ t.recovered \subseteq s.recovered /\ t.scheduled \subseteq s.scheduled
  /\ s.answered \subseteq t.answered
  /\ Range(t.queue) \subseteq Range(s.queue)
  /\ \A c \in Calls : t.pendingResults[c] \in {s.pendingResults[c], NoResult}

\* A quiet step sends what it held for sending, if it begins to send.
LEMMA QuietHolds ==
  ASSUME CallsInv, QuietStep
  PROVE  /\ SameCalls(rs, rs') /\ SameAwaits(rs, rs') /\ ever' = ever
         /\ pc = "event" => pc' = "event"
         /\ pc' \in Sends =>
              \/ pc \in Sends /\ send'.call = send.call /\ send'.result = send.result
              \/ /\ send'.call \in Calls /\ rs.pendingResults[send'.call] # NoResult
                 /\ send'.result = rs.pendingResults[send'.call]
<1>t. /\ TypeOK /\ Orderly(rs) /\ rs \in RunnerStates /\ SendInv /\ PlaceInv
  BY DEF CallsInv, TypeOK
<1> DEFINE Same(t) == SameCalls(rs, t) /\ SameAwaits(rs, t)
           Sent == pc' \in Sends =>
              \/ pc \in Sends /\ send'.call = send.call /\ send'.result = send.result
              \/ /\ send'.call \in Calls /\ rs.pendingResults[send'.call] # NoResult
                 /\ send'.result = rs.pendingResults[send'.call]
           Listed == pc = "event" => pc' = "event"
<1>1. Same(rs) /\ Same(ArmIdle(rs)) /\ Same(MaybeArmPendingIdle(rs))
  BY <1>t, IdleEffect, IdleAwaits DEF SameCalls, SameAwaits
<1>2. ASSUME NEW c \in Calls PROVE Same(MaybeArmPendingIdle([rs EXCEPT !.external = @ \cup {c}]))
  <2> DEFINE u == [rs EXCEPT !.external = @ \cup {c}]
             t == MaybeArmPendingIdle(u)
  <2>1. u \in RunnerStates /\ SameAwaits(rs, u)
    BY <1>t DEF RunnerStates, SameAwaits
  <2> HIDE DEF u
  <2>2. SameAwaits(u, t)
    BY <2>1, IdleAwaits
  <2>3. SameAwaits(rs, t)
    BY <2>1, <2>2 DEF SameAwaits
  <2>4. SameCalls(rs, t)
    BY <1>t, SkipExternalEffect DEF u
  <2> QED
    BY <2>3, <2>4 DEF u
<1>3. ASSUME NEW c \in Calls, NEW from \in {"use", "flush"}, NEW back \in Backs, rs.pendingResults[c] # NoResult,
             StartSend(c, rs.pendingResults[c], from, back)
      PROVE  Sent
  <2>1. rs.pendingResults[c] \in Results
    BY <1>t, <1>3 DEF RunnerStates
  <2>2. send'.call = c /\ send'.result = rs.pendingResults[c]
    BY <1>3, <2>1, StartSendEffect
  <2> QED
    BY <1>3, <2>2
<1>4. CASE QuietListing
  <2>1. CASE HandleDone
    <3>1. rs' \in {rs, ArmIdle(rs)} /\ ever' = ever /\ pc' \notin Sends /\ Listed
      BY <2>1 DEF HandleDone, AfterList, history, Sends
    <3> HIDE DEF Same
    <3>2. Same(rs')
      BY <1>1, <3>1
    <3> QED
      BY <3>1, <3>2 DEF Same
  <2>2. CASE StreamOpens \/ StreamFails \/ EventsListed \/ ReconcileFails
    BY <1>1, <2>2 DEF StreamOpens, StreamFails, EventsListed, ReconcileFails, Sleep, history, Sends
  <2>3. CASE PollFails \/ SeenBefore \/ PassOver \/ PendingDone
    <3>1. rs' = rs /\ ever' = ever /\ Listed
      BY <2>3 DEF PollFails, SeenBefore, PassOver, PendingDone, history
    <3>2. pc' \notin Sends
      BY <2>3 DEF PollFails, SeenBefore, PassOver, PendingDone, AtEvent, Sends
    <3> QED
      BY <1>1, <3>1, <3>2
  <2> QED
    BY <1>4, <2>1, <2>2, <2>3 DEF QuietListing
<1>5. CASE QuietHandling
  <2>1. PICK c \in Calls : HandleSettled(c) \/ ResendResult(c) \/ SkipExternal(c)
    BY <1>5 DEF QuietHandling
  <2>2. Handles(c) /\ ever' = ever
    BY <2>1 DEF HandleSettled, ResendResult, SkipExternal, history
  <2>3. pc \in {"pending", "handle"} /\ pc \in Backs /\ pc \notin Sends
    BY <1>t, <2>2, HandlesEffect DEF Backs
  <2>4. CASE ResendResult(c)
    <3>1. rs' = rs /\ rs.pendingResults[c] # NoResult /\ StartSend(c, rs.pendingResults[c], "use", pc)
      BY <2>4 DEF ResendResult
    <3>2. Sent
      BY <1>3, <2>3, <3>1
    <3> QED
      BY <1>1, <2>2, <2>3, <3>1, <3>2
  <2>5. CASE SkipExternal(c)
    <3>1. rs' = MaybeArmPendingIdle([rs EXCEPT !.external = @ \cup {c}]) /\ pc' = pc
      BY <2>5 DEF SkipExternal
    <3>2. Same(MaybeArmPendingIdle([rs EXCEPT !.external = @ \cup {c}]))
      BY <1>2
    <3> HIDE DEF Same
    <3>3. Same(rs')
      BY <3>1, <3>2
    <3> QED
      BY <2>2, <2>3, <3>1, <3>3 DEF Same
  <2>6. CASE HandleSettled(c)
    <3>1. rs' = rs /\ pc' = pc
      BY <2>6 DEF HandleSettled
    <3> QED
      BY <1>1, <2>2, <2>3, <3>1
  <2> QED
    BY <2>1, <2>4, <2>5, <2>6
<1>6. CASE QuietSend
  <2>1. /\ pc = "send" /\ UNCHANGED Sending
        /\ send'.call = send.call /\ send'.result = send.result
    BY <1>6, SendStepEffect DEF QuietSend
  <2>2. rs' = rs /\ ever' = ever /\ pc \in Sends
    BY <2>1 DEF Sending, history, Sends
  <2> QED
    BY <1>1, <2>1, <2>2
<1>7. CASE QuietFlush
  <2>1. CASE FlushEnds
    <3>1. rs' = MaybeArmPendingIdle(rs) /\ ever' = ever /\ pc' \notin Sends /\ Listed
      BY <2>1 DEF FlushEnds, history, Sends
    <3> HIDE DEF Same
    <3>2. Same(rs')
      BY <1>1, <3>1
    <3> QED
      BY <3>1, <3>2 DEF Same
  <2>2. CASE FlushStarts
    BY <1>1, <2>2 DEF FlushStarts, history, Sends
  <2>3. ASSUME NEW c \in Calls, FlushNext(c)
        PROVE  SameCalls(rs, rs') /\ SameAwaits(rs, rs') /\ ever' = ever /\ Listed /\ Sent
    <3>1. rs' = rs /\ ever' = ever /\ pc = "flush" /\ c \in todo /\ StartSend(c, rs.pendingResults[c], "flush", "flush")
      BY <2>3 DEF FlushNext, history
    <3>2. rs.pendingResults[c] # NoResult
      BY <1>t, <3>1 DEF PlaceInv, Place, Sends
    <3>3. Sent
      BY <1>3, <3>1, <3>2 DEF Backs
    <3> QED
      BY <1>1, <3>1, <3>3
  <2> QED
    BY <1>7, <2>1, <2>2, <2>3 DEF QuietFlush
<1>8. CASE QuietWait
  <2>1. /\ rs' = rs /\ ever' = ever /\ pc \in {"select", "sleep"}
        /\ pc' \in {"top", "sleep", "list", wake} /\ (pc' = wake => pc = "sleep" \/ pc' \in {"top", "sleep", "list"})
    BY <1>8 DEF QuietWait, StreamSeenBefore, AtStream, Disconnected, Sleep, SleepEnds, Tick, history
  <2>2. pc = "sleep" => wake \in {"open", "list"}
    BY <1>t DEF PlaceInv, Place, Sends
  <2>3. pc' \notin Sends
    BY <2>1, <2>2 DEF Sends
  <2> QED
    BY <1>1, <2>1, <2>3
<1>9. CASE Goroutines \/ ControlPlane \/ Cancel \/ UNCHANGED vars
  <2>1. ControlPlane => UNCHANGED <<loop, history>>
    BY <1>t, ControlPlaneEffect
  <2>2. UNCHANGED <<pc, rs, send, ever>>
    BY <1>9, <2>1 DEF Goroutines, ToolReturns, ToolTimesOut, ToolCancelled, AbandonedToolEnds, Cancel, loop, vars, history
  <2> QED
    BY <1>1, <2>2
<1> QED
  BY <1>4, <1>5, <1>6, <1>7, <1>8, <1>9 DEF QuietStep

\* Fewer and SameAwaits go on from step to step.
LEMMA FewerGoesOn ==
  /\ \A s : Fewer(s, s) /\ SameAwaits(s, s)
  /\ \A s, t : SameCalls(s, t) => Fewer(s, t)
  /\ \A s, t, u : SameAwaits(s, t) /\ SameAwaits(t, u) => SameAwaits(s, u)
  /\ \A s, t, u : Fewer(s, t) /\ Fewer(t, u) => Fewer(s, u)
<1>1. /\ \A s : Fewer(s, s) /\ SameAwaits(s, s)
      /\ \A s, t : SameCalls(s, t) => Fewer(s, t)
      /\ \A s, t, u : SameAwaits(s, t) /\ SameAwaits(t, u) => SameAwaits(s, u)
  BY DEF Fewer, SameAwaits, SameCalls
<1>2. ASSUME NEW s, NEW t, NEW u, Fewer(s, t), Fewer(t, u) PROVE Fewer(s, u)
  <2>1. \A c \in Calls : u.pendingResults[c] \in {s.pendingResults[c], NoResult}
    BY <1>2 DEF Fewer
  <2>2. /\ u.recovered \subseteq s.recovered /\ u.scheduled \subseteq s.scheduled
        /\ s.answered \subseteq u.answered /\ Range(u.queue) \subseteq Range(s.queue)
    BY <1>2 DEF Fewer
  <2> QED
    BY <2>1, <2>2 DEF Fewer
<1> QED
  BY <1>1, <1>2

\* markAnswered, startNextToolExecution and the end of an execution take away, and change nothing
\* the session waits for.
LEMMA SettlingFewer ==
  ASSUME NEW s \in RunnerStates
  PROVE  /\ \A S \in SUBSET Calls : Fewer(s, MarkAllAnswered(s, S)) /\ SameAwaits(s, MarkAllAnswered(s, S))
         /\ Fewer(s, StartNext(s)) /\ SameAwaits(s, StartNext(s))
         /\ Fewer(s, ClearActive(s)) /\ SameAwaits(s, ClearActive(s))
<1>1. ASSUME NEW S \in SUBSET Calls PROVE Fewer(s, MarkAllAnswered(s, S)) /\ SameAwaits(s, MarkAllAnswered(s, S))
  <2> DEFINE t == MarkAllAnswered(s, S)
  <2>1. /\ t.answered = s.answered \cup S /\ t.recovered = s.recovered \ S
        /\ \A c \in Calls : t.pendingResults[c] = IF c \in S THEN NoResult ELSE s.pendingResults[c]
        /\ t.scheduled = s.scheduled /\ t.queue = s.queue
    BY MarkAllAnsweredEffect
  <2> HIDE DEF t
  <2>2. Fewer(s, t)
    BY <2>1 DEF Fewer
  <2> QED
    BY <2>2, MarkAllAnsweredAwaits DEF t
<1>2. Fewer(s, StartNext(s))
  <2> DEFINE t == StartNext(s)
  <2>1. /\ t.answered = s.answered /\ t.pendingResults = s.pendingResults /\ t.recovered = s.recovered
        /\ Range(t.queue) \subseteq Range(s.queue) /\ t.scheduled \subseteq s.scheduled
    BY StartNextEffect
  <2> HIDE DEF t
  <2>2. Fewer(s, t)
    BY <2>1 DEF Fewer
  <2> QED
    BY <2>2 DEF t
<1>3. Fewer(s, ClearActive(s))
  BY ClearActiveEffect DEF Fewer
<1>4. SameAwaits(s, StartNext(s)) /\ SameAwaits(s, ClearActive(s))
  BY QueueAwaits
<1> QED
  BY <1>1, <1>2, <1>3, <1>4

\* Reading an event the loop observes what the session waits for, and takes calls away.
LEMMA LearnHolds ==
  ASSUME CallsInv, ReadInv, NEW e, (ListedEvent /\ e = Current) \/ (StreamEvent /\ e = Arrived)
  PROVE  /\ Fewer(rs, rs') /\ SameAwaits(ObserveSessionState(rs, e), rs')
         /\ pc' \notin Sends
         /\ ledger' = ledger \/ (StreamEvent /\ Discard(StaleRecovered(ObserveSessionState(rs, e))))
<1>1. rs \in RunnerStates /\ Orderly(rs)
  BY DEF CallsInv, TypeOK
<1>2. e \in Events
  BY CurrentIsEvent, ArrivedIsEvent DEF ListedEvent, StreamEvent, AtNewEvent
<1> DEFINE o == ObserveSessionState(rs, e)
           r == ReconcileRecoveredResults(o)
           n == NoteIdleEvent(r, e)
<1>3. o \in RunnerStates /\ Orderly(o) /\ SameCalls(rs, o)
  BY <1>1, <1>2, ObservedEffect DEF Frame
<1>4. rs' = Learn(o, e) \/ rs' = Learn(n, e)
  BY DEF ListedEvent, StreamEvent, Observed, Noted
<1>o. o = ObserveSessionState(rs, e)
  OBVIOUS
<1> HIDE DEF o
<1>5. r \in RunnerStates /\ Fewer(o, r) /\ SameAwaits(o, r)
  <2>1. /\ r \in RunnerStates /\ r.answered = o.answered /\ r.recovered \subseteq o.recovered
        /\ r.queue = o.queue /\ r.scheduled = o.scheduled
        /\ \A c \in Calls : r.pendingResults[c] = IF c \in StaleRecovered(o) THEN NoResult ELSE o.pendingResults[c]
    BY <1>3, ReconcileRecoveredEffect
  <2>2. SameAwaits(o, r)
    BY <1>3, ReconcileRecoveredAwaits
  <2> HIDE DEF r
  <2> QED
    BY <2>1, <2>2 DEF Fewer
<1> HIDE DEF r
<1>6. n \in RunnerStates /\ SameCalls(r, n) /\ SameAwaits(r, n)
  BY <1>5, NoteIdleEventEffect, NoteIdleAwaits
<1> HIDE DEF n
<1>7. \A s \in {o, n} : s \in RunnerStates /\ Fewer(rs, s) /\ SameAwaits(o, s)
  BY <1>3, <1>5, <1>6, FewerGoesOn
<1>8. ASSUME NEW s \in RunnerStates PROVE Fewer(s, Learn(s, e)) /\ SameAwaits(s, Learn(s, e))
  <2>1. CASE e.type = "confirm"
    <3> DEFINE t == RecordConfirmation(s, e.call, e.verdict)
    <3>1. e.call \in Calls /\ e.verdict \in Verdicts
      BY <1>2, <2>1, EventFields DEF Verdicts
    <3>2. /\ t.answered = s.answered /\ t.pendingResults = s.pendingResults /\ t.recovered = s.recovered
          /\ t.scheduled = s.scheduled /\ t.queue = s.queue
      BY <3>1, RecordConfirmationEffect
    <3>3. SameAwaits(s, t) /\ Learn(s, e) = t
      BY <2>1, KnownAwaits DEF Learn
    <3> HIDE DEF t
    <3> QED
      BY <3>2, <3>3 DEF Fewer
  <2>2. CASE e.type = "result"
    <3>1. {e.call} \in SUBSET Calls
      BY <1>2, <2>2, EventFields
    <3>2. Learn(s, e) = MarkAllAnswered(s, {e.call})
      BY <2>2 DEF Learn, MarkAnswered
    <3> QED
      BY <3>1, <3>2, SettlingFewer
  <2>3. CASE e.type \notin {"confirm", "result"}
    <3>1. Learn(s, e) = s
      BY <2>3 DEF Learn
    <3> QED
      BY <3>1, FewerGoesOn
  <2> QED
    BY <2>1, <2>2, <2>3
<1>9. Fewer(rs, rs') /\ SameAwaits(o, rs')
  <2>1. PICK s \in {o, n} : rs' = Learn(s, e)
    BY <1>4
  <2>2. Fewer(rs, s) /\ SameAwaits(o, s) /\ Fewer(s, rs') /\ SameAwaits(s, rs')
    BY <1>7, <1>8, <2>1
  <2> QED
    BY <2>2, FewerGoesOn
<1>10. pc' \notin Sends
  BY DEF ListedEvent, AtNewEvent, AtEvent, StreamEvent, Sends
<1>11. ledger' = ledger \/ (StreamEvent /\ Discard(StaleRecovered(o)))
  BY <1>o DEF ListedEvent, StreamEvent
<1> QED
  BY <1>9, <1>10, <1>11, <1>o

\* An interrupt takes calls away, with the records of those it hits.
LEMMA InterruptHolds ==
  ASSUME CallsInv, ReadInv, NEW e, NEW eligible \in SUBSET Calls,
         \/ ListedInterrupt /\ e = Current /\ eligible = Eligible
         \/ StreamInterrupt /\ e = Arrived /\ eligible = Calls
  PROVE  /\ Fewer(rs, rs') /\ SameAwaits(ObserveSessionState(rs, e), rs')
         /\ pc' \notin Sends
         /\ LET hit == Interrupted(rs, e.thread, eligible)
            IN \/ Discard(hit)
               \/ StreamInterrupt /\ Discard(hit \cup StaleRecovered(ObserveSessionState(rs, e)))
<1>1. rs \in RunnerStates /\ Orderly(rs)
  BY DEF CallsInv, TypeOK
<1>2. e \in Events
  BY CurrentIsEvent, ArrivedIsEvent DEF ListedInterrupt, StreamInterrupt, AtNewEvent
<1> DEFINE o == ObserveSessionState(rs, e)
           r == ReconcileRecoveredResults(o)
           n == NoteIdleEvent(r, e)
<1>3. /\ o \in RunnerStates /\ Orderly(o) /\ SameCalls(rs, o)
      /\ e.type # "use" => o.toolUses = rs.toolUses
  BY <1>1, <1>2, ObservedEffect DEF Frame
<1>t. e.type # "use"
  BY DEF ListedInterrupt, StreamInterrupt
<1>4. \/ /\ ListedInterrupt /\ rs' = HandleInterrupt(o, e.thread, eligible)
         /\ Discard(Interrupted(o, e.thread, eligible))
      \/ /\ StreamInterrupt /\ rs' = HandleInterrupt(n, e.thread, eligible)
         /\ Discard(Interrupted(n, e.thread, eligible) \cup StaleRecovered(o))
  BY DEF ListedInterrupt, StreamInterrupt, Observed, Noted
<1>o. o = ObserveSessionState(rs, e)
  OBVIOUS
<1> HIDE DEF o
<1>5. /\ r \in RunnerStates /\ Fewer(o, r) /\ SameAwaits(o, r)
      /\ r.answered = o.answered /\ r.queue = o.queue /\ r.active = o.active /\ r.toolUses = o.toolUses
  <2>1. /\ r \in RunnerStates /\ r.answered = o.answered /\ r.recovered \subseteq o.recovered
        /\ r.queue = o.queue /\ r.scheduled = o.scheduled /\ r.active = o.active /\ r.toolUses = o.toolUses
        /\ \A c \in Calls : r.pendingResults[c] = IF c \in StaleRecovered(o) THEN NoResult ELSE o.pendingResults[c]
    BY <1>3, ReconcileRecoveredEffect
  <2>2. SameAwaits(o, r)
    BY <1>3, ReconcileRecoveredAwaits
  <2> HIDE DEF r
  <2> QED
    BY <2>1, <2>2 DEF Fewer
<1> HIDE DEF r
<1>6. n \in RunnerStates /\ SameCalls(r, n) /\ SameAwaits(r, n) /\ n.toolUses = r.toolUses
  BY <1>5, NoteIdleEventEffect, NoteIdleAwaits
<1> HIDE DEF n
<1>7. \A s \in {o, n} : s \in RunnerStates /\ Fewer(rs, s) /\ SameAwaits(o, s)
                        /\ Interrupted(s, e.thread, eligible) = Interrupted(rs, e.thread, eligible)
  <2>1. \A s \in {o, n} : s \in RunnerStates /\ Fewer(rs, s) /\ SameAwaits(o, s)
    BY <1>3, <1>5, <1>6, FewerGoesOn
  <2>2. \A s \in {o, n} : s.answered = rs.answered /\ s.queue = rs.queue /\ s.active = rs.active
                          /\ s.toolUses = rs.toolUses
    BY <1>t, <1>3, <1>5, <1>6 DEF SameCalls
  <2> QED
    BY <2>1, <2>2 DEF Interrupted
<1>8. ASSUME NEW s \in RunnerStates
      PROVE  LET t == HandleInterrupt(s, e.thread, eligible) IN Fewer(s, t) /\ SameAwaits(s, t)
  <2> DEFINE t == HandleInterrupt(s, e.thread, eligible)
             hit == Interrupted(s, e.thread, eligible)
  <2>1. /\ t.answered = s.answered \cup hit /\ t.recovered = s.recovered \ hit
        /\ \A c \in Calls : t.pendingResults[c] = IF c \in hit THEN NoResult ELSE s.pendingResults[c]
        /\ Range(t.queue) = {c \in Range(s.queue) : ~(c \in eligible /\ Matches(c, e.thread))}
        /\ t.scheduled = s.scheduled \ hit
    BY HandleInterruptEffect
  <2>2. SameAwaits(s, t)
    BY HandleInterruptAwaits
  <2> HIDE DEF t, hit
  <2>3. Fewer(s, t)
    BY <2>1 DEF Fewer
  <2> QED
    BY <2>2, <2>3 DEF t
<1>9. Fewer(rs, rs') /\ SameAwaits(o, rs')
  <2>1. PICK s \in {o, n} : rs' = HandleInterrupt(s, e.thread, eligible)
    BY <1>4
  <2>2. Fewer(rs, s) /\ SameAwaits(o, s) /\ Fewer(s, rs') /\ SameAwaits(s, rs')
    BY <1>7, <1>8, <2>1
  <2> QED
    BY <2>2, FewerGoesOn
<1>10. pc' \notin Sends
  BY DEF ListedInterrupt, AtNewEvent, AtEvent, StreamInterrupt, Sends
<1>11. \/ Discard(Interrupted(rs, e.thread, eligible))
       \/ StreamInterrupt /\ Discard(Interrupted(rs, e.thread, eligible) \cup StaleRecovered(o))
  BY <1>4, <1>7
<1> QED
  BY <1>9, <1>10, <1>11, <1>o

\* The end of a listing drops what is stale.
LEMMA ListEndsHolds ==
  ASSUME CallsInv, ListEnds
  PROVE  /\ Fewer(rs, rs') /\ SameAwaits(rs, rs') /\ pc' \notin Sends
         /\ Discard(StaleRecovered(ReconcileUnmatchedRequiresAction(rs)))
<1> DEFINE s == ReconcileUnmatchedRequiresAction(rs)
           t == ReconcileRecoveredResults(s)
<1>1. rs \in RunnerStates
  BY DEF CallsInv, TypeOK
<1>2. s \in RunnerStates /\ SameCalls(rs, s) /\ SameAwaits(rs, s)
  BY <1>1, ReconcileUnmatchedEffect, KnownAwaits
<1>3. rs' \in {t, DisarmIdle(t)} /\ Discard(StaleRecovered(s)) /\ pc' \notin Sends
  BY DEF ListEnds, Sends
<1>s. s = ReconcileUnmatchedRequiresAction(rs)
  OBVIOUS
<1> HIDE DEF s
<1>4. t \in RunnerStates /\ Fewer(s, t) /\ SameAwaits(s, t)
  <2>1. /\ t \in RunnerStates /\ t.answered = s.answered /\ t.recovered \subseteq s.recovered
        /\ t.queue = s.queue /\ t.scheduled = s.scheduled
        /\ \A c \in Calls : t.pendingResults[c] = IF c \in StaleRecovered(s) THEN NoResult ELSE s.pendingResults[c]
    BY <1>2, ReconcileRecoveredEffect
  <2>2. SameAwaits(s, t)
    BY <1>2, ReconcileRecoveredAwaits
  <2> HIDE DEF t
  <2> QED
    BY <2>1, <2>2 DEF Fewer
<1> HIDE DEF t
<1>5. SameCalls(t, DisarmIdle(t)) /\ SameAwaits(t, DisarmIdle(t))
  BY <1>4, IdleEffect, IdleAwaits
<1>6. Fewer(rs, rs') /\ SameAwaits(rs, rs')
  BY <1>2, <1>3, <1>4, <1>5, FewerGoesOn
<1> QED
  BY <1>3, <1>6, <1>s

\* A call is executed when it becomes active, and only then.
LEMMA EverStep ==
  ASSUME CallsInv, ReadInv, [Next]_vars
  PROVE  \A c \in ever' \ ever : /\ c = rs'.active /\ c \in Calls
                                 /\ c \in Range(rs.queue) \/ BeginFresh(c)
<1>t. TypeOK /\ exec.call = rs.active /\ NoCall \notin Calls
  BY NamesAssumption DEF CallsInv, ExecInv
<1>0. CallsInv'
  BY NextCallsInv
<1>1. ASSUME NEW s, Become(s), NEW c \in ever' \ ever
      PROVE  c = rs'.active /\ c \in Calls /\ (c \in Range(rs.queue) \/ BeginFresh(c))
  <2>1. c = s.active /\ s.active \notin {NoCall, rs.active} /\ rs' = s /\ exec' = [NoExec EXCEPT !.call = s.active]
    BY <1>1 DEF Become, history
  <2>2. exec'.call = c
    BY <2>1 DEF NoExec
  <2>3. c \in Calls /\ Launches(c)
    BY <1>0, <1>t, <2>1, <2>2 DEF CallsInv, TypeOK, ExecStates, Launches
  <2> QED
    BY <2>1, <2>3, LaunchStep
<1>2. CASE QuietStep
  BY <1>2, QuietHolds
<1>3. CASE GoneStep
  <2>1. ever' = ever
    BY <1>3 DEF GoneStep, StreamRefused, ListedTermination, StreamTermination, IdleTimeout, CancelSeen,
                Exit, Crash, SendCancelled, BeginFails, history
  <2> QED
    BY <2>1
<1>4. CASE Start \/ ListedEvent \/ FinishUnanswered
  BY <1>4 DEF Start, ListedEvent, FinishUnanswered, history
<1>5. CASE ListEnds \/ ListedInterrupt \/ StreamEvent \/ StreamInterrupt
  <2>1. \E S : Discard(S)
    BY <1>5 DEF ListEnds, ListedInterrupt, StreamEvent, StreamInterrupt
  <2> QED
    BY <2>1 DEF Discard
<1>6. ASSUME NEW c \in Calls, AwaitConfirmation(c) \/ ResolveWithoutPost(c) \/ BeginRecorded(c) PROVE ever' = ever
  BY <1>6 DEF AwaitConfirmation, ResolveWithoutPost, BeginRecorded, history
<1>7. CASE \E c \in Calls : BeginFresh(c)
  BY <1>1, <1>7 DEF BeginFresh
<1>8. CASE SendEnds
  BY <1>1, <1>8 DEF SendEnds
<1>9. CASE FinishAnswered
  <2> DEFINE s == StartNext(ClearActive(rs))
  <2>1. rs' = s /\ ever' = ever \cup ({s.active} \ {NoCall})
    BY <1>9 DEF FinishAnswered
  <2>2. s.active \in {NoCall} \cup Range(rs.queue)
    BY FinishEffect DEF CallsInv, TypeOK
  <2> HIDE DEF s
  <2>3. Range(rs.queue) \subseteq Calls
    BY QueueTypes
  <2> QED
    BY <2>1, <2>2, <2>3
<1> QED
  BY <1>2, <1>3, <1>4, <1>5, <1>6, <1>7, <1>8, <1>9, StepKinds DEF LoudStep

\* A call that is settled, or waits, is not recorded anew; nor is one whose execution was for nothing.
LEMMA SettleHolds ==
  ASSUME CallsInv, FinishAnswered \/ \E c \in Calls : AwaitConfirmation(c) \/ ResolveWithoutPost(c)
  PROVE  Fewer(rs, rs') /\ SameAwaits(rs, rs') /\ ledger' = ledger /\ pc' \notin Sends
<1>t. rs \in RunnerStates /\ TypeOK /\ Orderly(rs)
  BY DEF CallsInv, TypeOK
<1>1. CASE FinishAnswered
  <2> DEFINE s == ClearActive(rs)
             t == StartNext(s)
  <2>1. rs' = t /\ ledger' = ledger /\ pc' \notin Sends
    BY <1>1 DEF FinishAnswered, Round, Sends
  <2>2. s \in RunnerStates /\ Fewer(rs, s) /\ SameAwaits(rs, s)
    BY <1>t, ClearActiveEffect, SettlingFewer
  <2> HIDE DEF s
  <2>3. Fewer(s, t) /\ SameAwaits(s, t)
    BY <2>2, SettlingFewer
  <2> HIDE DEF t
  <2> QED
    BY <2>1, <2>2, <2>3, FewerGoesOn
<1>2. ASSUME NEW c \in Calls, AwaitConfirmation(c)
      PROVE  Fewer(rs, rs') /\ SameAwaits(rs, rs') /\ ledger' = ledger /\ pc' \notin Sends
  <2>1. rs' = [rs EXCEPT !.pendingAsk = @ \cup {c}] /\ ledger' = ledger /\ pc' = pc /\ Handles(c)
    BY <1>2 DEF AwaitConfirmation
  <2>2. pc' \notin Sends
    BY <1>t, <2>1, HandlesEffect
  <2>3. Fewer(rs, rs') /\ SameAwaits(rs, rs')
    BY <1>t, <2>1 DEF RunnerStates, Fewer, SameAwaits
  <2> QED
    BY <2>1, <2>2, <2>3
<1>3. ASSUME NEW c \in Calls, ResolveWithoutPost(c)
      PROVE  Fewer(rs, rs') /\ SameAwaits(rs, rs') /\ ledger' = ledger /\ pc' \notin Sends
  <2>1. rs' = MarkAllAnswered(rs, {c}) /\ ledger' = ledger /\ pc' = pc /\ Handles(c)
    BY <1>3 DEF ResolveWithoutPost, MarkAnswered
  <2>2. pc' \notin Sends
    BY <1>t, <2>1, HandlesEffect
  <2> QED
    BY <1>t, <2>1, <2>2, SettlingFewer
<1> QED
  BY <1>1, <1>2, <1>3

\* What Begin finds no record of is recorded as started, and queued.
LEMMA BeginFreshHolds ==
  ASSUME CallsInv, Reliable, NEW c \in Calls, BeginFresh(c)
  PROVE  /\ SameAwaits(rs, rs') /\ pc' \notin Sends
         /\ pc \in {"pending", "handle"} /\ Untouched(c) /\ c \in Owned /\ ledger[c] = "absent"
         /\ rs'.answered = rs.answered /\ rs'.recovered = rs.recovered
         /\ rs'.pendingResults = rs.pendingResults
         /\ rs'.scheduled \subseteq rs.scheduled \cup {c} /\ Range(rs'.queue) \subseteq Range(rs.queue) \cup {c}
         /\ ledger'[c] = "started" /\ \A d \in Calls \ {c} : ledger'[d] = ledger[d]
<1>t. rs \in RunnerStates /\ TypeOK /\ Orderly(rs)
  BY DEF CallsInv, TypeOK
<1> DEFINE s == Schedule(rs, c)
<1>1. Become(s) /\ Allowed(c) /\ ledger[c] = "absent" /\ pc' = pc
  BY DEF BeginFresh
<1>2. rs' = s /\ Handles(c) /\ Untouched(c) /\ c \in Owned
  BY <1>1 DEF Become, Allowed
<1>3. /\ s.answered = rs.answered /\ s.recovered = rs.recovered /\ s.pendingResults = rs.pendingResults
      /\ Range(s.queue) \subseteq Range(rs.queue) \cup {c} /\ s.scheduled \subseteq rs.scheduled \cup {c}
  BY <1>t, ScheduleEffect
<1>4. SameAwaits(rs, s)
  BY <1>t, QueueAwaits
<1> HIDE DEF s
<1>5. pc \in {"pending", "handle"} /\ pc' \notin Sends
  BY <1>t, <1>1, <1>2, HandlesEffect
<1>6. ledger'[c] = "started" /\ \A d \in Calls \ {c} : ledger'[d] = ledger[d]
  BY BeginFreshEffect DEF Reliable
<1> QED
  BY <1>1, <1>2, <1>3, <1>4, <1>5, <1>6

\* What the runner holds is what the ledger says: a result held for sending or being sent is on
\* record, a call that is scheduled is recorded as started, and none that is queued has been
\* executed.
HeldInv ==
  /\ \A c \in Calls : rs.pendingResults[c] # NoResult => ledger[c] = rs.pendingResults[c]
  /\ pc \in Sends => ledger[send.call] = send.result
  /\ \A c \in rs.scheduled \ rs.answered : ledger[c] = "started"
  /\ \A c \in Range(rs.queue) : c \notin ever

\* t holds the result r of c besides what s holds.
Holds(s, t, c, r) ==
  /\ t.answered = s.answered /\ t.recovered = s.recovered /\ t.scheduled \subseteq s.scheduled
  /\ Range(t.queue) \subseteq Range(s.queue)
  /\ \A d \in Calls : t.pendingResults[d] = IF d = c THEN r ELSE s.pendingResults[d]

\* A result that is held changes nothing the session waits for.
LEMMA HoldAwaits ==
  ASSUME NEW s \in RunnerStates, Orderly(s), NEW c \in Calls, NEW r \in Results,
         c \notin s.scheduled \cup s.answered
  PROVE  LET t == [s EXCEPT !.pendingResults[c] = r]
         IN t \in RunnerStates /\ Holds(s, t, c, r) /\ SameAwaits(s, t)
<1> DEFINE t == [s EXCEPT !.pendingResults[c] = r]
<1>1. /\ t \in RunnerStates /\ t.answered = s.answered /\ t.scheduled = s.scheduled /\ t.queue = s.queue
      /\ \A d \in Calls : t.pendingResults[d] = IF d = c THEN r ELSE s.pendingResults[d]
  BY HoldResultEffect
<1>2. t.recovered = s.recovered /\ SameAwaits(s, t)
  BY DEF RunnerStates, SameAwaits
<1> HIDE DEF t
<1>3. Holds(s, t, c, r)
  BY <1>1, <1>2 DEF Holds
<1> QED
  BY <1>1, <1>2, <1>3 DEF t

\* The result r of c is recorded, held and sent.
Saves(c, r) ==
  /\ ledger[c] \in {"started", r} /\ ledger' = [ledger EXCEPT ![c] = r]
  /\ Holds(rs, rs', c, r) /\ c \notin rs'.scheduled /\ SameAwaits(rs, rs')
  /\ pc' = "send" /\ send'.call = c /\ send'.result = r

\* The end of an execution saves its result, and so does a record of a call that was started.
LEMMA SaveStep ==
  ASSUME CallsInv, HeldInv, Reliable,
         FinishUnanswered \/ \E c \in Calls : BeginRecorded(c) /\ ledger[c] # "sent"
  PROVE  \E c \in Calls, r \in Results : Saves(c, r)
<1>t. rs \in RunnerStates /\ TypeOK /\ Orderly(rs) /\ ledger \in [Calls -> Entries]
  BY DEF CallsInv, TypeOK
<1>1. CASE FinishUnanswered
  <2> DEFINE c == exec.call
             r == exec.result
             s == ClearActive(rs)
             t == [s EXCEPT !.pendingResults[c] = r]
  <2>1. /\ r # NoResult /\ c \notin rs.answered /\ Persist(c, r)
        /\ rs' = IF HasStore THEN t ELSE s
        /\ StartSend(c, r, "finish", IF pc = "select" THEN Round ELSE pc) /\ pc \in {"select", "sleep"}
    BY <1>1 DEF FinishUnanswered
  <2>2. c \in Calls /\ r \in Results /\ c = rs.active
    BY <1>t, <2>1 DEF CallsInv, TypeOK, ExecInv, ExecStates
  <2>3. c \in rs.scheduled \ rs.answered
    BY <1>t, <2>1, <2>2, NamesAssumption DEF Orderly
  <2>4. ledger[c] = "started"
    BY <2>3 DEF HeldInv
  <2>5. ledger' = [ledger EXCEPT ![c] = r]
    BY <1>t, <2>1, <2>2, <2>4, ReliableStore DEF Entries
  <2>6. /\ s \in RunnerStates /\ s.answered = rs.answered /\ s.recovered = rs.recovered
        /\ s.pendingResults = rs.pendingResults
        /\ s.scheduled = rs.scheduled \ {c} /\ s.queue = rs.queue /\ Orderly(s) /\ SameAwaits(rs, s)
    BY <1>t, <2>2, ClearActiveEffect, QueueAwaits
  <2>7. rs' = t
    BY <2>1 DEF Reliable
  <2> HIDE DEF s
  <2>8. Holds(s, t, c, r) /\ SameAwaits(s, t)
    BY <2>1, <2>2, <2>6, HoldAwaits
  <2> HIDE DEF t
  <2>9. Holds(rs, t, c, r) /\ c \notin t.scheduled /\ SameAwaits(rs, t)
    BY <2>6, <2>8 DEF Holds, SameAwaits
  <2>10. pc' = "send" /\ send'.call = c /\ send'.result = r
    BY <2>1 DEF StartSend, NoSend
  <2>11. Saves(c, r)
    BY <2>4, <2>5, <2>7, <2>9, <2>10 DEF Saves
  <2> QED
    BY <2>2, <2>11
<1>2. ASSUME NEW c \in Calls, BeginRecorded(c), ledger[c] # "sent"
      PROVE  \E r \in Results : Saves(c, r)
  <2> DEFINE r == SettleStarted(ledger)[c]
             t == [rs EXCEPT !.pendingResults[c] = r]
  <2>1. /\ ledger[c] # "absent" /\ ledger' = [ledger EXCEPT ![c] = r] /\ Untouched(c)
        /\ IF r = "sent" THEN TRUE ELSE rs' = t /\ StartSend(c, r, "use", pc)
    BY <1>2 DEF BeginRecorded, Allowed
  <2>2. r \in Results /\ r # "sent"
    BY <1>t, <1>2, <2>1, SettledEntry
  <2>3. ledger[c] \in {"started", r}
    BY DEF SettleStarted
  <2> HIDE DEF r
  <2>4. Holds(rs, t, c, r) /\ SameAwaits(rs, t)
    BY <1>t, <2>1, <2>2, HoldAwaits DEF Untouched
  <2>5. rs' = t /\ StartSend(c, r, "use", pc)
    BY <2>1, <2>2
  <2> HIDE DEF t
  <2>6. c \notin t.scheduled
    BY <2>1, <2>4 DEF Untouched, Holds
  <2>7. pc' = "send" /\ send'.call = c /\ send'.result = r
    BY <2>5 DEF StartSend, NoSend
  <2>8. Saves(c, r)
    BY <2>1, <2>3, <2>4, <2>5, <2>6, <2>7 DEF Saves
  <2> QED
    BY <2>2, <2>8
<1> QED
  BY <1>1, <1>2

\* A record of a result that was sent answers the call.
LEMMA SentBefore ==
  ASSUME CallsInv, NEW c \in Calls, BeginRecorded(c), ledger[c] = "sent"
  PROVE  Fewer(rs, rs') /\ SameAwaits(rs, rs') /\ ledger' = ledger /\ pc' \notin Sends
<1>t. rs \in RunnerStates /\ TypeOK /\ ledger \in [Calls -> Entries]
  BY DEF CallsInv, TypeOK
<1>1. SettleStarted(ledger)[c] = "sent"
  BY DEF SettleStarted
<1>2. /\ rs' = MarkAllAnswered(rs, {c}) /\ ledger' = [ledger EXCEPT ![c] = "sent"] /\ pc' = pc /\ Handles(c)
  BY <1>1 DEF BeginRecorded, MarkAnswered, Allowed
<1>3. ledger' = ledger
  BY <1>t, <1>2
<1>4. pc' \notin Sends
  BY <1>t, <1>2, HandlesEffect
<1> QED
  BY <1>t, <1>2, <1>3, <1>4, SettlingFewer

\* The end of a send answers the call, on record if the store has one, or holds its result.
LEMMA SendEndsHolds ==
  ASSUME CallsInv, SendEnds
  PROVE  /\ SameAwaits(rs, rs') /\ pc = "sent" /\ pc' \notin Sends
         /\ \/ /\ Fewer(rs, rs')
               /\ \A c \in Calls : ledger'[c] # ledger[c] =>
                    /\ c = send.call /\ c \in rs'.answered
                    /\ ledger[c] # "absent" /\ ledger'[c] = "sent"
            \/ Holds(rs, rs', send.call, send.result) /\ ledger' = ledger
<1>t. /\ rs \in RunnerStates /\ TypeOK /\ Orderly(rs) /\ SendInv /\ ledger \in [Calls -> Entries]
  BY DEF CallsInv, TypeOK
<1>1. /\ pc = "sent" /\ rs' = NextState /\ pc' = send.back
      /\ IF send.outcome = "posted" THEN Persist(send.call, "sent") ELSE UNCHANGED ledger
  BY DEF SendEnds, Become, NextState
<1>2. /\ send.call \in Calls /\ send.result \in Results /\ send.call \notin rs.scheduled \cup rs.answered
      /\ pc' \notin Sends
  BY <1>t, <1>1 DEF SendInv, Sends
<1> DEFINE u == AfterSend(rs)
           w == StartNext(u)
<1>3. NextState \in {u, w}
  BY DEF NextState
<1>4. CASE send.outcome = "posted"
  <2>1. u = MarkAllAnswered(rs, {send.call})
    BY <1>4 DEF AfterSend, MarkAnswered
  <2>2. u \in RunnerStates /\ Fewer(rs, u) /\ SameAwaits(rs, u) /\ send.call \in u.answered
    BY <1>t, <1>2, <2>1, MarkAllAnsweredEffect, SettlingFewer
  <2> HIDE DEF u
  <2>3. Fewer(u, w) /\ SameAwaits(u, w) /\ w.answered = u.answered
    BY <2>2, SettlingFewer, StartNextEffect
  <2> HIDE DEF w
  <2>4. Fewer(rs, rs') /\ SameAwaits(rs, rs') /\ send.call \in rs'.answered
    BY <1>1, <1>3, <2>2, <2>3, FewerGoesOn
  <2>5. ledger' = ledger \/ (ledger[send.call] # "absent" /\ ledger' = [ledger EXCEPT ![send.call] = "sent"])
    BY <1>1, <1>2, <1>4, <1>t, PersistEffect DEF Entries
  <2>6. \A c \in Calls : ledger'[c] # ledger[c] =>
                    c = send.call /\ ledger[c] # "absent" /\ ledger'[c] = "sent"
    BY <1>t, <2>5
  <2> QED
    BY <1>1, <1>2, <2>4, <2>6
<1>5. CASE send.outcome = "kept"
  <2>1. u = [rs EXCEPT !.pendingResults[send.call] = send.result]
    BY <1>5 DEF AfterSend
  <2>2. u \in RunnerStates /\ Holds(rs, u, send.call, send.result) /\ SameAwaits(rs, u)
    BY <1>t, <1>2, <2>1, HoldAwaits
  <2> HIDE DEF u
  <2>3. /\ w.answered = u.answered /\ w.recovered = u.recovered /\ w.pendingResults = u.pendingResults
        /\ w.scheduled \subseteq u.scheduled /\ Range(w.queue) \subseteq Range(u.queue) /\ SameAwaits(u, w)
    BY <2>2, StartNextEffect, SettlingFewer
  <2> HIDE DEF w
  <2>4. Holds(rs, w, send.call, send.result) /\ SameAwaits(rs, w)
    BY <2>2, <2>3 DEF Holds, SameAwaits
  <2>5. Holds(rs, rs', send.call, send.result) /\ SameAwaits(rs, rs')
    BY <1>1, <1>3, <2>2, <2>4
  <2>6. ledger' = ledger
    BY <1>1, <1>5
  <2> QED
    BY <1>1, <1>2, <2>5, <2>6
<1>6. CASE send.outcome \notin {"posted", "kept"}
  <2>1. u = rs
    BY <1>6 DEF AfterSend
  <2> HIDE DEF u
  <2>2. Fewer(u, w) /\ SameAwaits(u, w)
    BY <1>t, <2>1, SettlingFewer
  <2> HIDE DEF w
  <2>3. Fewer(rs, rs') /\ SameAwaits(rs, rs')
    BY <1>1, <1>3, <2>1, <2>2, FewerGoesOn
  <2>4. ledger' = ledger
    BY <1>1, <1>6
  <2> QED
    BY <1>1, <1>2, <2>3, <2>4
<1> QED
  BY <1>4, <1>5, <1>6

\* A runner that starts holds what the ledger has; one that ended holds nothing.
LEMMA FreshHolds ==
  ASSUME CallsInv, Start \/ GoneStep
  PROVE  /\ HeldInv' /\ SameAwaits(FreshState, rs')
         /\ \A c \in rs'.recovered : ledger[c] # "absent"
         /\ seen' = {} /\ pc' \in {"open", "list", "down"} /\ Place' \notin Caught
<1>f. /\ FreshState.recovered = {} /\ FreshState.scheduled = {} /\ FreshState.queue = <<>>
      /\ FreshState.pendingResults = [c \in Calls |-> NoResult] /\ Range(<<>>) = {}
  BY DEF FreshState, Range
<1>1. CASE GoneStep
  <2>1. rs' = FreshState /\ pc' = "down" /\ Place' = "down" /\ seen' = {}
    BY <1>1, GoneStepEffect, GoneEffect
  <2> HIDE DEF FreshState
  <2> QED
    BY <1>f, <2>1 DEF HeldInv, Sends, Caught, SameAwaits
<1>2. CASE Start
  <2> DEFINE found == SettleStarted(ledger)
  <2>1. ledger' = found /\ rs' = Recovered(found) /\ seen' = {} /\ pc' \in {"open", "list"}
    BY <1>2 DEF Start, Connect, CallsInv, PlaceInv
  <2>2. found \in [Calls -> Entries] /\ \A c \in Calls : found[c] = "absent" => found[c] \notin Results
    BY SettledEntry DEF CallsInv, TypeOK, Results, UnknownResult
  <2>3. \A c \in Calls : ledger[c] = "absent" => found[c] = "absent"
    BY DEF SettleStarted
  <2> HIDE DEF found
  <2>4. /\ rs'.pendingResults = [c \in Calls |-> IF found[c] \in Results THEN found[c] ELSE NoResult]
        /\ rs'.recovered = {c \in Calls : found[c] \in Results}
        /\ rs'.scheduled = {} /\ rs'.queue = <<>> /\ SameAwaits(FreshState, rs')
    BY <2>1 DEF Recovered, FreshState, SameAwaits
  <2>5. HeldInv'
    BY <1>f, <2>1, <2>4 DEF HeldInv, Sends
  <2>6. Place' \notin Caught
    BY <2>1 DEF Place, Sends, Caught
  <2> QED
    BY <2>1, <2>2, <2>3, <2>4, <2>5, <2>6
<1> QED
  BY <1>1, <1>2

\* A step that takes calls away, and changes the record of answered ones only, keeps HeldInv.
LEMMA FewerHeldInv ==
  ASSUME CallsInv, CallsInv', HeldInv, Fewer(rs, rs'),
         \A c \in Calls : ledger'[c] # ledger[c] => c \in rs'.answered,
         \A c \in ever' \ ever : c = rs'.active,
         pc' \in Sends => \/ pc \in Sends /\ send'.call = send.call /\ send'.result = send.result
                          \/ /\ send'.call \in Calls /\ rs.pendingResults[send'.call] # NoResult
                             /\ send'.result = rs.pendingResults[send'.call]
  PROVE  HeldInv'
<1>t. Orderly(rs') /\ rs' \in RunnerStates /\ SendInv' /\ rs \in RunnerStates
  BY DEF CallsInv, TypeOK
<1>1. ASSUME NEW c \in Calls, rs'.pendingResults[c] # NoResult PROVE ledger'[c] = rs'.pendingResults[c]
  BY <1>t, <1>1 DEF Orderly, HeldInv, Fewer
<1>2. pc' \in Sends => ledger'[send'.call] = send'.result
  BY <1>t DEF SendInv, HeldInv
<1>3. ASSUME NEW c \in rs'.scheduled \ rs'.answered PROVE ledger'[c] = "started"
  <2>1. c \in rs.scheduled \ rs.answered /\ c \in Calls
    BY <1>t, <1>3 DEF Fewer, RunnerStates
  <2> QED
    BY <1>3, <2>1 DEF HeldInv
<1>4. ASSUME NEW c \in Range(rs'.queue) PROVE c \notin ever'
  BY <1>t, <1>4 DEF Orderly, HeldInv, Fewer
<1> QED
  BY <1>1, <1>2, <1>3, <1>4 DEF HeldInv

\* So does a step that holds one more result, which is on record.
LEMMA MoreHeldInv ==
  ASSUME CallsInv, CallsInv', HeldInv, NEW c \in Calls, NEW r \in Results, Holds(rs, rs', c, r),
         c \notin rs'.scheduled, ledger'[c] = r, \A d \in Calls \ {c} : ledger'[d] = ledger[d],
         \A d \in ever' \ ever : d = rs'.active,
         pc' \in Sends => send'.call = c /\ send'.result = r
  PROVE  HeldInv'
<1>t. Orderly(rs') /\ rs' \in RunnerStates
  BY DEF CallsInv, TypeOK
<1>1. ASSUME NEW d \in Calls, rs'.pendingResults[d] # NoResult PROVE ledger'[d] = rs'.pendingResults[d]
  BY <1>1 DEF HeldInv, Holds
<1>2. pc' \in Sends => ledger'[send'.call] = send'.result
  OBVIOUS
<1>3. ASSUME NEW d \in rs'.scheduled \ rs'.answered PROVE ledger'[d] = "started"
  <2>1. d \in rs.scheduled \ rs.answered /\ d \in Calls /\ d # c
    BY <1>t, <1>3 DEF Holds, RunnerStates
  <2> QED
    BY <2>1 DEF HeldInv
<1>4. ASSUME NEW d \in Range(rs'.queue) PROVE d \notin ever'
  BY <1>t, <1>4 DEF Orderly, HeldInv, Holds
<1> QED
  BY <1>1, <1>2, <1>3, <1>4 DEF HeldInv

-----------------------------------------------------------------------------
(* What the session waits for, as far as the loop has read                 *)

\* The events the loop has passed: a stream's runner reads its history again when it reconciles.
Pass == IF mode = "stream" /\ pc = "event" THEN 1..(lp.next - 1) ELSE seen

\* A recovered call was used before the loop decides about it.
RecInv == \A c \in rs.recovered : \E j \in DOMAIN log : log[j] = UseEvent(c) /\ Ahead(j)

\* The runner knows of every tool use it has passed that it is new, waited for, answered or
\* denied, and of every result it has seen that it is an answer.
AwaitInv ==
  /\ \A j \in Pass : \A c \in Calls : log[j] = UseEvent(c) =>
       c \in rs.sinceStatus \cup rs.answered \/ EventId(c) \in rs.blocking \/ Denied(c)
  /\ \A j \in seen : \A c \in Calls : log[j] = UseEvent(c) => c \in rs.sessionToolUses
  /\ \A j \in seen : log[j].type = "result" => log[j].call \in rs.answered

\* The steps that read an event.
Reads == ListedEvent \/ StreamEvent \/ ListedInterrupt \/ StreamInterrupt

\* No step of a runner recovers a call, or takes an answer back; only those that read an event
\* pass one or change what the session waits for.
LEMMA KnowingGoesOn ==
  ASSUME CallsInv, ReadInv, ListingInv, HeldInv, Reliable, [Next]_vars
  PROVE  \/ Start \/ GoneStep
         \/ /\ rs'.recovered \subseteq rs.recovered /\ rs.answered \subseteq rs'.answered
            /\ Reads \/ (SameAwaits(rs, rs') /\ seen' = seen /\ Pass' \subseteq Pass)
<1>t. /\ TypeOK /\ lp \in Listings /\ lp.next \in Nat /\ lp.end \in Nat /\ mode' = mode /\ mode \in Modes
  BY LogOnlyGrows DEF CallsInv, TypeOK, Listings
<1>m. mode \in {"stream", "list"}
  BY <1>t, ModesAssumption
<1> DEFINE Grows == rs'.recovered \subseteq rs.recovered /\ rs.answered \subseteq rs'.answered
           Stays == SameAwaits(rs, rs') /\ seen' = seen /\ Pass' \subseteq Pass
<1>1. Fewer(rs, rs') => Grows
  BY DEF Fewer
<1>2. CASE QuietStep
  <2>1. SameCalls(rs, rs') /\ SameAwaits(rs, rs') /\ (pc = "event" => pc' = "event")
    BY <1>2, QuietHolds
  <2>2. /\ seen' = seen
        /\ pc' = "event" => \/ lp'.next = 1
                            \/ pc = "event" /\ lp' = lp
                            \/ pc = "event" /\ mode = "list"
    BY <1>2, QuietReading
  <2>3. Pass' \subseteq Pass
    <3>1. CASE mode = "stream" /\ pc' = "event"
      <4>1. Pass' = 1..(lp'.next - 1)
        BY <1>t, <3>1 DEF Pass
      <4>2. CASE lp'.next = 1
        <5>1. Pass' = {}
          BY <4>1, <4>2
        <5> QED
          BY <5>1
      <4>3. CASE pc = "event" /\ lp' = lp
        <5>1. Pass = 1..(lp.next - 1)
          BY <3>1, <4>3 DEF Pass
        <5> QED
          BY <4>1, <4>3, <5>1
      <4> QED
        BY <2>2, <3>1, <4>2, <4>3
    <3>2. CASE mode # "stream" \/ pc' # "event"
      BY <1>t, <2>1, <2>2, <3>2 DEF Pass
    <3> QED
      BY <3>1, <3>2
  <2> QED
    BY <1>1, <2>1, <2>2, <2>3, FewerGoesOn
<1>3. CASE ListEnds
  <2>1. Fewer(rs, rs') /\ SameAwaits(rs, rs')
    BY <1>3, ListEndsHolds
  <2>2. seen' = seen /\ pc = "event" /\ pc' = "pending" /\ lp.next > lp.end
    BY <1>3 DEF ListEnds
  <2>3. Pass' \subseteq Pass
    <3>1. ASSUME NEW i \in seen PROVE i \in 1..(lp.next - 1)
      <4>1. i \in Nat /\ i >= 1 /\ i <= lp.end
        BY <2>2, <3>1 DEF ReadInv, ListingInv, CallsInv, TypeOK
      <4> QED
        BY <1>t, <2>2, <4>1
    <3> QED
      BY <1>t, <2>2, <3>1 DEF Pass
  <2> QED
    BY <1>1, <2>1, <2>2, <2>3
<1>4. ASSUME \/ FinishAnswered \/ FinishUnanswered \/ SendEnds
             \/ \E c \in Calls : AwaitConfirmation(c) \/ ResolveWithoutPost(c) \/ BeginFresh(c) \/ BeginRecorded(c)
      PROVE  Grows /\ Stays
  <2>1. seen' = seen /\ pc' # "event"
    BY <1>4, LoudStepMoves
  <2>2. pc # "event"
    <3>1. \A c \in Calls : AwaitConfirmation(c) \/ ResolveWithoutPost(c) \/ BeginFresh(c) \/ BeginRecorded(c)
                              => Handles(c)
      BY DEF AwaitConfirmation, ResolveWithoutPost, BeginFresh, BeginRecorded, Allowed
    <3>2. \A c \in Calls : Handles(c) => pc # "event"
      BY DEF Handles
    <3> QED
      BY <1>4, <3>1, <3>2 DEF FinishAnswered, FinishUnanswered, SendEnds
  <2>3. Pass' \subseteq Pass
    BY <2>1, <2>2 DEF Pass
  <2>4. Grows /\ SameAwaits(rs, rs')
    <3>1. CASE FinishAnswered \/ \E c \in Calls : AwaitConfirmation(c) \/ ResolveWithoutPost(c)
      BY <1>1, <3>1, SettleHolds
    <3>2. CASE FinishUnanswered \/ \E c \in Calls : BeginRecorded(c) /\ ledger[c] # "sent"
      BY <3>2, SaveStep DEF Saves, Holds
    <3>3. CASE \E c \in Calls : BeginRecorded(c) /\ ledger[c] = "sent"
      BY <1>1, <3>3, SentBefore
    <3>4. CASE \E c \in Calls : BeginFresh(c)
      BY <3>4, BeginFreshHolds
    <3>5. CASE SendEnds
      BY <1>1, <3>5, SendEndsHolds DEF Holds
    <3> QED
      BY <1>4, <3>1, <3>2, <3>3, <3>4, <3>5
  <2> QED
    BY <2>1, <2>3, <2>4
<1>5. CASE ListedEvent \/ StreamEvent
  <2>1. \E e : (ListedEvent /\ e = Current) \/ (StreamEvent /\ e = Arrived)
    BY <1>5
  <2> QED
    BY <1>1, <1>5, <2>1, LearnHolds DEF Reads
<1>6. CASE ListedInterrupt \/ StreamInterrupt
  <2>1. PICK e, eligible : \/ ListedInterrupt /\ e = Current /\ eligible = Eligible
                           \/ StreamInterrupt /\ e = Arrived /\ eligible = Calls
    BY <1>6
  <2>2. eligible \in SUBSET Calls
    BY <2>1 DEF Eligible, CallsInv, TypeOK, Listings
  <2>3. Fewer(rs, rs')
    BY <2>1, <2>2, InterruptHolds
  <2> QED
    BY <1>1, <1>6, <2>3 DEF Reads
<1> QED
  BY <1>2, <1>3, <1>4, <1>5, <1>6, StepKinds DEF LoudStep

\* Every step keeps RecInv.
LEMMA NextRecInv ==
  ASSUME CallsInv, ReadInv, ListingInv, HeldInv, GrantInv, RecInv, Reliable, [Next]_vars
  PROVE  RecInv'
<1>1. \A i \in DOMAIN log : i \in DOMAIN log' /\ log'[i] = log[i] /\ (Ahead(i) => Ahead(i)')
  BY LogOnlyGrows, AheadStays
<1>2. CASE Start \/ GoneStep
  <2>1. /\ \A c \in rs'.recovered : ledger[c] # "absent"
        /\ pc' \in {"open", "list", "down"} /\ Place' \notin Caught
    BY <1>2, FreshHolds
  <2>4. rs'.recovered \subseteq Calls
    <3>1. rs' \in RunnerStates
      BY NextCallsInv DEF CallsInv, TypeOK
    <3> QED
      BY <3>1 DEF RunnerStates
  <2>2. \A j : Ahead(j)'
    BY <2>1 DEF Ahead
  <2>3. ASSUME NEW c \in rs'.recovered PROVE \E j \in DOMAIN log : log[j] = UseEvent(c)
    <3>1. c \in Used
      BY <2>1, <2>3, <2>4 DEF GrantInv
    <3>2. PICK j \in DOMAIN log : log[j].type = "use" /\ log[j].call = c
      BY <3>1 DEF Used
    <3>3. log[j] \in Events
      BY <3>2 DEF CallsInv, TypeOK
    <3> QED
      BY <3>2, <3>3, EventFields
  <2> QED
    BY <1>1, <2>2, <2>3 DEF RecInv
<1>3. CASE rs'.recovered \subseteq rs.recovered
  BY <1>1, <1>3 DEF RecInv
<1> QED
  BY <1>2, <1>3, KnowingGoesOn

\* An event is read after all that come before it.
LEMMA ReadingPlaces ==
  ASSUME CallsInv, ReadInv, NEW e,
         \/ (ListedEvent \/ ListedInterrupt) /\ e = Current
         \/ (StreamEvent \/ StreamInterrupt) /\ e = Arrived
  PROVE  \E j \in DOMAIN log : /\ e = log[j] /\ 1..(j - 1) \subseteq Pass /\ 1..(j - 1) \subseteq seen
                               /\ Pass' \subseteq 1..j /\ seen' = seen \cup {j}
                               /\ StreamEvent \/ StreamInterrupt => \A k \in seen : k \in 1..j
<1>t. /\ TypeOK /\ lp \in Listings /\ lp.next \in Nat /\ stream \in Nat /\ DOMAIN log = 1..Len(log) /\ Len(log) \in Nat
      /\ \A i \in seen : i \in DOMAIN log /\ 1..i \subseteq seen
  BY DEF CallsInv, TypeOK, Listings, ReadInv
<1>s. ASSUME NEW j \in DOMAIN log, j \notin seen, 1..(j - 1) \subseteq seen PROVE seen = 1..(j - 1)
  <2>1. ASSUME NEW i \in seen PROVE i < j
    <3>1. i \in Nat /\ j \in Nat /\ j >= 1 /\ 1..i \subseteq seen
      BY <1>t, <2>1
    <3>2. i >= j => j \in 1..i
      BY <3>1
    <3> QED
      BY <1>s, <3>1, <3>2
  <2>2. \A i \in seen : i \in 1..(j - 1)
    BY <1>t, <2>1
  <2> QED
    BY <1>s, <2>2
<1>1. CASE (ListedEvent \/ ListedInterrupt) /\ e = Current
  <2> DEFINE j == lp.next
             l == Touch(Current, lp.next \notin seen)
  <2>1. /\ AtEvent /\ (mode = "stream" \/ j \notin seen) /\ seen' = seen \cup {j} /\ UNCHANGED <<pc, mode>>
        /\ lp' \in {l, Collect(l, Current.call)} /\ pc = "event"
    BY <1>1 DEF ListedEvent, ListedInterrupt, AtNewEvent, AtEvent, plane
  <2>2. j \in DOMAIN log /\ e = log[j]
    BY <1>1, <2>1, CurrentIsEvent DEF Current
  <2>3. 1..(j - 1) \subseteq seen
    BY <2>1 DEF ReadInv
  <2>4. l \in Listings /\ l.next = j + 1
    BY <1>t, TouchType
  <2>l. lp' \in {l, Collect(l, Current.call)}
    BY <2>1
  <2> HIDE DEF l
  <2>5. lp'.next = j + 1
    BY <2>l, <2>4 DEF Collect, Listings
  <2>6. CASE mode = "stream"
    <3>0. pc = "event" /\ pc' = "event" /\ mode = "stream" /\ mode' = "stream"
      BY <2>1, <2>6
    <3>1. Pass = 1..(j - 1) /\ Pass' = 1..(lp'.next - 1)
      BY <3>0 DEF Pass
    <3>2. lp'.next - 1 = j
      BY <1>t, <2>5
    <3> QED
      BY <1>1, <2>1, <2>2, <2>3, <3>1, <3>2 DEF StreamEvent, StreamInterrupt, AtStream
  <2>7. CASE mode # "stream"
    <3>1. seen = 1..(j - 1) /\ Pass = seen /\ Pass' = seen'
      BY <1>s, <2>1, <2>2, <2>3, <2>7 DEF Pass
    <3>2. seen' \subseteq 1..j
      BY <1>t, <2>1, <2>2, <3>1
    <3> QED
      BY <1>1, <2>1, <2>2, <3>1, <3>2 DEF StreamEvent, StreamInterrupt, AtStream
  <2> QED
    BY <2>6, <2>7
<1>2. CASE (StreamEvent \/ StreamInterrupt) /\ e = Arrived
  <2> DEFINE j == stream
  <2>1. /\ AtStream /\ j \notin seen /\ seen' = seen \cup {j} /\ pc' \in {"top", "handle"}
    BY <1>2 DEF StreamEvent, StreamInterrupt, Consume
  <2>2. j \in DOMAIN log /\ e = log[j] /\ pc = "select" /\ mode = "stream"
    BY <1>2, <2>1, ArrivedIsEvent DEF Arrived
  <2>3. 1..(j - 1) \subseteq seen
    BY <2>2 DEF ReadInv, Place, Sends
  <2>4. seen = 1..(j - 1) /\ Pass = seen /\ Pass' = seen'
    BY <1>s, <2>1, <2>2, <2>3 DEF Pass
  <2>5. seen' \subseteq 1..j /\ \A k \in seen : k \in 1..j
    BY <1>t, <2>1, <2>2, <2>4
  <2> QED
    BY <2>1, <2>2, <2>4, <2>5
<1> QED
  BY <1>1, <1>2

\* A tool use that has been passed once event j is read is new, waited for, answered or denied.
LEMMA ReadAwaits ==
  ASSUME CallsInv, ReadInv, InterruptInv, HistoryInv, AwaitInv, NEW j \in DOMAIN log,
         1..(j - 1) \subseteq Pass, 1..(j - 1) \subseteq seen
  PROVE  LET s == ObserveSessionState(rs, log[j])
         IN /\ \A k \in 1..j : \A c \in Calls : log[k] = UseEvent(c) =>
                 c \in s.sinceStatus \cup rs.answered \/ EventId(c) \in s.blocking \/ Denied(c)
            /\ \A c \in rs.sessionToolUses : c \in s.sessionToolUses
            /\ \A c \in Calls : log[j] = UseEvent(c) => c \in s.sessionToolUses
<1> DEFINE e == log[j]
           s == ObserveSessionState(rs, e)
           used == IF e.type = "use" THEN {e.call} ELSE {}
<1>t. rs \in RunnerStates /\ log \in Seq(Events) /\ j \in 1..Len(log) /\ Len(log) \in Nat
  BY DEF CallsInv, TypeOK
<1>1. e \in Events
  BY <1>t
<1>2. /\ s.sessionToolUses = rs.sessionToolUses \cup used
      /\ e.type \notin {"requires_action", "end_turn", "running"} =>
            s.sinceStatus = rs.sinceStatus \cup used /\ s.blocking = rs.blocking
      /\ e.type = "requires_action" => e.refs \subseteq s.blocking
  BY <1>t, <1>1, EventFields, ObserveAwaits
<1>u. \A c \in Calls : e = UseEvent(c) => used = {c} /\ e.type = "use"
  BY DEF UseEvent
<1>e. e = log[j] /\ s = ObserveSessionState(rs, log[j])
  OBVIOUS
<1> HIDE DEF s, used, e
<1>3. ASSUME NEW k \in 1..j, NEW c \in Calls, log[k] = UseEvent(c)
      PROVE  c \in s.sinceStatus \cup rs.answered \/ EventId(c) \in s.blocking \/ Denied(c)
  <2>1. CASE k = j
    BY <1>2, <1>3, <1>e, <1>u, <2>1
  <2>2. CASE k # j
    <3>1. k \in 1..(j - 1)
      BY <1>t, <2>2
    <3>2. c \in rs.sinceStatus \cup rs.answered \/ EventId(c) \in rs.blocking \/ Denied(c)
      BY <1>3, <3>1 DEF AwaitInv
    <3>3. CASE e.type \notin {"requires_action", "end_turn", "running"}
      BY <1>2, <3>2, <3>3
    <3>4. CASE e.type \in {"requires_action", "end_turn", "running"}
      <4>1. ResolvedBefore(j, c) \/ (e.type = "requires_action" /\ EventId(c) \in e.refs)
        BY <1>3, <1>e, <3>1, <3>4 DEF HistoryInv
      <4>2. ASSUME NEW m \in 1..(j - 1), log[m].type = "result", log[m].call = c PROVE c \in rs.answered
        BY <4>2 DEF AwaitInv
      <4>3. InterruptedIn(1..(j - 1), c) => c \in rs.answered
        <5>1. InterruptedIn(1..(j - 1), c) => InterruptedIn(seen, c)
          BY DEF InterruptedIn
        <5> QED
          BY <5>1 DEF InterruptInv
      <4> QED
        BY <1>2, <4>1, <4>2, <4>3 DEF ResolvedBefore
    <3> QED
      BY <3>3, <3>4
  <2> QED
    BY <2>1, <2>2
<1> QED
  BY <1>2, <1>3, <1>e, <1>u

\* Every step keeps AwaitInv.
LEMMA NextAwaitInv ==
  ASSUME CallsInv, ReadInv, InterruptInv, ListingInv, HeldInv, HistoryInv, AwaitInv, Reliable, [Next]_vars
  PROVE  AwaitInv'
<1>1. \A i \in DOMAIN log : i \in DOMAIN log' /\ log'[i] = log[i]
  BY LogOnlyGrows
<1>2. \A c \in Calls : Denied(c) => Denied(c)'
  BY <1>1 DEF Denied
<1>3. CASE Start \/ GoneStep
  <2>1. seen' = {} /\ pc' # "event"
    BY <1>3, FreshHolds
  <2> QED
    BY <2>1 DEF AwaitInv, Pass
<1>4. CASE Reads /\ rs.answered \subseteq rs'.answered
  <2>1. PICK e : \/ (ListedEvent \/ ListedInterrupt) /\ e = Current
                 \/ (StreamEvent \/ StreamInterrupt) /\ e = Arrived
    BY <1>4 DEF Reads
  <2>2. PICK j \in DOMAIN log : /\ e = log[j] /\ 1..(j - 1) \subseteq Pass /\ 1..(j - 1) \subseteq seen
                                /\ Pass' \subseteq 1..j /\ seen' = seen \cup {j}
    BY <2>1, ReadingPlaces
  <2> DEFINE s == ObserveSessionState(rs, log[j])
  <2>3. /\ \A k \in 1..j : \A c \in Calls : log[k] = UseEvent(c) =>
                 c \in s.sinceStatus \cup rs.answered \/ EventId(c) \in s.blocking \/ Denied(c)
        /\ \A c \in rs.sessionToolUses : c \in s.sessionToolUses
        /\ \A c \in Calls : log[j] = UseEvent(c) => c \in s.sessionToolUses
    BY <2>2, ReadAwaits
  <2>4. SameAwaits(s, rs')
    <3>1. CASE ListedEvent \/ StreamEvent
      <4>1. (ListedEvent /\ e = Current) \/ (StreamEvent /\ e = Arrived)
        BY <2>1, <3>1 DEF ListedEvent, StreamEvent, ListedInterrupt, StreamInterrupt, AtNewEvent, AtEvent, AtStream
      <4> QED
        BY <2>2, <4>1, LearnHolds
    <3>2. CASE ListedInterrupt \/ StreamInterrupt
      <4>1. \/ ListedInterrupt /\ e = Current
            \/ StreamInterrupt /\ e = Arrived
        BY <2>1, <3>2 DEF ListedEvent, StreamEvent, ListedInterrupt, StreamInterrupt, AtNewEvent, AtEvent, AtStream
      <4>2. Eligible \in SUBSET Calls
        BY DEF Eligible, CallsInv, TypeOK, Listings
      <4> QED
        BY <2>2, <4>1, <4>2, InterruptHolds
    <3> QED
      BY <1>4, <3>1, <3>2 DEF Reads
  <2>5. log[j].type = "result" => log[j].call \in rs'.answered
    <3>1. CASE ListedEvent \/ StreamEvent
      <4>1. (ListedEvent /\ e = Current) \/ (StreamEvent /\ e = Arrived)
        BY <2>1, <3>1 DEF ListedEvent, StreamEvent, ListedInterrupt, StreamInterrupt, AtNewEvent, AtEvent, AtStream
      <4>2. rs'.answered = rs.answered \cup (IF e.type = "result" THEN {e.call} ELSE {})
        BY <4>1, LearnStepEffect
      <4> QED
        BY <2>2, <4>2
    <3>2. CASE ListedInterrupt \/ StreamInterrupt
      <4>1. e.type = "interrupt"
        BY <2>1, <3>2 DEF ListedEvent, StreamEvent, ListedInterrupt, StreamInterrupt, AtNewEvent, AtEvent, AtStream
      <4> QED
        BY <2>2, <4>1
    <3> QED
      BY <1>4, <3>1, <3>2 DEF Reads
  <2> HIDE DEF s
  <2>6. log' = log
    <3>1. LoudStep
      BY <1>4 DEF Reads, LoudStep
    <3> QED
      BY <3>1, LoudStepPlane DEF plane
  <2>7. ASSUME NEW k \in Pass', NEW c \in Calls, log'[k] = UseEvent(c)
        PROVE  c \in rs'.sinceStatus \cup rs'.answered \/ EventId(c) \in rs'.blocking \/ Denied(c)'
    BY <1>2, <1>4, <2>2, <2>3, <2>4, <2>6, <2>7 DEF SameAwaits
  <2>8. ASSUME NEW k \in seen', NEW c \in Calls, log'[k] = UseEvent(c) PROVE c \in rs'.sessionToolUses
    BY <2>2, <2>3, <2>4, <2>6, <2>8 DEF SameAwaits, AwaitInv
  <2>9. ASSUME NEW k \in seen', log'[k].type = "result" PROVE log'[k].call \in rs'.answered
    BY <1>4, <2>2, <2>5, <2>6, <2>9 DEF AwaitInv
  <2> QED
    BY <2>7, <2>8, <2>9 DEF AwaitInv
<1>5. CASE SameAwaits(rs, rs') /\ seen' = seen /\ Pass' \subseteq Pass /\ rs.answered \subseteq rs'.answered
  <2>1. Pass \subseteq DOMAIN log /\ seen \subseteq DOMAIN log
    BY DEF ReadInv, Pass
  <2>2. ASSUME NEW k \in Pass', NEW c \in Calls, log'[k] = UseEvent(c)
        PROVE  c \in rs'.sinceStatus \cup rs'.answered \/ EventId(c) \in rs'.blocking \/ Denied(c)'
    <3>1. k \in Pass /\ log[k] = UseEvent(c)
      BY <1>1, <1>5, <2>1, <2>2
    <3>2. c \in rs.sinceStatus \cup rs.answered \/ EventId(c) \in rs.blocking \/ Denied(c)
      BY <3>1 DEF AwaitInv
    <3> QED
      BY <1>2, <1>5, <3>2 DEF SameAwaits
  <2>3. ASSUME NEW k \in seen', NEW c \in Calls, log'[k] = UseEvent(c) PROVE c \in rs'.sessionToolUses
    BY <1>1, <1>5, <2>1, <2>3 DEF SameAwaits, AwaitInv
  <2>4. ASSUME NEW k \in seen', log'[k].type = "result" PROVE log'[k].call \in rs'.answered
    BY <1>1, <1>5, <2>1, <2>4 DEF AwaitInv
  <2> QED
    BY <2>2, <2>3, <2>4 DEF AwaitInv
<1> QED
  BY <1>3, <1>4, <1>5, KnowingGoesOn

\* No recovered result is stale: its call is open, so that the session waits for it.
LEMMA NothingStale ==
  ASSUME CallsInv, ReadInv, InterruptInv, ListingInv, HeldInv, HistoryInv, ConfirmInv, GrantInv, RecInv, AwaitInv
  PROVE  /\ StreamEvent \/ StreamInterrupt => StaleRecovered(ObserveSessionState(rs, Arrived)) = {}
         /\ ListEnds => StaleRecovered(ReconcileUnmatchedRequiresAction(rs)) = {}
<1>t. rs \in RunnerStates /\ Orderly(rs) /\ rs.recovered \subseteq Calls /\ log \in Seq(Events)
  BY DEF CallsInv, TypeOK, RunnerStates
<1>1. ASSUME NEW c \in rs.recovered PROVE c \in Calls /\ c \notin rs.answered /\ ~Denied(c)
  <2>1. rs.pendingResults[c] # NoResult /\ c \in Calls /\ c \notin rs.answered
    BY <1>t, <1>1 DEF Orderly
  <2>2. rs.pendingResults[c] \in Results
    BY <1>t, <2>1 DEF RunnerStates
  <2>3. ledger[c] # "absent"
    BY <2>1, <2>2 DEF HeldInv, Results, UnknownResult
  <2>4. ~Denied(c)
    BY <2>1, <2>3, ConsentedNotDenied DEF GrantInv
  <2> QED
    BY <2>1, <2>4
<1>2. ASSUME NEW c \in rs.recovered, NEW k \in seen, log[k] = UseEvent(c)
      PROVE  c \in rs.toolUses /\ c \in rs.sessionToolUses
  BY <1>1, <1>2 DEF InterruptInv, SeenUse, AwaitInv
<1>3. ASSUME StreamEvent \/ StreamInterrupt PROVE StaleRecovered(ObserveSessionState(rs, Arrived)) = {}
  <2>1. PICK j \in DOMAIN log : /\ Arrived = log[j] /\ 1..(j - 1) \subseteq Pass /\ 1..(j - 1) \subseteq seen
                                /\ \A k \in seen : k \in 1..j
    BY <1>3, ReadingPlaces
  <2> DEFINE s == ObserveSessionState(rs, Arrived)
  <2>2. pc = "select" /\ Arrived \in Events
    BY <1>3, ArrivedIsEvent DEF StreamEvent, StreamInterrupt
  <2>3. /\ s \in RunnerStates /\ s.recovered = rs.recovered /\ rs.toolUses \subseteq s.toolUses
    BY <1>t, <2>2, ObservedEffect DEF Frame, SameCalls
  <2>4. /\ \A k \in 1..j : \A c \in Calls : log[k] = UseEvent(c) =>
                 c \in s.sinceStatus \cup rs.answered \/ EventId(c) \in s.blocking \/ Denied(c)
        /\ \A c \in rs.sessionToolUses : c \in s.sessionToolUses
    BY <2>1, ReadAwaits
  <2> HIDE DEF s
  <2>5. ASSUME NEW c \in s.recovered PROVE c \notin StaleRecovered(s)
    <3>1. PICK k \in DOMAIN log : log[k] = UseEvent(c) /\ Ahead(k)
      BY <2>3, <2>5 DEF RecInv
    <3>2. k \in seen
      BY <2>2, <3>1 DEF Ahead, Place, Sends, Caught
    <3>3. c \in s.sinceStatus \/ EventId(c) \in s.blocking
      BY <1>1, <2>1, <2>3, <2>4, <2>5, <3>1, <3>2
    <3>4. c \in s.toolUses /\ c \in s.sessionToolUses
      BY <1>2, <2>3, <2>4, <2>5, <3>1, <3>2
    <3> QED
      BY <2>3, <2>5, <3>3, <3>4, AwaitedNotStale
  <2>6. StaleRecovered(s) \subseteq s.recovered
    BY DEF StaleRecovered
  <2>7. StaleRecovered(s) = {}
    BY <2>5, <2>6
  <2> QED
    BY <2>7 DEF s
<1>4. ASSUME ListEnds PROVE StaleRecovered(ReconcileUnmatchedRequiresAction(rs)) = {}
  <2> DEFINE s == ReconcileUnmatchedRequiresAction(rs)
  <2>1. /\ s \in RunnerStates /\ s.recovered = rs.recovered /\ s.toolUses = rs.toolUses /\ SameAwaits(rs, s)
    BY <1>t, ReconcileUnmatchedEffect, KnownAwaits DEF SameCalls
  <2>2. pc = "event" /\ lp.next > lp.end /\ lp.next \in Nat /\ lp.end \in Nat
    BY <1>4 DEF ListEnds, CallsInv, TypeOK, Listings
  <2> HIDE DEF s
  <2>3. ASSUME NEW c \in s.recovered PROVE c \notin StaleRecovered(s)
    <3>1. PICK k \in DOMAIN log : log[k] = UseEvent(c) /\ Ahead(k)
      BY <2>1, <2>3 DEF RecInv
    <3>2. k \in 1..(lp.next - 1)
      BY <1>t, <2>2, <3>1 DEF Ahead
    <3>3. k \in seen /\ k \in Pass
      BY <2>2, <3>2 DEF ReadInv, Pass
    <3>4. c \in s.sinceStatus \/ EventId(c) \in s.blocking
      BY <1>1, <2>1, <2>3, <3>1, <3>3 DEF AwaitInv, SameAwaits
    <3>5. c \in s.toolUses /\ c \in s.sessionToolUses
      BY <1>2, <2>1, <2>3, <3>1, <3>3 DEF SameAwaits
    <3> QED
      BY <2>1, <2>3, <3>4, <3>5, AwaitedNotStale
  <2>4. StaleRecovered(s) \subseteq s.recovered
    BY DEF StaleRecovered
  <2>5. StaleRecovered(s) = {}
    BY <2>3, <2>4
  <2> QED
    BY <2>5 DEF s
<1> QED
  BY <1>3, <1>4

\* So reading an event, and the end of a listing, leave the records alone; an interrupt takes
\* those of the calls it answers.
LEMMA ReadingLedger ==
  ASSUME CallsInv, ReadInv, InterruptInv, ListingInv, HeldInv, HistoryInv, ConfirmInv, GrantInv, RecInv, AwaitInv,
         Reliable
  PROVE  /\ ListedEvent \/ StreamEvent \/ ListEnds => \A c \in Calls : ledger'[c] = ledger[c]
         /\ ListedInterrupt \/ StreamInterrupt => \A c \in Calls : ledger'[c] # ledger[c] =>
               \E e, eligible : /\ \/ ListedInterrupt /\ e = Current /\ eligible = Eligible
                                   \/ StreamInterrupt /\ e = Arrived /\ eligible = Calls
                                /\ eligible \in SUBSET Calls
                                /\ c \in Interrupted(rs, e.thread, eligible) /\ c \in rs'.answered
                                /\ ledger'[c] = "absent"
<1>t. TypeOK
  BY DEF CallsInv
<1>1. ASSUME Discard({}) PROVE \A c \in Calls : ledger'[c] = ledger[c]
  BY <1>t, <1>1, ReliableStore
<1>2. CASE ListedEvent \/ StreamEvent
  <2>1. PICK e : (ListedEvent /\ e = Current) \/ (StreamEvent /\ e = Arrived)
    BY <1>2
  <2>2. ledger' = ledger \/ (StreamEvent /\ Discard(StaleRecovered(ObserveSessionState(rs, e))))
    BY <2>1, LearnHolds
  <2>3. StreamEvent => e = Arrived
    BY <2>1 DEF ListedEvent, AtNewEvent, AtEvent, StreamEvent, AtStream
  <2>4. \A c \in Calls : ledger'[c] = ledger[c]
    BY <1>1, <2>2, <2>3, NothingStale
  <2> QED
    BY <1>2, <2>4 DEF ListedEvent, StreamEvent, ListedInterrupt, StreamInterrupt, AtNewEvent, AtEvent, AtStream
<1>3. CASE ListEnds
  <2>1. \A c \in Calls : ledger'[c] = ledger[c]
    BY <1>1, <1>3, ListEndsHolds, NothingStale
  <2> QED
    BY <1>3, <2>1
<1>4. CASE ListedInterrupt \/ StreamInterrupt
  <2>1. PICK e, eligible : \/ ListedInterrupt /\ e = Current /\ eligible = Eligible
                           \/ StreamInterrupt /\ e = Arrived /\ eligible = Calls
    BY <1>4
  <2>2. eligible \in SUBSET Calls
    BY <2>1 DEF Eligible, CallsInv, TypeOK, Listings
  <2> DEFINE hit == Interrupted(rs, e.thread, eligible)
  <2>3. \/ Discard(hit)
        \/ StreamInterrupt /\ Discard(hit \cup StaleRecovered(ObserveSessionState(rs, e)))
    BY <2>1, <2>2, InterruptHolds
  <2>4. StreamInterrupt => e = Arrived
    BY <2>1 DEF ListedInterrupt, AtNewEvent, AtEvent, StreamInterrupt, AtStream
  <2>5. rs'.answered = rs.answered \cup hit
    BY <2>1, <2>2, InterruptStepEffect
  <2> HIDE DEF hit
  <2>6. Discard(hit)
    <3>1. CASE StreamInterrupt /\ Discard(hit \cup StaleRecovered(ObserveSessionState(rs, e)))
      <4>1. StaleRecovered(ObserveSessionState(rs, e)) = {}
        BY <2>4, <3>1, NothingStale
      <4>2. hit \cup StaleRecovered(ObserveSessionState(rs, e)) = hit
        BY <4>1
      <4> QED
        BY <3>1, <4>2
    <3> QED
      BY <2>3, <3>1
  <2>7. \A c \in Calls : ledger'[c] # ledger[c] => c \in hit /\ ledger'[c] = "absent"
    BY <1>t, <2>6, ReliableStore
  <2>8. ~ListedEvent /\ ~StreamEvent /\ ~ListEnds
    BY <1>4 DEF ListedEvent, StreamEvent, ListedInterrupt, StreamInterrupt, AtNewEvent, AtEvent, AtStream, ListEnds
  <2> QED
    BY <2>1, <2>2, <2>5, <2>7, <2>8 DEF hit
<1> QED
  BY <1>2, <1>3, <1>4

-----------------------------------------------------------------------------
(* The results of a call                                                   *)

\* The result r of c is in the log, or may still get there.
Gave(c, r) == (\E i \in DOMAIN log : log[i] = ResultEvent(c, r)) \/ <<c, r>> \in net

\* An interrupt withdrew the use of c, and the loop comes by it before it handles c again.
Withdrawn(c) ==
  \E i, j \in DOMAIN log : i < j /\ log[i] = UseEvent(c) /\ log[j].type = "interrupt"
                           /\ Matches(c, log[j].thread) /\ Ahead(j)

\* The results of a call are equal; the record of the call has that result, or says that it was
\* sent; what has no record, and was not withdrawn, has no result and was never executed.
GivenInv ==
  \A c \in Owned :
    /\ \A r, q \in Results : Gave(c, r) /\ Gave(c, q) => r = q
    /\ \A r \in Results : Gave(c, r) /\ ledger[c] # "absent" => ledger[c] \in {r, "sent"}
    /\ ledger[c] = "absent" => Withdrawn(c) \/ (c \notin ever /\ \A r \in Results : ~Gave(c, r))

\* What an interrupt withdrew stays withdrawn.
LEMMA WithdrawnStays ==
  ASSUME CallsInv, ReadInv, ListingInv, Reliable, [Next]_vars, NEW c, Withdrawn(c)
  PROVE  Withdrawn(c)'
<1>1. \A i \in DOMAIN log : i \in DOMAIN log' /\ log'[i] = log[i] /\ (Ahead(i) => Ahead(i)')
  BY LogOnlyGrows, AheadStays
<1> QED
  BY <1>1 DEF Withdrawn

\* A call that an interrupt withdrew is not begun.
LEMMA BegunIsNew ==
  ASSUME CallsInv, ReadInv, InterruptInv, GivenInv, Reliable, NEW c \in Calls, BeginFresh(c)
  PROVE  c \in Owned /\ c \notin ever /\ \A r \in Results : ~Gave(c, r)
<1>1. pc \in {"pending", "handle"} /\ Untouched(c) /\ c \in Owned /\ ledger[c] = "absent"
  BY BeginFreshHolds
<1>2. ~Withdrawn(c)
  <2> SUFFICES ASSUME Withdrawn(c) PROVE FALSE
    OBVIOUS
  <2>1. PICK i, j \in DOMAIN log : i < j /\ log[i] = UseEvent(c) /\ log[j].type = "interrupt"
                                   /\ Matches(c, log[j].thread) /\ Ahead(j)
    BY DEF Withdrawn
  <2>2. j \in seen
    BY <1>1, <2>1 DEF Ahead, Place, Sends, Caught
  <2>3. i \in seen
    <3>1. log \in Seq(Events)
      BY DEF CallsInv, TypeOK
    <3>2. i \in 1..j
      BY <2>1, <3>1
    <3> QED
      BY <2>2, <3>2 DEF ReadInv
  <2>4. c \in rs.answered
    BY <2>1, <2>2, <2>3 DEF InterruptedIn, InterruptInv
  <2> QED
    BY <1>1, <2>4 DEF Untouched
<1> QED
  BY <1>1, <1>2 DEF GivenInv

\* Every step keeps HeldInv.
LEMMA NextHeldInv ==
  ASSUME CallsInv, ReadInv, InterruptInv, ListingInv, HeldInv, HistoryInv, ConfirmInv, GrantInv, RecInv, AwaitInv,
         GivenInv, Reliable, [Next]_vars
  PROVE  HeldInv'
<1>0. CallsInv' /\ CallsInv
  BY NextCallsInv
<1>e. \A c \in ever' \ ever : c = rs'.active
  BY EverStep
<1> DEFINE Sent == pc' \in Sends =>
              \/ pc \in Sends /\ send'.call = send.call /\ send'.result = send.result
              \/ /\ send'.call \in Calls /\ rs.pendingResults[send'.call] # NoResult
                 /\ send'.result = rs.pendingResults[send'.call]
           Kept == \A c \in Calls : ledger'[c] # ledger[c] => c \in rs'.answered
<1>f. Fewer(rs, rs') /\ Kept /\ Sent => HeldInv'
  BY <1>0, <1>e, FewerHeldInv
<1>1. CASE Start \/ GoneStep
  BY <1>1, FreshHolds
<1>2. CASE QuietStep
  <2>1. Fewer(rs, rs') /\ Sent
    BY <1>2, QuietHolds, FewerGoesOn
  <2>2. Kept
    BY <1>2, QuietStepEffect
  <2> QED
    BY <1>f, <2>1, <2>2
<1>3. CASE ListEnds
  BY <1>3, <1>f, ListEndsHolds, ReadingLedger
<1>4. CASE ListedEvent \/ StreamEvent
  <2>1. \E e : (ListedEvent /\ e = Current) \/ (StreamEvent /\ e = Arrived)
    BY <1>4
  <2> QED
    BY <1>4, <1>f, <2>1, LearnHolds, ReadingLedger
<1>5. CASE ListedInterrupt \/ StreamInterrupt
  <2>1. PICK e, eligible : \/ ListedInterrupt /\ e = Current /\ eligible = Eligible
                           \/ StreamInterrupt /\ e = Arrived /\ eligible = Calls
    BY <1>5
  <2>2. eligible \in SUBSET Calls
    BY <2>1 DEF Eligible, CallsInv, TypeOK, Listings
  <2>3. Fewer(rs, rs') /\ pc' \notin Sends
    BY <2>1, <2>2, InterruptHolds
  <2>4. Kept
    BY <1>5, ReadingLedger
  <2> QED
    BY <1>f, <2>3, <2>4
<1>6. CASE FinishAnswered \/ \E c \in Calls : AwaitConfirmation(c) \/ ResolveWithoutPost(c)
  BY <1>6, <1>f, SettleHolds
<1>7. CASE \E c \in Calls : BeginRecorded(c) /\ ledger[c] = "sent"
  BY <1>7, <1>f, SentBefore
<1>8. CASE FinishUnanswered \/ \E c \in Calls : BeginRecorded(c) /\ ledger[c] # "sent"
  <2>1. PICK c \in Calls, r \in Results : Saves(c, r)
    BY <1>8, SaveStep
  <2>2. ledger'[c] = r /\ \A d \in Calls \ {c} : ledger'[d] = ledger[d]
    BY <2>1 DEF Saves, CallsInv, TypeOK
  <2> QED
    BY <1>0, <1>e, <2>1, <2>2, MoreHeldInv DEF Saves
<1>9. CASE SendEnds
  <2>1. /\ pc = "sent" /\ pc' \notin Sends
        /\ \/ Fewer(rs, rs') /\ Kept
           \/ Holds(rs, rs', send.call, send.result) /\ ledger' = ledger
    BY <1>9, SendEndsHolds
  <2>2. CASE Fewer(rs, rs') /\ Kept
    BY <1>f, <2>1, <2>2
  <2>3. CASE Holds(rs, rs', send.call, send.result) /\ ledger' = ledger
    <3>1. send.call \in Calls \ rs.scheduled /\ send.result \in Results
      BY <2>1 DEF CallsInv, SendInv, Sends
    <3>2. ledger'[send.call] = send.result /\ send.call \notin rs'.scheduled
      BY <2>1, <2>3, <3>1 DEF HeldInv, Holds, Sends
    <3> QED
      BY <1>0, <1>e, <2>1, <2>3, <3>1, <3>2, MoreHeldInv
  <2> QED
    BY <2>1, <2>2, <2>3
<1>10. ASSUME NEW c \in Calls, BeginFresh(c) PROVE HeldInv'
  <2>1. /\ pc' \notin Sends /\ Untouched(c)
        /\ rs'.answered = rs.answered /\ rs'.pendingResults = rs.pendingResults
        /\ rs'.scheduled \subseteq rs.scheduled \cup {c} /\ Range(rs'.queue) \subseteq Range(rs.queue) \cup {c}
        /\ ledger'[c] = "started" /\ \A d \in Calls \ {c} : ledger'[d] = ledger[d]
    BY <1>10, BeginFreshHolds
  <2>2. c \notin ever
    BY <1>10, BegunIsNew
  <2>3. ASSUME NEW d \in Calls, rs'.pendingResults[d] # NoResult PROVE ledger'[d] = rs'.pendingResults[d]
    BY <2>1, <2>3 DEF HeldInv, Untouched
  <2>4. ASSUME NEW d \in rs'.scheduled \ rs'.answered PROVE ledger'[d] = "started"
    <3>1. rs.scheduled \subseteq Calls
      BY DEF CallsInv, TypeOK, RunnerStates
    <3> QED
      BY <2>1, <2>4, <3>1 DEF HeldInv
  <2>5. ASSUME NEW d \in Range(rs'.queue) PROVE d \notin ever'
    <3>1. rs'.active \notin Range(rs'.queue)
      BY <1>0 DEF CallsInv, Orderly
    <3> QED
      BY <1>e, <2>1, <2>2, <2>5, <3>1 DEF HeldInv
  <2> QED
    BY <2>1, <2>3, <2>4, <2>5 DEF HeldInv
<1> QED
  BY <1>1, <1>2, <1>3, <1>4, <1>5, <1>6, <1>7, <1>8, <1>9, <1>10, StepKinds DEF LoudStep

\* How the record of a call may change.
LEMMA LedgerStep ==
  ASSUME CallsInv, ReadInv, InterruptInv, ListingInv, HeldInv, HistoryInv, ConfirmInv, GrantInv, RecInv, AwaitInv,
         Reliable, [Next]_vars, NEW c \in Calls, ledger'[c] # ledger[c]
  PROVE  \/ ledger'[c] = "absent" /\ Withdrawn(c)'
         \/ ledger'[c] = "started" /\ BeginFresh(c)
         \/ ledger[c] = "started" /\ ledger'[c] \in Results
         \/ ledger[c] # "absent" /\ ledger'[c] = "sent"
<1>t. TypeOK /\ ledger \in [Calls -> Entries] /\ log \in Seq(Events)
  BY DEF CallsInv, TypeOK
<1>1. CASE QuietStep
  BY <1>1, QuietStepEffect
<1>2. CASE GoneStep
  <2>1. \/ ledger[c] = "absent" /\ ledger'[c] = "started"
        \/ ledger[c] # "absent" /\ ledger'[c] = "sent"
    BY <1>2, GoneStepEffect
  <2>2. ledger[c] = "absent" /\ ledger'[c] = "started" => BeginFresh(c)
    BY RecordIsBegun
  <2> QED
    BY <2>1, <2>2
<1>3. CASE Start
  <2>1. ledger' = SettleStarted(ledger)
    BY <1>3 DEF Start
  <2> QED
    BY <2>1 DEF SettleStarted, Results
<1>4. CASE ListEnds \/ ListedEvent \/ StreamEvent
  BY <1>4, ReadingLedger
<1>5. CASE ListedInterrupt \/ StreamInterrupt
  <2>1. PICK e, eligible : /\ \/ ListedInterrupt /\ e = Current /\ eligible = Eligible
                              \/ StreamInterrupt /\ e = Arrived /\ eligible = Calls
                           /\ eligible \in SUBSET Calls
                           /\ c \in Interrupted(rs, e.thread, eligible)
                           /\ ledger'[c] = "absent"
    BY <1>5, ReadingLedger
  <2>2. c \in eligible \cap Known /\ Matches(c, e.thread)
    BY <2>1 DEF Interrupted, Known
  <2>3. PICK j \in DOMAIN log : /\ e = log[j] /\ seen' = seen \cup {j}
                                /\ \A d \in eligible \cap Known : \E i \in 1..(j - 1) : log[i] = UseEvent(d)
    BY <2>1, InterruptStepMoves
  <2>4. PICK i \in 1..(j - 1) : log[i] = UseEvent(c)
    BY <2>2, <2>3
  <2>5. log' = log /\ e.type = "interrupt" /\ i \in DOMAIN log /\ i < j
    <3>1. log' = log
      BY <2>1, InterruptStepMoves
    <3>2. e.type = "interrupt"
      BY <2>1 DEF ListedInterrupt, StreamInterrupt
    <3>3. i \in DOMAIN log /\ i < j
      BY <1>t, <2>3, <2>4
    <3> QED
      BY <3>1, <3>2, <3>3
  <2>6. Ahead(j)'
    <3>1. ListingInv'
      BY AheadStays
    <3> QED
      BY <2>3, <3>1 DEF ListingInv, Ahead
  <2>7. Withdrawn(c)'
    BY <2>2, <2>3, <2>4, <2>5, <2>6 DEF Withdrawn
  <2> QED
    BY <2>1, <2>7
<1>6. CASE FinishAnswered \/ \E d \in Calls : AwaitConfirmation(d) \/ ResolveWithoutPost(d)
  BY <1>6, SettleHolds
<1>7. CASE \E d \in Calls : BeginRecorded(d) /\ ledger[d] = "sent"
  BY <1>7, SentBefore
<1>8. CASE FinishUnanswered \/ \E d \in Calls : BeginRecorded(d) /\ ledger[d] # "sent"
  <2>1. PICK d \in Calls, r \in Results : Saves(d, r)
    BY <1>8, SaveStep
  <2>2. ledger' = [ledger EXCEPT ![d] = r] /\ ledger[d] \in {"started", r}
    BY <2>1 DEF Saves
  <2> QED
    BY <1>t, <2>2
<1>9. CASE SendEnds
  BY <1>9, SendEndsHolds
<1>10. ASSUME NEW d \in Calls, BeginFresh(d) PROVE ledger'[c] = "started" /\ BeginFresh(c)
  BY <1>10, BeginFreshHolds
<1> QED
  BY <1>1, <1>2, <1>3, <1>4, <1>5, <1>6, <1>7, <1>8, <1>9, <1>10, StepKinds DEF LoudStep

\* A result of an owned call gets into the log, or on its way there, only where it is sent.
LEMMA GivenStep ==
  ASSUME CallsInv, Reliable, [Next]_vars, NEW c \in Owned, NEW r \in Results, Gave(c, r)'
  PROVE  Gave(c, r) \/ (pc = "send" /\ send.call = c /\ send.result = r)
<1>t. log \in Seq(Events) /\ net \subseteq Calls \X Results
  BY DEF CallsInv, TypeOK
<1>1. ASSUME <<c, r>> \in net' PROVE <<c, r>> \in net \/ (pc = "send" /\ send.call = c /\ send.result = r)
  <2>1. CASE QuietSend
    <3>1. pc = "send" /\ (net' = net \/ net' = net \cup {<<send.call, send.result>>})
      BY <2>1 DEF QuietSend, SendAccepted, SendRefused, SendConflicts, SendFails
    <3> QED
      BY <1>1, <3>1
  <2>2. CASE ControlPlane
    BY <1>1, <2>2, ControlPlaneEffect DEF CallsInv
  <2>3. CASE GoneStep \/ LoudStep
    BY <1>1, <2>3, GoneStepEffect, LoudStepPlane DEF plane
  <2>4. CASE QuietStep /\ ~QuietSend /\ ~ControlPlane
    BY <1>1, <2>4, OthersLeavePlane DEF plane
  <2> QED
    BY <2>1, <2>2, <2>3, <2>4, StepKinds
<1>2. ASSUME NEW i \in DOMAIN log', log'[i] = ResultEvent(c, r)
      PROVE  Gave(c, r) \/ (pc = "send" /\ send.call = c /\ send.result = r)
  <2>1. CASE i \in DOMAIN log
    <3>1. log[i] = ResultEvent(c, r)
      BY <1>2, <2>1, LogOnlyGrows
    <3> QED
      BY <2>1, <3>1 DEF Gave
  <2>2. CASE i \notin DOMAIN log
    <3>1. log' # log
      BY <1>2, <2>2
    <3>2. PICK e \in Events : log' = Append(log, e) /\ Fits(e)
      BY <3>1, LoggedEvent
    <3>3. e = ResultEvent(c, r)
      BY <1>t, <1>2, <2>2, <3>2
    <3>4. e.type = "result" /\ e.call = c /\ e.result = r
      BY <3>3 DEF ResultEvent
    <3>5. <<c, r>> \in net \/ (pc = "send" /\ e = ResultEvent(send.call, send.result))
      BY <3>2, <3>4 DEF Fits
    <3>6. e = ResultEvent(send.call, send.result) => send.call = c /\ send.result = r
      BY <3>4 DEF ResultEvent
    <3> QED
      BY <3>5, <3>6 DEF Gave
  <2> QED
    BY <2>1, <2>2
<1> QED
  BY <1>1, <1>2 DEF Gave

\* Every step keeps GivenInv.
LEMMA NextGivenInv ==
  ASSUME CallsInv, ReadInv, LedgerInv, InterruptInv, ListingInv, HeldInv, HistoryInv, ConfirmInv, GrantInv,
         RecInv, AwaitInv, GivenInv, Reliable, [Next]_vars
  PROVE  GivenInv'
<1> SUFFICES ASSUME NEW c \in Owned
             PROVE  /\ \A r, q \in Results : Gave(c, r)' /\ Gave(c, q)' => r = q
                    /\ \A r \in Results : Gave(c, r)' /\ ledger'[c] # "absent" => ledger'[c] \in {r, "sent"}
                    /\ ledger'[c] = "absent" =>
                         Withdrawn(c)' \/ (c \notin ever' /\ \A r \in Results : ~Gave(c, r)')
  BY DEF GivenInv
<1>t. c \in Calls /\ "absent" \notin Results /\ "started" \notin Results /\ "sent" \notin Results
  BY OwnedAssumption DEF Results, UnknownResult
<1> DEFINE IsSent(r) == pc = "send" /\ send.call = c /\ send.result = r
<1>1. ASSUME NEW r \in Results, IsSent(r) PROVE ledger[c] = r
  BY <1>1 DEF HeldInv, Sends
<1>2. \A r \in Results : Gave(c, r)' => Gave(c, r) \/ IsSent(r)
  BY GivenStep
<1>3. \/ ledger'[c] = ledger[c]
      \/ ledger'[c] = "absent" /\ Withdrawn(c)'
      \/ ledger'[c] = "started" /\ BeginFresh(c)
      \/ ledger[c] = "started" /\ ledger'[c] \in Results
      \/ ledger[c] # "absent" /\ ledger'[c] = "sent"
  BY <1>t, LedgerStep
<1>4. ASSUME NEW r \in Results, NEW q \in Results, Gave(c, r), IsSent(q) PROVE r = q
  BY <1>1, <1>4, <1>t DEF GivenInv
<1>5. ASSUME NEW r \in Results, NEW q \in Results, Gave(c, r)', Gave(c, q)' PROVE r = q
  <2>1. CASE Gave(c, r) /\ Gave(c, q)
    BY <2>1 DEF GivenInv
  <2> QED
    BY <1>2, <1>4, <1>5, <2>1
<1>6. ASSUME NEW r \in Results, Gave(c, r)', ledger'[c] # "absent" PROVE ledger'[c] \in {r, "sent"}
  <2>1. ledger[c] # "absent" => ledger[c] \in {r, "sent"}
    BY <1>1, <1>2, <1>6 DEF GivenInv
  <2>2. CASE ledger'[c] = "started" /\ BeginFresh(c)
    <3>1. ledger[c] = "absent" /\ ~Gave(c, r)
      BY <1>t, <2>2, BegunIsNew DEF BeginFresh
    <3> QED
      BY <1>1, <1>2, <1>6, <1>t, <3>1
  <2> QED
    BY <1>3, <1>6, <1>t, <2>1, <2>2
<1>7. ASSUME ledger'[c] = "absent", ~Withdrawn(c)'
      PROVE  c \notin ever' /\ \A r \in Results : ~Gave(c, r)'
  <2>1. ledger[c] = "absent" /\ ~Withdrawn(c)
    <3>1. ledger[c] = "absent"
      BY <1>3, <1>7, <1>t
    <3>2. ~Withdrawn(c)
      BY <1>7, WithdrawnStays
    <3> QED
      BY <3>1, <3>2
  <2>2. c \notin ever /\ \A r \in Results : ~Gave(c, r)
    BY <2>1 DEF GivenInv
  <2>3. \A r \in Results : ~Gave(c, r)'
    BY <1>1, <1>2, <1>t, <2>1, <2>2
  <2>4. ASSUME c \in ever' PROVE FALSE
    <3>1. c \in Range(rs.queue) \/ BeginFresh(c)
      BY <2>2, <2>4, EverStep
    <3>2. c \notin Range(rs.queue)
      BY <2>1 DEF LedgerInv, Reliable
    <3>3. ~BeginFresh(c)
      BY <1>7, <1>t, BeginFreshHolds
    <3> QED
      BY <3>1, <3>2, <3>3
  <2> QED
    BY <2>3, <2>4
<1> QED
  BY <1>5, <1>6, <1>7

\* What makes the results of a call equal.
ResultsInv == /\ HistoryInv /\ ConfirmInv /\ GrantInv /\ ListingInv /\ RecInv /\ AwaitInv
              /\ HeldInv /\ GivenInv

\* At the start nothing was used, recorded or executed.
LEMMA InitResultsInv == Init => ResultsInv
<1> SUFFICES ASSUME Init PROVE ResultsInv
  OBVIOUS
<1>1. /\ log = <<>> /\ net = {} /\ seen = {} /\ pc = "down" /\ rs = FreshState /\ ever = {}
      /\ \A c \in Calls : ledger[c] = "absent"
  BY DEF Init
<1>2. DOMAIN log = {}
  BY <1>1
<1>3. /\ FreshState.recovered = {} /\ FreshState.scheduled = {} /\ FreshState.queue = <<>>
      /\ FreshState.pendingResults = [c \in Calls |-> NoResult] /\ Range(<<>>) = {}
  BY DEF FreshState, Range
<1>4. HistoryInv
  <2>1. OpenCalls = {}
    BY <1>2 DEF OpenCalls, Used
  <2> QED
    BY <1>2, <2>1 DEF HistoryInv
<1>5. ConfirmInv /\ GrantInv /\ ListingInv
  BY <1>1, <1>2 DEF ConfirmInv, GrantInv, ListingInv
<1>6. RecInv /\ AwaitInv
  BY <1>1, <1>3 DEF RecInv, AwaitInv, Pass
<1>7. HeldInv
  <2> HIDE DEF FreshState
  <2> QED
    BY <1>1, <1>3 DEF HeldInv, Sends
<1>8. GivenInv
  BY <1>1, <1>2, OwnedAssumption DEF GivenInv, Gave
<1> QED
  BY <1>4, <1>5, <1>6, <1>7, <1>8 DEF ResultsInv

\* What the records and the log say of each other, where the store is reliable: it is inductive
\* on top of IInv.
THEOREM ResultsInvHolds == ASSUME Reliable PROVE Spec => []ResultsInv
<1>1. ASSUME IInv, ResultsInv, [Next]_vars PROVE ResultsInv'
  <2>1. /\ CallsInv /\ ReadInv /\ LedgerInv /\ ConsentInv /\ InterruptInv
        /\ HistoryInv /\ ConfirmInv /\ GrantInv /\ ListingInv /\ RecInv /\ AwaitInv /\ HeldInv /\ GivenInv
    BY <1>1 DEF IInv, ResultsInv
  <2>2. HistoryInv' /\ ConfirmInv' /\ GrantInv' /\ ListingInv'
    BY <1>1, <2>1, NextHistoryInv, NextConfirmInv, NextGrantInv, AheadStays
  <2>3. RecInv' /\ AwaitInv' /\ HeldInv' /\ GivenInv'
    BY <1>1, <2>1, NextRecInv, NextAwaitInv, NextHeldInv, NextGivenInv
  <2> QED
    BY <2>2, <2>3 DEF ResultsInv
<1> QED
  BY <1>1, InitResultsInv, IInvHolds, PTL DEF Spec

\* No call is given two different results: what a runner saved before it sent is what every later
\* one sends, whichever attempt reaches the control plane; a call without a record was never run.
THEOREM OneResult == ASSUME Reliable PROVE Spec => []OneResultPerCall
<1>1. ASSUME IInv, ResultsInv PROVE OneResultPerCall
  <2> SUFFICES ASSUME NEW c \in Owned PROVE Cardinality(Offered(c)) <= 1
    BY DEF OneResultPerCall
  <2>t. /\ log \in Seq(Events) /\ net \subseteq Calls \X Results /\ c \in Calls /\ SendInv /\ NoCall \notin Calls
    BY <1>1, OwnedAssumption, NamesAssumption DEF IInv, CallsInv, TypeOK
  <2>1. ASSUME NEW i \in DOMAIN log, log[i].type = "result", log[i].call = c
        PROVE  log[i].result \in Results /\ Gave(c, log[i].result)
    <3>1. log[i] \in Events
      BY <2>t
    <3>2. PICK d \in Calls, r \in Results : log[i] = ResultEvent(d, r)
      BY <2>1, <3>1 DEF Events, UseEvent, ConfirmEvent, InterruptEvent, RequiresActionEvent, StatusEvent
    <3>3. d = c /\ log[i].result = r
      BY <2>1, <3>2 DEF ResultEvent
    <3> QED
      BY <3>2, <3>3 DEF Gave
  <2>2. ASSUME NEW m \in net, m[1] = c PROVE m[2] \in Results /\ Gave(c, m[2])
    BY <2>t, <2>2 DEF Gave
  <2>3. ASSUME send.call = c
        PROVE  send.result \in Results /\ \A r \in Results : Gave(c, r) => r = send.result
    <3>1. pc \in Sends /\ send.result \in Results
      BY <2>t, <2>3 DEF SendInv, NoSend
    <3>2. ledger[c] = send.result
      BY <1>1, <2>3, <3>1 DEF ResultsInv, HeldInv
    <3>3. send.result \notin {"absent", "sent"}
      BY <3>1 DEF Results, UnknownResult
    <3> QED
      BY <1>1, <3>1, <3>2, <3>3 DEF ResultsInv, GivenInv
  <2>4. \A r, q \in Results : Gave(c, r) /\ Gave(c, q) => r = q
    BY <1>1 DEF ResultsInv, GivenInv
  <2>5. \A r \in Offered(c) : r \in Results /\ (Gave(c, r) \/ (send.call = c /\ r = send.result))
    BY <2>1, <2>2, <2>3 DEF Offered
  <2>6. \A r, q \in Offered(c) : r = q
    BY <2>3, <2>4, <2>5
  <2>7. CASE Offered(c) = {}
    BY <2>7, FS_EmptySet
  <2>8. CASE Offered(c) # {}
    <3>1. PICK r : r \in Offered(c)
      BY <2>8
    <3>2. Offered(c) = {r}
      BY <2>6, <3>1
    <3>3. Cardinality({r}) = 1
      BY FS_Singleton
    <3> QED
      BY <3>2, <3>3
  <2> QED
    BY <2>7, <2>8
<1> QED
  BY <1>1, IInvHolds, ResultsInvHolds, PTL

\* No call is ever started a second time, its record discarded or not: a record goes only for an
\* interrupt that the runner will have read before it handles the call again.
THEOREM NeverAgain == ASSUME Reliable PROVE Spec => NeverExecutedAgain
<1>1. ASSUME IInv, ResultsInv, [Next]_vars
      PROVE  [\A c \in Calls : Launches(c) => c \notin ever]_vars
  <2> SUFFICES ASSUME NEW c \in Calls, Launches(c) PROVE c \notin ever
    OBVIOUS
  <2>1. c \in Range(rs.queue) \/ BeginFresh(c)
    BY <1>1, LaunchStep DEF IInv
  <2>2. CASE c \in Range(rs.queue)
    BY <1>1, <2>2 DEF ResultsInv, HeldInv
  <2>3. CASE BeginFresh(c)
    BY <1>1, <2>3, BegunIsNew DEF IInv, ResultsInv
  <2> QED
    BY <2>1, <2>2, <2>3
<1> QED
  BY <1>1, IInvHolds, ResultsInvHolds, PTL DEF Spec, NeverExecutedAgain
=============================================================================
