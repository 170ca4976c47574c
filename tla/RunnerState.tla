---------------------------- MODULE RunnerState ----------------------------
(***************************************************************************)
(* selfhosted/session_tool_runner.go: the state of one session's event     *)
(* loop (toolRunnerState) and the functions that work on it without        *)
(* touching the network, the disk or a goroutine.  A function of the code  *)
(* that updates the state is an operator from a state to the next one.     *)
(*                                                                         *)
(* A tool call is known by its call id (an element of Calls).  The event   *)
(* that announces it has an id of its own, and a requires_action status    *)
(* lists event ids: ids of tool uses, or ids the runner has never seen     *)
(* (Opaque).  Only for the calls of SameId are both ids the same, because  *)
(* the event carries no tool_use_id.                                       *)
(***************************************************************************)
EXTENDS Naturals, Sequences, FiniteSets, Functions

CONSTANTS Calls,       \* tool_use call ids
          SameId,      \* calls whose event id is the call id
          Opaque,      \* event ids that belong to no tool use the runner sees
          Threads,     \* session threads
          ThreadOf,    \* the thread of each call
          Owned,       \* calls of a tool this runner has
          Permission,  \* the evaluated permission of each call
          IdleExit     \* MaxIdle > 0: the runner ends when idle

ASSUME SameIdAssumption == SameId \subseteq Calls
ASSUME OwnedAssumption == Owned \subseteq Calls
ASSUME ThreadAssumption == ThreadOf \in [Calls -> Threads]
ASSUME PermissionAssumption == Permission \in [Calls -> {"allow", "ask", "deny"}]
ASSUME IdleExitAssumption == IdleExit \in BOOLEAN

EventId(c) == IF c \in SameId THEN c ELSE <<"evt", c>>
OpaqueId(o) == <<"opaque", o>>
Refs == Calls \cup {EventId(c) : c \in Calls} \cup {OpaqueId(o) : o \in Opaque}

NoCall == "no call"
AnyThread == "any thread"
NoResult == "none"
UnknownResult == "unknown"
Results == {"done", "timedout", "cancelled", UnknownResult}
Verdicts == {"none", "allow", "deny"}

ASSUME NamesAssumption == NoCall \notin Calls /\ AnyThread \notin Threads

RunnerStates ==
  [answered        : SUBSET Calls,
   pendingResults  : [Calls -> Results \cup {NoResult}],
   recovered       : SUBSET Calls,
   pendingAsk      : SUBSET Calls,
   confirmations   : [Calls -> Verdicts],
   external        : SUBSET Calls,
   toolUses        : SUBSET Calls,     \* toolUseEvents
   mapped          : SUBSET Calls,     \* calls toolUseCallIDByEventID leads to
   scheduled       : SUBSET Calls,
   queue           : Seq(Calls),       \* executionQueue
   active          : Calls \cup {NoCall},  \* activeExecution
   sessionToolUses : SUBSET Calls,
   sinceStatus     : SUBSET Calls,     \* toolUsesSinceStatus
   blocking        : SUBSET Refs,      \* blockingEventIDs
   pendingBlocking : SUBSET Refs,      \* pendingBlockingEventIDs
   fallback        : SUBSET Calls,     \* requiresActionFallback
   candidates      : SUBSET Calls,     \* fallbackCandidates
   fallbackAllowed : BOOLEAN,
   known           : BOOLEAN,          \* blockingEventsKnown
   armed           : BOOLEAN,          \* idleArmedAt is set
   armPending      : BOOLEAN]          \* idleArmPending

-----------------------------------------------------------------------------
(* Idle timer                                                              *)

HasIdleBlockers(s) ==
  \/ s.pendingAsk # {}
  \/ \E c \in Calls : s.pendingResults[c] # NoResult
  \/ s.external # {}
  \/ s.scheduled # {}

ArmIdle(s) ==
  IF ~IdleExit THEN s
  ELSE [s EXCEPT !.armPending = HasIdleBlockers(s), !.armed = ~HasIdleBlockers(s)]

\* Faulty: an event calls off a timer that was put off, not one that runs.
CallOffPendingIdle(s) == [s EXCEPT !.armPending = FALSE]

DisarmIdle(s) == [s EXCEPT !.armPending = FALSE, !.armed = FALSE]

MaybeArmPendingIdle(s) ==
  IF s.armPending /\ ~HasIdleBlockers(s)
  THEN [s EXCEPT !.armPending = FALSE, !.armed = TRUE]
  ELSE s

NoteIdleEvent(s, e) ==
  CASE e.type = "confirm"  -> s
    [] e.type = "end_turn" -> ArmIdle(s)
    [] OTHER               -> DisarmIdle(s)

-----------------------------------------------------------------------------
(* What has been answered                                                  *)

\* markAnswered of every call of S.  The references to an answered call's event
\* go only if its tool_use event is remembered; answering the call a fallback
\* chose clears the references that lead to no call.
MarkAllAnswered(s, S) ==
  LET remembered == S \cap s.toolUses
      stillMapped == s.mapped \ remembered
      refs == s.pendingBlocking \ (S \cup {EventId(c) : c \in remembered})
      guessed == S \cap s.fallback # {}
  IN MaybeArmPendingIdle(
       [s EXCEPT !.answered = @ \cup S,
                 !.pendingResults = [c \in Calls |-> IF c \in S THEN NoResult ELSE @[c]],
                 !.recovered = @ \ S,
                 !.pendingAsk = @ \ S,
                 !.external = @ \ S,
                 !.fallback = @ \ S,
                 !.mapped = stillMapped,
                 !.toolUses = @ \ S,
                 !.candidates = IF guessed THEN {} ELSE @,
                 !.pendingBlocking = IF guessed
                                     THEN refs \cap {EventId(c) : c \in stillMapped}
                                     ELSE refs])

MarkAnswered(s, c) == MarkAllAnswered(s, {c})

RecordConfirmation(s, c, verdict) ==
  IF c \in s.answered THEN s ELSE [s EXCEPT !.confirmations[c] = verdict]

-----------------------------------------------------------------------------
(* What the session waits for                                              *)

ObserveToolUse(s, c) ==
  LET seen == [s EXCEPT !.sessionToolUses = @ \cup {c}, !.sinceStatus = @ \cup {c}]
  IN IF c \in s.answered THEN seen
     ELSE [seen EXCEPT !.toolUses = @ \cup {c},
                       !.mapped = @ \cup {c},
                       !.candidates = IF s.fallbackAllowed THEN @ \cup {c} ELSE @]

ObserveRequiresAction(s, refs) ==
  LET ids == refs \cup {c \in s.mapped : EventId(c) \in refs}
  IN [s EXCEPT !.known = TRUE,
               !.blocking = ids,
               !.pendingBlocking = @ \cup ids,
               !.fallbackAllowed = TRUE,
               !.candidates = s.toolUses \ s.answered,
               !.sinceStatus = {}]

ObserveEndTurn(s) ==
  [s EXCEPT !.known = TRUE, !.blocking = {}, !.pendingBlocking = {},
            !.fallbackAllowed = FALSE, !.fallback = {}, !.candidates = {},
            !.mapped = {}, !.sinceStatus = {}]

ObserveRunning(s) ==
  [s EXCEPT !.known = TRUE, !.blocking = {}, !.sinceStatus = {}]

ObserveSessionState(s, e) ==
  CASE e.type = "use"             -> ObserveToolUse(s, e.call)
    [] e.type = "requires_action" -> ObserveRequiresAction(s, e.refs)
    [] e.type = "end_turn"        -> ObserveEndTurn(s)
    [] e.type = "running"         -> ObserveRunning(s)
    [] OTHER                      -> s

IsBlockingToolUse(s, c) ==
  LET refs == s.blocking \cup s.pendingBlocking
  IN c \in s.fallback \/ c \in refs \/ (c \in s.toolUses /\ EventId(c) \in refs)

ShouldHandleToolUse(s, c) ==
  \/ ~s.known
  \/ IsBlockingToolUse(s, c)
  \/ c \in s.sinceStatus

\* A requires_action that matches no remembered tool use is taken to mean the
\* only call that is still open, if there is just one and the runner owns it.
ReconcileUnmatchedRequiresAction(s) ==
  LET open == s.toolUses \ s.answered
      unmatched == \A c \in open : {c, EventId(c)} \cap s.pendingBlocking = {}
      sole == Cardinality(s.candidates) = 1
              /\ s.candidates \subseteq (open \cap Owned) \ s.scheduled
  IN IF s.known /\ s.fallbackAllowed /\ s.pendingBlocking # {} /\ unmatched /\ sole
     THEN [s EXCEPT !.fallback = @ \cup s.candidates]
     ELSE s

\* Faulty: a recovered result the session waits for is not released for sending.
KeepRecoveredResults(s) ==
  LET stale == {c \in s.recovered : s.known /\ ~IsBlockingToolUse(s, c) /\ c \notin s.sinceStatus}
  IN [s EXCEPT !.recovered = @ \ stale,
               !.pendingResults = [c \in Calls |-> IF c \in stale THEN NoResult ELSE @[c]]]

\* Faulty: a recovered result is dropped although the session waits for it.
StaleUnlessNew(s) == {c \in s.recovered : s.known /\ c \notin s.sinceStatus}

\* The recovered results the session does not wait for: reconcileRecoveredResults
\* drops them, here and in the store.
StaleRecovered(s) ==
  {c \in s.recovered : /\ s.known
                       /\ ~(IsBlockingToolUse(s, c) /\ c \in s.sessionToolUses)
                       /\ c \notin s.sinceStatus}

ReconcileRecoveredResults(s) ==
  LET stale == StaleRecovered(s)
      validated == {c \in s.recovered : IsBlockingToolUse(s, c) /\ c \in s.sessionToolUses}
  IN IF ~s.known THEN s
     ELSE MaybeArmPendingIdle(
            [s EXCEPT !.recovered = @ \ (stale \cup validated),
                      !.pendingResults = [c \in Calls |-> IF c \in stale THEN NoResult ELSE @[c]]])

-----------------------------------------------------------------------------
(* Execution queue                                                         *)

\* startNextToolExecution: calls answered while they waited leave the queue.
StartNext(s) ==
  LET alive == {i \in DOMAIN s.queue : s.queue[i] \notin s.answered}
      next == CHOOSE i \in alive : \A j \in alive : i <= j
      dropped == {s.queue[j] : j \in {j \in DOMAIN s.queue : alive = {} \/ j < next}}
  IN IF s.active # NoCall THEN s
     ELSE [s EXCEPT !.scheduled = @ \ dropped,
                    !.active = IF alive = {} THEN NoCall ELSE s.queue[next],
                    !.queue = IF alive = {} THEN <<>> ELSE SubSeq(@, next + 1, Len(@))]

Schedule(s, c) ==
  StartNext([s EXCEPT !.scheduled = @ \cup {c}, !.queue = Append(@, c)])

\* Faulty: the finished call stays scheduled.
LeaveScheduled(s) == [s EXCEPT !.active = NoCall]

ClearActive(s) ==
  [s EXCEPT !.scheduled = @ \ {s.active}, !.active = NoCall]

-----------------------------------------------------------------------------
(* Interrupts                                                              *)

Matches(c, thread) == thread = AnyThread \/ ThreadOf[c] = thread

\* The calls an interrupt settles: the one executing, the queued ones and every
\* open tool use of the thread, among the eligible ones.
Interrupted(s, thread, eligible) ==
  {c \in (({s.active} \ {NoCall}) \cup Range(s.queue) \cup s.toolUses) \ s.answered :
      c \in eligible /\ Matches(c, thread)}

\* Faulty: an interrupt settles the calls but leaves them queued.
HandleInterruptNotQueue(s, thread, eligible) ==
  LET settled == Interrupted(s, thread, eligible)
  IN MarkAllAnswered([s EXCEPT !.scheduled = @ \ settled], settled)

\* The queue without the calls of S, in its order: the place that comes i-th is the one with
\* i - 1 others before it.
Without(queue, S) ==
  LET kept == {k \in DOMAIN queue : queue[k] \notin S}
      Place(i) == CHOOSE k \in kept : Cardinality({j \in kept : j < k}) = i - 1
  IN [i \in 1..Cardinality(kept) |-> queue[Place(i)]]

HandleInterrupt(s, thread, eligible) ==
  LET settled == Interrupted(s, thread, eligible)
  IN MarkAllAnswered([s EXCEPT !.queue = Without(@, {c \in eligible : Matches(c, thread)}),
                               !.scheduled = @ \ settled],
                     settled)
=============================================================================
