-------------------------- MODULE RunnerStateProofs --------------------------
(***************************************************************************)
(* What the methods of toolRunnerState do to the part of the state that    *)
(* decides whether a call is executed, sent or given up: one lemma per     *)
(* method.  Orderly is the invariant of that part, which all of them       *)
(* preserve; ToolRunnerProofs builds on it.                                *)
(***************************************************************************)
EXTENDS RunnerState, FiniteSetTheorems, SequenceTheorems, WellFoundedInduction, TLAPS

\* The fields that what is executed, sent or given up depends on.
SameCalls(s, t) ==
  /\ t.answered = s.answered /\ t.pendingResults = s.pendingResults
  /\ t.recovered = s.recovered /\ t.pendingAsk = s.pendingAsk
  /\ t.confirmations = s.confirmations
  /\ t.scheduled = s.scheduled /\ t.queue = s.queue /\ t.active = s.active

\* Every call is in one place: queued, executing, answered, or with a result to send.
Orderly(s) ==
  /\ Range(s.queue) \subseteq s.scheduled
  /\ \A i, j \in DOMAIN s.queue : i # j => s.queue[i] # s.queue[j]
  /\ s.active \notin Range(s.queue)
  /\ s.active # NoCall => s.active \in s.scheduled \cup s.answered
  /\ \A c \in s.recovered : s.pendingResults[c] # NoResult
  /\ \A c \in s.scheduled \cup s.answered : s.pendingResults[c] = NoResult
  /\ s.scheduled \ s.answered \subseteq Range(s.queue) \cup {s.active}

-----------------------------------------------------------------------------
(* The idle timer, and what the session waits for                          *)

\* The idle timer is all that armIdle, disarmIdle and maybeArmPendingIdle touch.
LEMMA IdleEffect ==
  ASSUME NEW s \in RunnerStates
  PROVE  \A t \in {ArmIdle(s), DisarmIdle(s), MaybeArmPendingIdle(s)} :
            t \in RunnerStates /\ SameCalls(s, t) /\ t.toolUses = s.toolUses
<1> DEFINE Timer(a, p) == [s EXCEPT !.armPending = p, !.armed = a]
<1>1. \A a, p \in BOOLEAN :
        Timer(a, p) \in RunnerStates /\ SameCalls(s, Timer(a, p)) /\ Timer(a, p).toolUses = s.toolUses
  BY DEF RunnerStates, SameCalls
<1>2. SameCalls(s, s)
  BY DEF SameCalls
<1>3. ArmIdle(s) \in {s, Timer(TRUE, FALSE), Timer(FALSE, TRUE)}
  <2>1. CASE HasIdleBlockers(s)
    <3>1. HasIdleBlockers(s) = TRUE /\ (~HasIdleBlockers(s)) = FALSE
      BY <2>1 DEF HasIdleBlockers
    <3> QED
      BY <3>1 DEF ArmIdle
  <2>2. CASE ~HasIdleBlockers(s)
    <3>1. HasIdleBlockers(s) = FALSE /\ (~HasIdleBlockers(s)) = TRUE
      BY <2>2 DEF HasIdleBlockers
    <3> QED
      BY <3>1 DEF ArmIdle
  <2> QED
    BY <2>1, <2>2
<1>4. DisarmIdle(s) = Timer(FALSE, FALSE)
  BY DEF DisarmIdle
<1>5. MaybeArmPendingIdle(s) \in {s, Timer(TRUE, FALSE)}
  BY DEF MaybeArmPendingIdle
<1> QED
  <2> HIDE DEF Timer
  <2>1. TRUE \in BOOLEAN /\ FALSE \in BOOLEAN
    OBVIOUS
  <2>2. \A t \in {s, Timer(TRUE, FALSE), Timer(FALSE, TRUE), Timer(FALSE, FALSE)} :
           t \in RunnerStates /\ SameCalls(s, t) /\ t.toolUses = s.toolUses
    BY <1>1, <1>2, <2>1
  <2>3. {ArmIdle(s), DisarmIdle(s), MaybeArmPendingIdle(s)}
           \subseteq {s, Timer(TRUE, FALSE), Timer(FALSE, TRUE), Timer(FALSE, FALSE)}
    BY <1>3, <1>4, <1>5
  <2> QED
    BY <2>2, <2>3

\* noteIdleEvent touches the idle timer only.
LEMMA NoteIdleEventEffect ==
  ASSUME NEW s \in RunnerStates, NEW e
  PROVE  /\ NoteIdleEvent(s, e) \in RunnerStates
         /\ SameCalls(s, NoteIdleEvent(s, e)) /\ NoteIdleEvent(s, e).toolUses = s.toolUses
BY IdleEffect DEF NoteIdleEvent, SameCalls

\* Calls and the ids of their events can be referred to.
LEMMA RefsOfCalls == \A S \in SUBSET Calls : S \subseteq Refs /\ {EventId(c) : c \in S} \subseteq Refs
BY DEF Refs

\* observeToolUse remembers a call that is not answered.
LEMMA ObserveToolUseEffect ==
  ASSUME NEW s \in RunnerStates, NEW c \in Calls
  PROVE  LET t == ObserveToolUse(s, c)
         IN /\ t \in RunnerStates /\ SameCalls(s, t)
            /\ t.toolUses = IF c \in s.answered THEN s.toolUses ELSE s.toolUses \cup {c}
<1> DEFINE seen == [s EXCEPT !.sessionToolUses = @ \cup {c}, !.sinceStatus = @ \cup {c}]
           cand == IF s.fallbackAllowed THEN s.candidates \cup {c} ELSE s.candidates
           noted == [seen EXCEPT !.toolUses = @ \cup {c}, !.mapped = @ \cup {c}, !.candidates = cand]
<1>1. seen \in RunnerStates /\ SameCalls(s, seen) /\ seen.toolUses = s.toolUses
      /\ seen.candidates = s.candidates
  BY DEF RunnerStates, SameCalls
<1>2. cand \in SUBSET Calls
  BY DEF RunnerStates
<1>3. noted \in RunnerStates /\ SameCalls(s, noted) /\ noted.toolUses = s.toolUses \cup {c}
  <2> HIDE DEF cand, seen
  <2> QED
    BY <1>1, <1>2 DEF RunnerStates, SameCalls
<1>4. ObserveToolUse(s, c) = IF c \in s.answered THEN seen ELSE noted
  BY <1>1 DEF ObserveToolUse
<1> QED
  <2> HIDE DEF noted, seen
  <2> QED
    BY <1>1, <1>3, <1>4

\* A requires_action status changes only what the session is known to wait for.
LEMMA ObserveRequiresActionEffect ==
  ASSUME NEW s \in RunnerStates, NEW refs \in SUBSET Refs
  PROVE  LET t == ObserveRequiresAction(s, refs)
         IN t \in RunnerStates /\ SameCalls(s, t) /\ t.toolUses = s.toolUses
<1> DEFINE ids == refs \cup {c \in s.mapped : EventId(c) \in refs}
           open == s.toolUses \ s.answered
<1>1. ids \in SUBSET Refs
  BY DEF RunnerStates, Refs
<1>2. open \in SUBSET Calls
  BY DEF RunnerStates
<1>3. ObserveRequiresAction(s, refs) =
        [s EXCEPT !.known = TRUE, !.blocking = ids, !.pendingBlocking = @ \cup ids,
                  !.fallbackAllowed = TRUE, !.candidates = open, !.sinceStatus = {}]
  BY DEF ObserveRequiresAction
<1> DEFINE t == [s EXCEPT !.known = TRUE, !.blocking = ids, !.pendingBlocking = @ \cup ids,
                          !.fallbackAllowed = TRUE, !.candidates = open, !.sinceStatus = {}]
<1>4. t \in RunnerStates /\ SameCalls(s, t) /\ t.toolUses = s.toolUses
  <2> HIDE DEF ids, open
  <2> QED
    BY <1>1, <1>2 DEF RunnerStates, SameCalls
<1> QED
  BY <1>3, <1>4

\* No event changes what is queued, executed or answered by being observed; a tool use
\* is remembered.
LEMMA ObserveSessionStateEffect ==
  ASSUME NEW s \in RunnerStates, NEW e,
         e.type = "use" => e.call \in Calls,
         e.type = "requires_action" => e.refs \in SUBSET Refs
  PROVE  LET t == ObserveSessionState(s, e)
         IN /\ t \in RunnerStates /\ SameCalls(s, t)
            /\ t.toolUses = IF e.type = "use" /\ e.call \notin s.answered
                            THEN s.toolUses \cup {e.call} ELSE s.toolUses
<1>1. CASE e.type = "use"
  BY <1>1, ObserveToolUseEffect DEF ObserveSessionState
<1>2. CASE e.type = "requires_action"
  BY <1>2, ObserveRequiresActionEffect DEF ObserveSessionState
<1>3. CASE e.type = "end_turn"
  BY <1>3 DEF ObserveSessionState, ObserveEndTurn, RunnerStates, SameCalls
<1>4. CASE e.type = "running"
  BY <1>4 DEF ObserveSessionState, ObserveRunning, RunnerStates, SameCalls
<1>5. CASE e.type \notin {"use", "requires_action", "end_turn", "running"}
  BY <1>5 DEF ObserveSessionState, SameCalls
<1> QED
  BY <1>1, <1>2, <1>3, <1>4, <1>5

\* reconcileUnmatchedRequiresAction only adds to the fallback.
LEMMA ReconcileUnmatchedEffect ==
  ASSUME NEW s \in RunnerStates
  PROVE  LET t == ReconcileUnmatchedRequiresAction(s)
         IN t \in RunnerStates /\ SameCalls(s, t) /\ t.toolUses = s.toolUses
<1> DEFINE t == [s EXCEPT !.fallback = @ \cup s.candidates]
<1>1. t \in RunnerStates /\ SameCalls(s, t) /\ t.toolUses = s.toolUses
  BY DEF RunnerStates, SameCalls
<1> QED
  BY <1>1 DEF ReconcileUnmatchedRequiresAction, SameCalls

\* What was recovered and the session does not wait for goes, with its result; what
\* it waits for is no longer held back.
LEMMA ReconcileRecoveredEffect ==
  ASSUME NEW s \in RunnerStates
  PROVE  LET t == ReconcileRecoveredResults(s)
         IN /\ t \in RunnerStates
            /\ t.answered = s.answered /\ t.pendingAsk = s.pendingAsk
            /\ t.confirmations = s.confirmations /\ t.toolUses = s.toolUses
            /\ t.scheduled = s.scheduled /\ t.queue = s.queue /\ t.active = s.active
            /\ t.recovered \subseteq s.recovered \ StaleRecovered(s)
            /\ \A c \in Calls : t.pendingResults[c] =
                 IF c \in StaleRecovered(s) THEN NoResult ELSE s.pendingResults[c]
<1> DEFINE stale == StaleRecovered(s)
           validated == {c \in s.recovered : IsBlockingToolUse(s, c) /\ c \in s.sessionToolUses}
           pend == [c \in Calls |-> IF c \in stale THEN NoResult ELSE s.pendingResults[c]]
           rec == s.recovered \ (stale \cup validated)
           u == [s EXCEPT !.recovered = rec, !.pendingResults = pend]
<1>1. CASE ~s.known
  BY <1>1 DEF ReconcileRecoveredResults, StaleRecovered
<1>2. CASE s.known
  <2>1. pend \in [Calls -> Results \cup {NoResult}]
    BY DEF RunnerStates
  <2>2. rec \in SUBSET Calls
    BY DEF RunnerStates
  <2>3. u \in RunnerStates /\ u.recovered = rec /\ u.pendingResults = pend
        /\ u.answered = s.answered /\ u.pendingAsk = s.pendingAsk
        /\ u.confirmations = s.confirmations /\ u.toolUses = s.toolUses
        /\ u.scheduled = s.scheduled /\ u.queue = s.queue /\ u.active = s.active
    <3> HIDE DEF pend, rec
    <3> QED
      BY <2>1, <2>2 DEF RunnerStates
  <2>4. ReconcileRecoveredResults(s) = MaybeArmPendingIdle(u)
    BY <1>2 DEF ReconcileRecoveredResults
  <2>5. rec \subseteq s.recovered \ stale
    OBVIOUS
  <2>6. \A c \in Calls : pend[c] = IF c \in stale THEN NoResult ELSE s.pendingResults[c]
    OBVIOUS
  <2>7. LET t == MaybeArmPendingIdle(u)
        IN t \in RunnerStates /\ SameCalls(u, t) /\ t.toolUses = u.toolUses
    <3> HIDE DEF u
    <3> QED
      BY <2>3, IdleEffect
  <2> QED
    <3> HIDE DEF u, rec, pend
    <3> QED
      BY <2>3, <2>4, <2>5, <2>6, <2>7 DEF SameCalls
<1> QED
  BY <1>1, <1>2

-----------------------------------------------------------------------------
(* What has been answered                                                  *)

\* markAnswered drops what was kept of the calls, and leaves the queue as it is.
LEMMA MarkAllAnsweredEffect ==
  ASSUME NEW s \in RunnerStates, NEW S \in SUBSET Calls
  PROVE  LET t == MarkAllAnswered(s, S)
         IN /\ t \in RunnerStates
            /\ t.answered = s.answered \cup S /\ t.recovered = s.recovered \ S
            /\ t.pendingAsk = s.pendingAsk \ S /\ t.toolUses = s.toolUses \ S
            /\ \A c \in Calls : t.pendingResults[c] = IF c \in S THEN NoResult ELSE s.pendingResults[c]
            /\ t.confirmations = s.confirmations
            /\ t.scheduled = s.scheduled /\ t.queue = s.queue /\ t.active = s.active
<1> DEFINE remembered == S \cap s.toolUses
           stillMapped == s.mapped \ remembered
           refs == s.pendingBlocking \ (S \cup {EventId(c) : c \in remembered})
           guessed == S \cap s.fallback # {}
           pb == IF guessed THEN refs \cap {EventId(c) : c \in stillMapped} ELSE refs
           cand == IF guessed THEN {} ELSE s.candidates
           pend == [c \in Calls |-> IF c \in S THEN NoResult ELSE s.pendingResults[c]]
           u == [s EXCEPT !.answered = @ \cup S, !.pendingResults = pend,
                          !.recovered = @ \ S, !.pendingAsk = @ \ S, !.external = @ \ S,
                          !.fallback = @ \ S, !.mapped = stillMapped, !.toolUses = @ \ S,
                          !.candidates = cand, !.pendingBlocking = pb]
<1>1. pb \in SUBSET Refs /\ cand \in SUBSET Calls /\ stillMapped \in SUBSET Calls
  BY DEF RunnerStates
<1>2. pend \in [Calls -> Results \cup {NoResult}]
  BY DEF RunnerStates
<1>3. MarkAllAnswered(s, S) = MaybeArmPendingIdle(u)
  BY DEF MarkAllAnswered
<1>4. /\ u \in RunnerStates
      /\ u.answered = s.answered \cup S /\ u.recovered = s.recovered \ S
      /\ u.pendingAsk = s.pendingAsk \ S /\ u.toolUses = s.toolUses \ S
      /\ u.pendingResults = pend /\ u.confirmations = s.confirmations
      /\ u.scheduled = s.scheduled /\ u.queue = s.queue /\ u.active = s.active
  <2> HIDE DEF pb, cand, pend, stillMapped
  <2> QED
    BY <1>1, <1>2 DEF RunnerStates
<1> QED
  <2> HIDE DEF u
  <2> QED
    BY <1>3, <1>4, IdleEffect DEF SameCalls

\* recordConfirmation keeps the verdict of one call.
LEMMA RecordConfirmationEffect ==
  ASSUME NEW s \in RunnerStates, NEW c \in Calls, NEW v \in Verdicts
  PROVE  LET t == RecordConfirmation(s, c, v)
         IN /\ t \in RunnerStates
            /\ t.answered = s.answered /\ t.pendingResults = s.pendingResults
            /\ t.recovered = s.recovered /\ t.pendingAsk = s.pendingAsk
            /\ t.toolUses = s.toolUses
            /\ t.scheduled = s.scheduled /\ t.queue = s.queue /\ t.active = s.active
            /\ \A d \in Calls : t.confirmations[d] \in {s.confirmations[d]} \cup (IF c = d THEN {v} ELSE {})
BY DEF RecordConfirmation, RunnerStates

-----------------------------------------------------------------------------
(* Execution queue                                                         *)

\* A nonempty set of numbers has a smallest one.
LEMMA SmallestElement ==
  ASSUME NEW S \in SUBSET Nat, S # {}
  PROVE  \E i \in S : \A j \in S : i <= j
<1> DEFINE R == OpToRel(<, Nat)
<1>1. IsWellFoundedOn(R, Nat)
  BY NatLessThanWellFounded
<1>2. R = {ss \in Nat \X Nat : ss[1] < ss[2]}
  BY DEF OpToRel
<1> HIDE DEF R
<1>3. PICK i \in S : \A j \in S : ~ (<<j, i>> \in R)
  BY <1>1, WFMin
<1>4. ASSUME NEW j \in S PROVE i <= j
  <2>1. <<j, i>> \notin R
    BY <1>3
  <2>2. ~ (j < i)
    BY <1>2, <2>1
  <2> QED
    BY <2>2
<1> QED
  BY <1>4

\* Without takes the calls of S out of a queue, and neither adds one nor repeats one.
LEMMA WithoutEffect ==
  ASSUME NEW q \in Seq(Calls), NEW S
  PROVE  /\ Without(q, S) \in Seq(Calls)
         /\ Range(Without(q, S)) = Range(q) \ S
         /\ (\A i, j \in DOMAIN q : i # j => q[i] # q[j]) =>
               \A i, j \in DOMAIN Without(q, S) : i # j => Without(q, S)[i] # Without(q, S)[j]
<1> DEFINE kept == {k \in DOMAIN q : q[k] \notin S}
           n == Cardinality(kept)
           Before(k) == {j \in kept : j < k}
           rank == [k \in kept |-> Cardinality(Before(k))]
           Place(i) == CHOOSE k \in kept : Cardinality(Before(k)) = i - 1
<1>1. DOMAIN q = 1..Len(q) /\ Len(q) \in Nat
  OBVIOUS
<1>2. IsFiniteSet(kept) /\ n \in Nat
  <2>1. IsFiniteSet(1..Len(q))
    BY <1>1, FS_Interval
  <2> QED
    BY <1>1, <2>1, FS_Subset, FS_CardinalityType
<1>3. \A k \in kept : Before(k) \subseteq kept /\ IsFiniteSet(Before(k))
                        /\ Cardinality(Before(k)) \in Nat /\ Cardinality(Before(k)) < n
  <2> TAKE k \in kept
  <2>1. Before(k) \subseteq kept /\ k \notin Before(k)
    BY <1>1
  <2>2. IsFiniteSet(Before(k)) /\ Cardinality(Before(k)) <= n /\ Cardinality(Before(k)) # n
    BY <1>2, <2>1, FS_Subset
  <2> QED
    BY <1>2, <2>1, <2>2, FS_CardinalityType
<1>4. \A j, k \in kept : j < k => rank[j] < rank[k]
  <2> SUFFICES ASSUME NEW j \in kept, NEW k \in kept, j < k
               PROVE  Cardinality(Before(j)) < Cardinality(Before(k))
    OBVIOUS
  <2>1. Before(j) \subseteq Before(k) /\ j \in Before(k) /\ j \notin Before(j)
    BY <1>1
  <2>2. Cardinality(Before(j)) <= Cardinality(Before(k)) /\ Cardinality(Before(j)) # Cardinality(Before(k))
    BY <1>3, <2>1, FS_Subset
  <2>3. Cardinality(Before(j)) \in Nat /\ Cardinality(Before(k)) \in Nat
    BY <1>3
  <2> HIDE DEF Before
  <2> QED
    BY <2>2, <2>3
<1> HIDE DEF n, Before
<1>5. rank \in Injection(kept, 0..n-1)
  <2>1. rank \in [kept -> 0..n-1]
    BY <1>2, <1>3
  <2>2. \A j, k \in kept : j # k => j < k \/ k < j
    BY <1>1
  <2>3. \A k \in kept : rank[k] \in 0..n-1
    BY <2>1
  <2>4. \A j, k \in kept : rank[j] = rank[k] => j = k
    <3> SUFFICES ASSUME NEW j \in kept, NEW k \in kept, rank[j] = rank[k], j # k PROVE FALSE
      OBVIOUS
    <3>1. rank[j] \in Int /\ rank[k] \in Int
      BY <1>3
    <3>2. rank[j] < rank[k] \/ rank[k] < rank[j]
      BY <1>4, <2>2
    <3> HIDE DEF rank
    <3> QED
      BY <3>1, <3>2
  <2> QED
    BY <2>1, <2>4 DEF Injection, IsInjective
<1>6. rank \in Surjection(kept, 0..n-1)
  <2>1. IsFiniteSet(0..n-1) /\ Cardinality(0..n-1) = n
    <3>1. n \in Int /\ 0 \in Int /\ n - 1 \in Int
      BY <1>2
    <3>2. IsFiniteSet(0..n-1) /\ Cardinality(0..n-1) = IF 0 > n - 1 THEN 0 ELSE n - 1 - 0 + 1
      BY <3>1, FS_Interval
    <3> QED
      BY <1>2, <3>2
  <2>2. Cardinality(kept) = n
    BY DEF n
  <2> QED
    BY <1>5, <2>2, <2>1, FS_Injection
<1>7. \A i \in 1..n : Place(i) \in kept /\ rank[Place(i)] = i - 1
  <2> TAKE i \in 1..n
  <2>1. \E k \in kept : rank[k] = i - 1
    <3>1. i - 1 \in 0..n-1
      BY <1>2
    <3> QED
      BY <1>6, <3>1 DEF Surjection
  <2> QED
    BY <2>1
<1>8. \A k \in kept : rank[k] + 1 \in 1..n /\ Place(rank[k] + 1) = k
  <2> TAKE k \in kept
  <2>1. rank[k] \in 0..n-1
    BY <1>2, <1>3
  <2>2. rank[k] + 1 \in 1..n
    BY <1>2, <2>1
  <2>3. rank[Place(rank[k] + 1)] = rank[k] /\ Place(rank[k] + 1) \in kept
    <3> HIDE DEF rank, Place
    <3> QED
      BY <1>2, <1>7, <2>1, <2>2
  <2> QED
    <3> HIDE DEF rank, Place
    <3> QED
      BY <1>5, <2>2, <2>3 DEF Injection, IsInjective
<1>9. Without(q, S) = [i \in 1..n |-> q[Place(i)]]
  BY DEF Without, n, Before
<1> HIDE DEF Place, rank
<1>10. Without(q, S) \in Seq(Calls) /\ DOMAIN Without(q, S) = 1..n
  <2>1. \A i \in 1..n : q[Place(i)] \in Calls
    BY <1>7
  <2> QED
    BY <1>2, <1>9, <2>1
<1>11. Range(Without(q, S)) = Range(q) \ S
  <2>1. ASSUME NEW c \in Range(Without(q, S)) PROVE c \in Range(q) \ S
    BY <1>7, <1>9, <1>10, <2>1 DEF Range
  <2>2. ASSUME NEW c \in Range(q) \ S PROVE c \in Range(Without(q, S))
    <3>1. PICK k \in kept : c = q[k]
      BY DEF Range
    <3> QED
      BY <1>8, <1>9, <1>10, <3>1 DEF Range
  <2> QED
    BY <2>1, <2>2
<1>12. ASSUME \A i, j \in DOMAIN q : i # j => q[i] # q[j],
              NEW i \in 1..n, NEW j \in 1..n, i # j
       PROVE  Without(q, S)[i] # Without(q, S)[j]
  <2>1. Place(i) # Place(j)
    BY <1>7, <1>12
  <2>2. Place(i) \in DOMAIN q /\ Place(j) \in DOMAIN q
    BY <1>7
  <2> QED
    BY <1>9, <1>12, <2>1, <2>2
<1> QED
  BY <1>10, <1>11, <1>12

\* startNextToolExecution: a call that begins to execute was queued and is not answered;
\* it and the answered calls before it leave the queue.
LEMMA StartNextEffect ==
  ASSUME NEW s \in RunnerStates
  PROVE  LET t == StartNext(s)
         IN /\ t \in RunnerStates
            /\ t.answered = s.answered /\ t.pendingResults = s.pendingResults
            /\ t.recovered = s.recovered /\ t.pendingAsk = s.pendingAsk
            /\ t.confirmations = s.confirmations /\ t.toolUses = s.toolUses
            /\ Range(t.queue) \subseteq Range(s.queue) /\ t.scheduled \subseteq s.scheduled
            /\ s.active # NoCall => t = s
            /\ s.active = NoCall => t.active \in {NoCall} \cup (Range(s.queue) \ s.answered)
            /\ Orderly(s) => Orderly(t)
<1> DEFINE q == s.queue
           alive == {i \in DOMAIN q : q[i] \notin s.answered}
           next == CHOOSE i \in alive : \A j \in alive : i <= j
           dropped == {q[j] : j \in {j \in DOMAIN q : alive = {} \/ j < next}}
           sched == s.scheduled \ dropped
           act == IF alive = {} THEN NoCall ELSE q[next]
           rest == IF alive = {} THEN <<>> ELSE SubSeq(q, next + 1, Len(q))
           u == [s EXCEPT !.scheduled = sched, !.active = act, !.queue = rest]
<1>1. StartNext(s) = IF s.active # NoCall THEN s ELSE u
  BY DEF StartNext
<1>2. q \in Seq(Calls) /\ DOMAIN q = 1..Len(q) /\ Len(q) \in Nat
  BY DEF RunnerStates
<1>3. alive # {} => next \in alive /\ \A j \in alive : next <= j
  <2> HAVE alive # {}
  <2>1. alive \in SUBSET Nat
    BY <1>2
  <2>2. \E i \in alive : \A j \in alive : i <= j
    BY <2>1, SmallestElement
  <2> QED
    BY <2>2
<1> HIDE DEF next
<1>4. alive # {} => /\ rest \in Seq(Calls) /\ DOMAIN rest = 1..Len(q)-next
                    /\ \A k \in DOMAIN rest : next + k \in DOMAIN q /\ rest[k] = q[next + k]
  <2> HAVE alive # {}
  <2>1. next + 1 \in 1..Len(q)+1
    BY <1>2, <1>3
  <2>2. rest = SubSeq(q, next + 1, Len(q))
    OBVIOUS
  <2>3. DOMAIN rest = 1..Len(q)-next
        /\ rest \in Seq(Calls)
        /\ \A k \in 1..Len(q)-next : rest[k] = q[next + k]
    <3>1. next \in 1..Len(q)
      BY <1>2, <1>3
    <3>2. \A i \in (next + 1)..Len(q) : q[i] \in Calls
      BY <1>2, <3>1
    <3>3. /\ SubSeq(q, next + 1, Len(q)) \in Seq(Calls)
          /\ Len(SubSeq(q, next + 1, Len(q))) = IF next + 1 <= Len(q) THEN Len(q) - (next + 1) + 1 ELSE 0
          /\ \A i \in 1 .. Len(q) - (next + 1) + 1 : SubSeq(q, next + 1, Len(q))[i] = q[(next + 1) + i - 1]
      BY <1>2, <3>1, <3>2, SubSeqProperties
    <3> DEFINE r == SubSeq(q, next + 1, Len(q))
    <3>4. Len(r) = Len(q) - next /\ DOMAIN r = 1..Len(r)
      BY <1>2, <3>1, <3>3
    <3>5. \A k \in 1..Len(q)-next : k \in 1 .. Len(q) - (next + 1) + 1 /\ (next + 1) + k - 1 = next + k
      BY <1>2, <3>1
    <3> HIDE DEF r
    <3> QED
      BY <2>2, <3>3, <3>4, <3>5 DEF r
  <2>4. \A k \in 1..Len(q)-next : next + k \in DOMAIN q
    BY <1>2, <1>3
  <2> HIDE DEF rest
  <2> QED
    BY <2>3, <2>4
<1>5. rest \in Seq(Calls)
  BY <1>4
<1>r. \A i \in DOMAIN q : alive # {} /\ i > next => q[i] \in Range(rest)
  <2> SUFFICES ASSUME alive # {}, NEW i \in DOMAIN q, i > next PROVE q[i] \in Range(rest)
    OBVIOUS
  <2>1. next \in Nat /\ i \in Nat /\ i - next \in 1..Len(q)-next /\ next + (i - next) = i
    BY <1>2, <1>3
  <2>2. i - next \in DOMAIN rest
    BY <1>4, <2>1
  <2> HIDE DEF rest
  <2> QED
    BY <1>4, <2>1, <2>2 DEF Range
<1>6. \A k \in DOMAIN rest : alive # {} /\ k \in Nat \ {0} /\ next + k \in DOMAIN q /\ rest[k] = q[next + k]
  <2>1. alive = {} => DOMAIN rest = {}
    OBVIOUS
  <2>2. \A k \in DOMAIN rest : k \in Nat \ {0}
    BY <1>5
  <2> HIDE DEF rest, alive
  <2> QED
    BY <1>4, <2>1, <2>2
<1>7. act \in {NoCall} \cup (Range(q) \ s.answered) /\ act \in Calls \cup {NoCall}
  BY <1>2, <1>3 DEF Range
<1>8. Range(rest) \subseteq Range(q)
  BY <1>6 DEF Range
<1> HIDE DEF rest, act
<1>9. sched \in SUBSET Calls
  BY DEF RunnerStates
<1>10. /\ u \in RunnerStates
       /\ u.answered = s.answered /\ u.pendingResults = s.pendingResults
       /\ u.recovered = s.recovered /\ u.pendingAsk = s.pendingAsk
       /\ u.confirmations = s.confirmations /\ u.toolUses = s.toolUses
       /\ u.queue = rest /\ u.scheduled = sched /\ u.active = act
  <2> HIDE DEF sched, alive
  <2> QED
    BY <1>5, <1>7, <1>9 DEF RunnerStates
<1>11. ASSUME Orderly(s), s.active = NoCall PROVE Orderly(u)
  <2>1. \A i, j \in DOMAIN q : i # j => q[i] # q[j]
    BY <1>11 DEF Orderly
  <2>2. Range(q) \subseteq s.scheduled
    BY <1>11 DEF Orderly
  <2>3. ASSUME NEW k \in DOMAIN rest PROVE rest[k] \in sched /\ rest[k] # act
    <3>1. alive # {} /\ next \in DOMAIN q /\ act = q[next]
      BY <1>3, <1>6 DEF act
    <3>2. next + k \in DOMAIN q /\ rest[k] = q[next + k] /\ next + k # next
          /\ \A j \in DOMAIN q : j < next => j # next + k
      BY <1>2, <1>6, <3>1
    <3>3. rest[k] \notin dropped
      BY <2>1, <3>1, <3>2
    <3> QED
      BY <2>1, <2>2, <3>1, <3>2, <3>3 DEF Range
  <2>4. Range(rest) \subseteq sched /\ act \notin Range(rest)
    BY <2>3 DEF Range
  <2>5. \A i, j \in DOMAIN rest : i # j => rest[i] # rest[j]
    <3> SUFFICES ASSUME NEW i \in DOMAIN rest, NEW j \in DOMAIN rest, i # j PROVE rest[i] # rest[j]
      OBVIOUS
    <3>1. next + i # next + j
      BY <1>2, <1>3, <1>6
    <3> QED
      BY <1>6, <2>1, <3>1
  <2>6. act # NoCall => act \in sched
    <3> HAVE act # NoCall
    <3>1. alive # {} /\ next \in DOMAIN q /\ act = q[next]
      BY <1>3 DEF act
    <3>2. act \notin dropped
      BY <1>2, <2>1, <3>1
    <3> QED
      BY <2>2, <3>1, <3>2 DEF Range
  <2>7. sched \subseteq s.scheduled
    OBVIOUS
  <2>8. ASSUME NEW c \in sched, c \notin s.answered PROVE c \in Range(rest) \cup {act}
    <3>1. c \in Range(q)
      BY <1>11, <2>8, NamesAssumption DEF Orderly, RunnerStates
    <3>2. PICK i \in DOMAIN q : q[i] = c
      BY <3>1 DEF Range
    <3>3. i \in alive /\ next <= i /\ next \in DOMAIN q
      BY <1>3, <2>8, <3>2
    <3>4. i = next \/ i > next
      BY <1>2, <3>2, <3>3
    <3> QED
      BY <1>r, <3>2, <3>3, <3>4 DEF act
  <2> HIDE DEF u, sched
  <2> QED
    BY <1>10, <1>11, <2>4, <2>5, <2>6, <2>7, <2>8 DEF Orderly
<1>12. sched \subseteq s.scheduled
  OBVIOUS
<1> QED
  <2> HIDE DEF u, sched
  <2> QED
    BY <1>1, <1>7, <1>8, <1>10, <1>11, <1>12

\* A call that is not answered, held or scheduled is put at the end of the queue.
LEMMA ScheduleEffect ==
  ASSUME NEW s \in RunnerStates, NEW c \in Calls
  PROVE  LET t == Schedule(s, c)
         IN /\ t \in RunnerStates
            /\ t.answered = s.answered /\ t.pendingResults = s.pendingResults
            /\ t.recovered = s.recovered /\ t.pendingAsk = s.pendingAsk
            /\ t.confirmations = s.confirmations /\ t.toolUses = s.toolUses
            /\ Range(t.queue) \subseteq Range(s.queue) \cup {c}
            /\ t.scheduled \subseteq s.scheduled \cup {c}
            /\ s.active # NoCall => t.active = s.active
            /\ s.active = NoCall => t.active \in {NoCall} \cup ((Range(s.queue) \cup {c}) \ s.answered)
            /\ Orderly(s) /\ c \notin s.answered \cup s.scheduled /\ s.pendingResults[c] = NoResult
                 => Orderly(t)
<1> DEFINE u == [s EXCEPT !.scheduled = @ \cup {c}, !.queue = Append(@, c)]
<1>1. /\ u \in RunnerStates
      /\ u.answered = s.answered /\ u.pendingResults = s.pendingResults
      /\ u.recovered = s.recovered /\ u.pendingAsk = s.pendingAsk
      /\ u.confirmations = s.confirmations /\ u.toolUses = s.toolUses
      /\ u.queue = Append(s.queue, c) /\ u.scheduled = s.scheduled \cup {c} /\ u.active = s.active
  <2>1. Append(s.queue, c) \in Seq(Calls)
    BY DEF RunnerStates
  <2> QED
    BY <2>1 DEF RunnerStates
<1>2. s.queue \in Seq(Calls)
  BY DEF RunnerStates
<1>3. Range(Append(s.queue, c)) = Range(s.queue) \cup {c}
  <2> DEFINE q == s.queue
             r == Append(q, c)
  <2>1. /\ DOMAIN r = 1..Len(q) + 1 /\ DOMAIN q = 1..Len(q) /\ Len(q) \in Nat
        /\ \A i \in 1..Len(q) : r[i] = q[i]
        /\ r[Len(q) + 1] = c
    BY <1>2
  <2> HIDE DEF q, r
  <2>2. Range(r) \subseteq Range(q) \cup {c}
    BY <2>1 DEF Range
  <2>3. Range(q) \subseteq Range(r)
    BY <2>1 DEF Range
  <2>4. c \in Range(r)
    <3>1. Len(q) + 1 \in DOMAIN r
      BY <2>1
    <3> QED
      BY <2>1, <3>1 DEF Range
  <2> QED
    BY <2>2, <2>3, <2>4 DEF q, r
<1>4. ASSUME Orderly(s), c \notin s.answered \cup s.scheduled, s.pendingResults[c] = NoResult
      PROVE  Orderly(u)
  <2>1. c \notin Range(s.queue) /\ s.active # c
    BY <1>4, NamesAssumption DEF Orderly
  <2>2. \A i, j \in DOMAIN u.queue : i # j => u.queue[i] # u.queue[j]
    BY <1>1, <1>2, <1>4, <2>1 DEF Orderly, Range
  <2> HIDE DEF u
  <2> QED
    BY <1>1, <1>3, <1>4, <2>1, <2>2 DEF Orderly
<1>5. Schedule(s, c) = StartNext(u)
  BY DEF Schedule
<1> QED
  <2> HIDE DEF u
  <2> QED
    <3> DEFINE t == StartNext(u)
    <3>1. /\ t \in RunnerStates
          /\ t.answered = u.answered /\ t.pendingResults = u.pendingResults
          /\ t.recovered = u.recovered /\ t.pendingAsk = u.pendingAsk
          /\ t.confirmations = u.confirmations /\ t.toolUses = u.toolUses
          /\ Range(t.queue) \subseteq Range(u.queue) /\ t.scheduled \subseteq u.scheduled
          /\ u.active # NoCall => t = u
          /\ u.active = NoCall => t.active \in {NoCall} \cup (Range(u.queue) \ u.answered)
          /\ Orderly(u) => Orderly(t)
      BY <1>1, StartNextEffect
    <3> HIDE DEF t
    <3>2. Range(u.queue) = Range(s.queue) \cup {c}
      BY <1>1, <1>3
    <3>3. s.active # NoCall => t.active = s.active
      BY <1>1, <3>1
    <3>4. s.active = NoCall => t.active \in {NoCall} \cup ((Range(s.queue) \cup {c}) \ s.answered)
      BY <1>1, <3>1, <3>2
    <3>5. Schedule(s, c) = t
      BY <1>5 DEF t
    <3> QED
      BY <1>1, <1>4, <3>1, <3>2, <3>3, <3>4, <3>5

\* The call that was executed is no longer scheduled; nothing else changes.
LEMMA ClearActiveEffect ==
  ASSUME NEW s \in RunnerStates
  PROVE  LET t == ClearActive(s)
         IN /\ t \in RunnerStates /\ t.active = NoCall
            /\ t.answered = s.answered /\ t.pendingResults = s.pendingResults
            /\ t.recovered = s.recovered /\ t.pendingAsk = s.pendingAsk
            /\ t.confirmations = s.confirmations /\ t.toolUses = s.toolUses
            /\ t.queue = s.queue /\ t.scheduled = s.scheduled \ {s.active}
            /\ Orderly(s) => Orderly(t)
<1>1. /\ ClearActive(s) \in RunnerStates /\ ClearActive(s).active = NoCall
      /\ ClearActive(s).answered = s.answered /\ ClearActive(s).pendingResults = s.pendingResults
      /\ ClearActive(s).recovered = s.recovered /\ ClearActive(s).pendingAsk = s.pendingAsk
      /\ ClearActive(s).confirmations = s.confirmations /\ ClearActive(s).toolUses = s.toolUses
      /\ ClearActive(s).queue = s.queue /\ ClearActive(s).scheduled = s.scheduled \ {s.active}
  BY DEF ClearActive, RunnerStates
<1>2. Range(s.queue) \subseteq Calls
  BY DEF RunnerStates, Range
<1> QED
  BY <1>1, <1>2, NamesAssumption DEF Orderly

-----------------------------------------------------------------------------
(* Interrupts                                                              *)

\* An interrupt settles the calls it hits: they are answered, and not queued.
LEMMA HandleInterruptEffect ==
  ASSUME NEW s \in RunnerStates, NEW thread, NEW eligible \in SUBSET Calls
  PROVE  LET t == HandleInterrupt(s, thread, eligible)
             hit == Interrupted(s, thread, eligible)
         IN /\ hit \in SUBSET Calls
            /\ hit \subseteq ({s.active} \cup Range(s.queue) \cup s.toolUses)
            /\ \A c \in hit : Matches(c, thread)
            /\ t \in RunnerStates
            /\ t.answered = s.answered \cup hit /\ t.recovered = s.recovered \ hit
            /\ t.pendingAsk = s.pendingAsk \ hit /\ t.toolUses = s.toolUses \ hit
            /\ \A c \in Calls : t.pendingResults[c] = IF c \in hit THEN NoResult ELSE s.pendingResults[c]
            /\ t.confirmations = s.confirmations /\ t.active = s.active
            /\ Range(t.queue) = {c \in Range(s.queue) : ~(c \in eligible /\ Matches(c, thread))}
            /\ t.scheduled = s.scheduled \ hit
            /\ Orderly(s) => Orderly(t)
<1> DEFINE hit == Interrupted(s, thread, eligible)
           out == {c \in eligible : Matches(c, thread)}
           q == Without(s.queue, out)
           u == [s EXCEPT !.queue = q, !.scheduled = @ \ hit]
<1>1. s.queue \in Seq(Calls) /\ Range(s.queue) \subseteq Calls
  BY DEF RunnerStates, Range
<1>2. hit \in SUBSET Calls /\ hit \subseteq ({s.active} \cup Range(s.queue) \cup s.toolUses)
      /\ \A c \in hit : Matches(c, thread)
  BY <1>1 DEF Interrupted, RunnerStates
<1>3. /\ q \in Seq(Calls) /\ Range(q) = Range(s.queue) \ out
      /\ (\A i, j \in DOMAIN s.queue : i # j => s.queue[i] # s.queue[j]) =>
            \A i, j \in DOMAIN q : i # j => q[i] # q[j]
  BY <1>1, WithoutEffect
<1>4. hit \subseteq out
  BY DEF Interrupted
<1>5. HandleInterrupt(s, thread, eligible) = MarkAllAnswered(u, hit)
  BY DEF HandleInterrupt
<1>6. Range(s.queue) \ out = {c \in Range(s.queue) : ~(c \in eligible /\ Matches(c, thread))}
  OBVIOUS
<1> HIDE DEF q, hit, out
<1>7. /\ u \in RunnerStates
      /\ u.answered = s.answered /\ u.pendingResults = s.pendingResults
      /\ u.recovered = s.recovered /\ u.pendingAsk = s.pendingAsk
      /\ u.confirmations = s.confirmations /\ u.toolUses = s.toolUses
      /\ u.queue = q /\ u.scheduled = s.scheduled \ hit /\ u.active = s.active
  BY <1>3 DEF RunnerStates
<1> HIDE DEF u
<1> DEFINE t == MarkAllAnswered(u, hit)
<1>8. /\ t \in RunnerStates
      /\ t.answered = s.answered \cup hit /\ t.recovered = s.recovered \ hit
      /\ t.pendingAsk = s.pendingAsk \ hit /\ t.toolUses = s.toolUses \ hit
      /\ \A c \in Calls : t.pendingResults[c] = IF c \in hit THEN NoResult ELSE s.pendingResults[c]
      /\ t.confirmations = s.confirmations
      /\ t.scheduled = s.scheduled \ hit /\ t.queue = q /\ t.active = s.active
  BY <1>2, <1>7, MarkAllAnsweredEffect
<1> HIDE DEF t
<1>9. Orderly(s) => Orderly(t)
  <2> HAVE Orderly(s)
  <2>1. t.recovered \subseteq Calls /\ t.scheduled \subseteq Calls /\ t.answered \subseteq Calls
    BY <1>8 DEF RunnerStates
  <2>2. ASSUME NEW c \in t.scheduled \ t.answered PROVE c \in Range(t.queue) \cup {t.active}
    <3>1. c \in s.scheduled /\ c \notin s.answered /\ c \notin hit /\ c # NoCall
      BY <1>8, <2>1, <2>2, NamesAssumption
    <3>2. c \in Range(s.queue) \cup {s.active}
      BY <2>2, <3>1 DEF Orderly
    <3>3. c \in Range(s.queue) => c \notin out
      BY <3>1 DEF hit, out, Interrupted
    <3> QED
      BY <1>3, <1>8, <3>2, <3>3
  <2> QED
    BY <1>3, <1>4, <1>8, <2>1, <2>2 DEF Orderly
<1> QED
  BY <1>2, <1>3, <1>5, <1>6, <1>8, <1>9 DEF t, hit

-----------------------------------------------------------------------------
(* What keeps a state orderly                                              *)

\* What a method leaves of the calls it leaves orderly.
LEMMA SameCallsOrderly ==
  ASSUME NEW s, NEW t, SameCalls(s, t), Orderly(s) PROVE Orderly(t)
BY DEF SameCalls, Orderly

\* An answered call need not leave the queue: what is queued stays scheduled.
LEMMA MarkAllAnsweredOrderly ==
  ASSUME NEW s \in RunnerStates, NEW S \in SUBSET Calls, Orderly(s)
  PROVE  Orderly(MarkAllAnswered(s, S))
<1> DEFINE t == MarkAllAnswered(s, S)
<1>1. /\ t \in RunnerStates
      /\ t.answered = s.answered \cup S /\ t.recovered = s.recovered \ S
      /\ \A c \in Calls : t.pendingResults[c] = IF c \in S THEN NoResult ELSE s.pendingResults[c]
      /\ t.scheduled = s.scheduled /\ t.queue = s.queue /\ t.active = s.active
  BY MarkAllAnsweredEffect
<1>2. t.recovered \subseteq Calls /\ t.scheduled \subseteq Calls /\ t.answered \subseteq Calls
  BY <1>1 DEF RunnerStates
<1> HIDE DEF t
<1>3. Orderly(t)
  BY <1>1, <1>2 DEF Orderly
<1> QED
  BY <1>3 DEF t

\* A recovered result is dropped together with the mark that holds it back.
LEMMA ReconcileRecoveredOrderly ==
  ASSUME NEW s \in RunnerStates, Orderly(s)
  PROVE  Orderly(ReconcileRecoveredResults(s))
<1> DEFINE t == ReconcileRecoveredResults(s)
<1>1. /\ t \in RunnerStates /\ t.answered = s.answered
      /\ t.scheduled = s.scheduled /\ t.queue = s.queue /\ t.active = s.active
      /\ t.recovered \subseteq s.recovered \ StaleRecovered(s)
      /\ \A c \in Calls : t.pendingResults[c] =
           IF c \in StaleRecovered(s) THEN NoResult ELSE s.pendingResults[c]
  BY ReconcileRecoveredEffect
<1>2. t.recovered \subseteq Calls /\ t.scheduled \subseteq Calls /\ t.answered \subseteq Calls
  BY <1>1 DEF RunnerStates
<1> HIDE DEF t
<1>3. Orderly(t)
  BY <1>1, <1>2 DEF Orderly
<1> QED
  BY <1>3 DEF t
-----------------------------------------------------------------------------
(* What sets the idle timer                                                *)

\* The idle timer runs, or will as soon as nothing is open.
TimerSet(s) == s.armed \/ s.armPending

\* maybeArmPendingIdle starts only a timer that was put off; disarmIdle leaves none.
LEMMA IdleTimer ==
  ASSUME NEW s \in RunnerStates
  PROVE  /\ TimerSet(MaybeArmPendingIdle(s)) => TimerSet(s)
         /\ ~TimerSet(DisarmIdle(s))
BY DEF MaybeArmPendingIdle, DisarmIdle, TimerSet, RunnerStates

\* Observing an event, before its kind is looked at, does not touch the timer.
LEMMA ObserveTimer ==
  ASSUME NEW s \in RunnerStates, NEW e
  PROVE  TimerSet(ObserveSessionState(s, e)) => TimerSet(s)
<1>1. ASSUME NEW c PROVE ObserveToolUse(s, c).armed = s.armed /\ ObserveToolUse(s, c).armPending = s.armPending
  <2> DEFINE seen == [s EXCEPT !.sessionToolUses = @ \cup {c}, !.sinceStatus = @ \cup {c}]
             cand == IF s.fallbackAllowed THEN s.candidates \cup {c} ELSE s.candidates
             noted == [seen EXCEPT !.toolUses = @ \cup {c}, !.mapped = @ \cup {c}, !.candidates = cand]
  <2>1. seen.armed = s.armed /\ seen.armPending = s.armPending /\ noted.armed = s.armed
        /\ noted.armPending = s.armPending /\ seen.candidates = s.candidates
    <3> HIDE DEF cand
    <3> QED
      BY DEF RunnerStates
  <2>2. ObserveToolUse(s, c) \in {seen, noted}
    BY <2>1 DEF ObserveToolUse
  <2> HIDE DEF seen, noted
  <2> QED
    BY <2>1, <2>2
<1>2. ASSUME NEW refs
      PROVE  ObserveRequiresAction(s, refs).armed = s.armed
             /\ ObserveRequiresAction(s, refs).armPending = s.armPending
  <2> DEFINE ids == refs \cup {c \in s.mapped : EventId(c) \in refs}
             open == s.toolUses \ s.answered
             t == [s EXCEPT !.known = TRUE, !.blocking = ids, !.pendingBlocking = @ \cup ids,
                            !.fallbackAllowed = TRUE, !.candidates = open, !.sinceStatus = {}]
  <2>1. ObserveRequiresAction(s, refs) = t
    BY DEF ObserveRequiresAction
  <2> HIDE DEF ids, open
  <2> QED
    BY <2>1 DEF RunnerStates
<1>3. ObserveEndTurn(s).armed = s.armed /\ ObserveEndTurn(s).armPending = s.armPending
  BY DEF ObserveEndTurn, RunnerStates
<1>4. ObserveRunning(s).armed = s.armed /\ ObserveRunning(s).armPending = s.armPending
  BY DEF ObserveRunning, RunnerStates
<1> QED
  BY <1>1, <1>2, <1>3, <1>4 DEF ObserveSessionState, TimerSet

\* Reconciling what the session waits for sets no timer.
LEMMA ReconcileTimer ==
  ASSUME NEW s \in RunnerStates
  PROVE  /\ TimerSet(ReconcileUnmatchedRequiresAction(s)) => TimerSet(s)
         /\ TimerSet(ReconcileRecoveredResults(s)) => TimerSet(s)
<1>1. TimerSet(ReconcileUnmatchedRequiresAction(s)) => TimerSet(s)
  <2> DEFINE t == [s EXCEPT !.fallback = @ \cup s.candidates]
  <2>1. t.armed = s.armed /\ t.armPending = s.armPending
    BY DEF RunnerStates
  <2>2. ReconcileUnmatchedRequiresAction(s) \in {s, t}
    BY DEF ReconcileUnmatchedRequiresAction
  <2> HIDE DEF t
  <2> QED
    BY <2>1, <2>2 DEF TimerSet
<1>2. TimerSet(ReconcileRecoveredResults(s)) => TimerSet(s)
  <2> DEFINE stale == StaleRecovered(s)
             validated == {c \in s.recovered : IsBlockingToolUse(s, c) /\ c \in s.sessionToolUses}
             pend == [c \in Calls |-> IF c \in stale THEN NoResult ELSE s.pendingResults[c]]
             rec == s.recovered \ (stale \cup validated)
             u == [s EXCEPT !.recovered = rec, !.pendingResults = pend]
  <2>1. ReconcileRecoveredResults(s) \in {s, MaybeArmPendingIdle(u)}
    BY DEF ReconcileRecoveredResults
  <2>2. pend \in [Calls -> Results \cup {NoResult}] /\ rec \in SUBSET Calls
    BY DEF RunnerStates
  <2>3. u \in RunnerStates /\ u.armed = s.armed /\ u.armPending = s.armPending
    <3> HIDE DEF pend, rec
    <3> QED
      BY <2>2 DEF RunnerStates
  <2> HIDE DEF u
  <2> QED
    BY <2>1, <2>3, IdleTimer DEF TimerSet
<1> QED
  BY <1>1, <1>2

\* Answering calls starts the timer only if it was put off.
LEMMA MarkAllAnsweredTimer ==
  ASSUME NEW s \in RunnerStates, NEW S \in SUBSET Calls
  PROVE  TimerSet(MarkAllAnswered(s, S)) => TimerSet(s)
<1> DEFINE remembered == S \cap s.toolUses
           stillMapped == s.mapped \ remembered
           refs == s.pendingBlocking \ (S \cup {EventId(c) : c \in remembered})
           guessed == S \cap s.fallback # {}
           pb == IF guessed THEN refs \cap {EventId(c) : c \in stillMapped} ELSE refs
           cand == IF guessed THEN {} ELSE s.candidates
           pend == [c \in Calls |-> IF c \in S THEN NoResult ELSE s.pendingResults[c]]
           u == [s EXCEPT !.answered = @ \cup S, !.pendingResults = pend,
                          !.recovered = @ \ S, !.pendingAsk = @ \ S, !.external = @ \ S,
                          !.fallback = @ \ S, !.mapped = stillMapped, !.toolUses = @ \ S,
                          !.candidates = cand, !.pendingBlocking = pb]
<1>1. pb \in SUBSET Refs /\ cand \in SUBSET Calls /\ stillMapped \in SUBSET Calls
  BY DEF RunnerStates
<1>2. pend \in [Calls -> Results \cup {NoResult}]
  BY DEF RunnerStates
<1>3. MarkAllAnswered(s, S) = MaybeArmPendingIdle(u)
  BY DEF MarkAllAnswered
<1>4. u \in RunnerStates /\ u.armed = s.armed /\ u.armPending = s.armPending
  <2> HIDE DEF pb, cand, pend, stillMapped
  <2> QED
    BY <1>1, <1>2 DEF RunnerStates
<1> HIDE DEF u
<1> QED
  BY <1>3, <1>4, IdleTimer DEF TimerSet

\* The execution queue does not touch the timer.
LEMMA QueueTimer ==
  ASSUME NEW s \in RunnerStates, NEW c \in Calls
  PROVE  /\ TimerSet(StartNext(s)) => TimerSet(s)
         /\ TimerSet(Schedule(s, c)) => TimerSet(s)
         /\ TimerSet(ClearActive(s)) => TimerSet(s)
<1>1. ASSUME NEW w, w \in RunnerStates PROVE StartNext(w).armed = w.armed /\ StartNext(w).armPending = w.armPending
  <2> DEFINE alive == {i \in DOMAIN w.queue : w.queue[i] \notin w.answered}
             next == CHOOSE i \in alive : \A j \in alive : i <= j
             dropped == {w.queue[j] : j \in {j \in DOMAIN w.queue : alive = {} \/ j < next}}
             active == IF alive = {} THEN NoCall ELSE w.queue[next]
             queue == IF alive = {} THEN <<>> ELSE SubSeq(w.queue, next + 1, Len(w.queue))
             t == [w EXCEPT !.scheduled = @ \ dropped, !.active = active, !.queue = queue]
  <2>1. StartNext(w) \in {w, t}
    BY DEF StartNext
  <2>2. t.armed = w.armed /\ t.armPending = w.armPending
    <3> HIDE DEF dropped, active, queue
    <3> QED
      BY <1>1 DEF RunnerStates
  <2> HIDE DEF t
  <2> QED
    BY <2>1, <2>2
<1>2. TimerSet(Schedule(s, c)) => TimerSet(s)
  <2> DEFINE q == Append(s.queue, c)
             u == [s EXCEPT !.scheduled = @ \cup {c}, !.queue = q]
  <2>1. u \in RunnerStates /\ u.armed = s.armed /\ u.armPending = s.armPending
    <3>1. q \in Seq(Calls)
      BY DEF RunnerStates
    <3> HIDE DEF q
    <3> QED
      BY <3>1 DEF RunnerStates
  <2>2. Schedule(s, c) = StartNext(u)
    BY DEF Schedule
  <2> HIDE DEF u
  <2> QED
    BY <1>1, <2>1, <2>2 DEF TimerSet
<1>3. TimerSet(ClearActive(s)) => TimerSet(s)
  BY DEF ClearActive, TimerSet, RunnerStates
<1> QED
  BY <1>1, <1>2, <1>3 DEF TimerSet

\* An interrupt starts the timer only if it was put off.
LEMMA HandleInterruptTimer ==
  ASSUME NEW s \in RunnerStates, NEW thread, NEW eligible \in SUBSET Calls
  PROVE  TimerSet(HandleInterrupt(s, thread, eligible)) => TimerSet(s)
<1> DEFINE hit == Interrupted(s, thread, eligible)
           q == Without(s.queue, {c \in eligible : Matches(c, thread)})
           u == [s EXCEPT !.queue = q, !.scheduled = @ \ hit]
<1>1. s.queue \in Seq(Calls)
  BY DEF RunnerStates
<1>2. hit \in SUBSET Calls /\ q \in Seq(Calls)
  BY <1>1, WithoutEffect, HandleInterruptEffect
<1>3. HandleInterrupt(s, thread, eligible) = MarkAllAnswered(u, hit)
  BY DEF HandleInterrupt
<1> HIDE DEF q, hit
<1>4. u \in RunnerStates /\ u.armed = s.armed /\ u.armPending = s.armPending
  BY <1>2 DEF RunnerStates
<1> HIDE DEF u
<1> QED
  BY <1>2, <1>3, <1>4, MarkAllAnsweredTimer DEF TimerSet

-----------------------------------------------------------------------------
(* What the session waits for                                              *)

\* The fields that whether the session waits for a call depends on.
SameAwaits(s, t) ==
  /\ t.sessionToolUses = s.sessionToolUses
  /\ t.sinceStatus = s.sinceStatus /\ t.blocking = s.blocking

\* Only observeSessionState changes what the session waits for: the methods of the idle
\* timer do not, ...
LEMMA IdleAwaits ==
  ASSUME NEW s \in RunnerStates
  PROVE  \A t \in {ArmIdle(s), DisarmIdle(s), MaybeArmPendingIdle(s)} : SameAwaits(s, t)
<1> DEFINE Timer(a, p) == [s EXCEPT !.armPending = p, !.armed = a]
<1>1. \A a, p : SameAwaits(s, Timer(a, p))
  BY DEF RunnerStates, SameAwaits
<1>2. SameAwaits(s, s)
  BY DEF SameAwaits
<1>3. /\ ArmIdle(s) \in {s, Timer(~HasIdleBlockers(s), HasIdleBlockers(s))}
      /\ DisarmIdle(s) = Timer(FALSE, FALSE)
      /\ MaybeArmPendingIdle(s) \in {s, Timer(TRUE, FALSE)}
  BY DEF ArmIdle, DisarmIdle, MaybeArmPendingIdle
<1> QED
  <2> HIDE DEF Timer
  <2> QED
    BY <1>1, <1>2, <1>3

\* ... nor does an event that is noted for the timer, ...
LEMMA NoteIdleAwaits ==
  ASSUME NEW s \in RunnerStates, NEW e
  PROVE  SameAwaits(s, NoteIdleEvent(s, e))
BY IdleAwaits DEF NoteIdleEvent, SameAwaits

\* ... nor markAnswered, ...
LEMMA MarkAllAnsweredAwaits ==
  ASSUME NEW s \in RunnerStates, NEW S \in SUBSET Calls
  PROVE  SameAwaits(s, MarkAllAnswered(s, S))
<1> DEFINE remembered == S \cap s.toolUses
           stillMapped == s.mapped \ remembered
           refs == s.pendingBlocking \ (S \cup {EventId(c) : c \in remembered})
           guessed == S \cap s.fallback # {}
           pb == IF guessed THEN refs \cap {EventId(c) : c \in stillMapped} ELSE refs
           cand == IF guessed THEN {} ELSE s.candidates
           pend == [c \in Calls |-> IF c \in S THEN NoResult ELSE s.pendingResults[c]]
           u == [s EXCEPT !.answered = @ \cup S, !.pendingResults = pend,
                          !.recovered = @ \ S, !.pendingAsk = @ \ S, !.external = @ \ S,
                          !.fallback = @ \ S, !.mapped = stillMapped, !.toolUses = @ \ S,
                          !.candidates = cand, !.pendingBlocking = pb]
<1>1. pb \in SUBSET Refs /\ cand \in SUBSET Calls /\ stillMapped \in SUBSET Calls
  BY DEF RunnerStates
<1>2. pend \in [Calls -> Results \cup {NoResult}]
  BY DEF RunnerStates
<1>3. MarkAllAnswered(s, S) = MaybeArmPendingIdle(u)
  BY DEF MarkAllAnswered
<1>4. u \in RunnerStates /\ SameAwaits(s, u)
  <2> HIDE DEF pb, cand, pend, stillMapped
  <2> QED
    BY <1>1, <1>2 DEF RunnerStates, SameAwaits
<1>5. SameAwaits(u, MaybeArmPendingIdle(u))
  <2> HIDE DEF u
  <2> QED
    BY <1>4, IdleAwaits
<1> QED
  BY <1>3, <1>4, <1>5 DEF SameAwaits

\* ... nor a confirmation or a fallback, ...
LEMMA KnownAwaits ==
  ASSUME NEW s \in RunnerStates, NEW c, NEW v
  PROVE  /\ SameAwaits(s, RecordConfirmation(s, c, v))
         /\ SameAwaits(s, ReconcileUnmatchedRequiresAction(s))
<1>1. SameAwaits(s, RecordConfirmation(s, c, v))
  BY DEF RecordConfirmation, RunnerStates, SameAwaits
<1> DEFINE t == [s EXCEPT !.fallback = @ \cup s.candidates]
<1>2. SameAwaits(s, t) /\ SameAwaits(s, s)
  BY DEF RunnerStates, SameAwaits
<1>3. ReconcileUnmatchedRequiresAction(s) \in {s, t}
  BY DEF ReconcileUnmatchedRequiresAction
<1> QED
  BY <1>1, <1>2, <1>3

\* ... nor the reconciliation of what was recovered, ...
LEMMA ReconcileRecoveredAwaits ==
  ASSUME NEW s \in RunnerStates
  PROVE  SameAwaits(s, ReconcileRecoveredResults(s))
<1> DEFINE stale == StaleRecovered(s)
           validated == {c \in s.recovered : IsBlockingToolUse(s, c) /\ c \in s.sessionToolUses}
           pend == [c \in Calls |-> IF c \in stale THEN NoResult ELSE s.pendingResults[c]]
           rec == s.recovered \ (stale \cup validated)
           u == [s EXCEPT !.recovered = rec, !.pendingResults = pend]
<1>1. pend \in [Calls -> Results \cup {NoResult}] /\ rec \in SUBSET Calls
  BY DEF RunnerStates
<1>2. u \in RunnerStates /\ SameAwaits(s, u) /\ SameAwaits(s, s)
  <2> HIDE DEF pend, rec
  <2> QED
    BY <1>1 DEF RunnerStates, SameAwaits
<1>3. ReconcileRecoveredResults(s) \in {s, MaybeArmPendingIdle(u)}
  BY DEF ReconcileRecoveredResults
<1> HIDE DEF u
<1>4. SameAwaits(u, MaybeArmPendingIdle(u))
  BY <1>2, IdleAwaits
<1> QED
  BY <1>2, <1>3, <1>4 DEF SameAwaits

\* ... nor the execution queue, ...
LEMMA QueueAwaits ==
  ASSUME NEW s \in RunnerStates
  PROVE  /\ SameAwaits(s, StartNext(s)) /\ SameAwaits(s, ClearActive(s))
         /\ \A c \in Calls : SameAwaits(s, Schedule(s, c))
<1>1. ASSUME NEW r \in RunnerStates PROVE SameAwaits(r, StartNext(r))
  <2> DEFINE U(sched, act, q) == [r EXCEPT !.scheduled = sched, !.active = act, !.queue = q]
  <2>1. \A sched, act, q : SameAwaits(r, U(sched, act, q))
    BY <1>1 DEF RunnerStates, SameAwaits
  <2>2. SameAwaits(r, r)
    BY DEF SameAwaits
  <2>3. StartNext(r) = r \/ \E sched, act, q : StartNext(r) = U(sched, act, q)
    BY DEF StartNext
  <2> HIDE DEF U
  <2> QED
    BY <2>1, <2>2, <2>3
<1>2. SameAwaits(s, ClearActive(s))
  BY DEF ClearActive, RunnerStates, SameAwaits
<1>3. ASSUME NEW c \in Calls PROVE SameAwaits(s, Schedule(s, c))
  <2> DEFINE u == [s EXCEPT !.scheduled = @ \cup {c}, !.queue = Append(@, c)]
  <2>1. u \in RunnerStates /\ SameAwaits(s, u)
    <3>1. Append(s.queue, c) \in Seq(Calls)
      BY DEF RunnerStates
    <3> QED
      BY <3>1 DEF RunnerStates, SameAwaits
  <2>2. Schedule(s, c) = StartNext(u)
    BY DEF Schedule
  <2> HIDE DEF u
  <2>3. SameAwaits(u, StartNext(u))
    BY <1>1, <2>1
  <2> QED
    BY <2>1, <2>2, <2>3 DEF SameAwaits
<1> QED
  BY <1>1, <1>2, <1>3

\* ... nor an interrupt.
LEMMA HandleInterruptAwaits ==
  ASSUME NEW s \in RunnerStates, NEW thread, NEW eligible \in SUBSET Calls
  PROVE  SameAwaits(s, HandleInterrupt(s, thread, eligible))
<1> DEFINE hit == Interrupted(s, thread, eligible)
           q == Without(s.queue, {c \in eligible : Matches(c, thread)})
           u == [s EXCEPT !.queue = q, !.scheduled = @ \ hit]
<1>1. s.queue \in Seq(Calls) /\ hit \in SUBSET Calls
  BY HandleInterruptEffect DEF RunnerStates
<1>2. q \in Seq(Calls)
  BY <1>1, WithoutEffect
<1>3. HandleInterrupt(s, thread, eligible) = MarkAllAnswered(u, hit)
  BY DEF HandleInterrupt
<1> HIDE DEF q, hit
<1>4. u \in RunnerStates /\ SameAwaits(s, u)
  BY <1>2 DEF RunnerStates, SameAwaits
<1> HIDE DEF u
<1>5. SameAwaits(u, MarkAllAnswered(u, hit))
  BY <1>1, <1>4, MarkAllAnsweredAwaits
<1> QED
  BY <1>3, <1>4, <1>5 DEF SameAwaits

\* A use is remembered and counts as new until the next status, which forgets the new uses and
\* names what the session waits for: the calls a requires_action lists, or none.
LEMMA ObserveAwaits ==
  ASSUME NEW s \in RunnerStates, NEW e,
         e.type = "use" => e.call \in Calls,
         e.type = "requires_action" => e.refs \in SUBSET Refs
  PROVE  LET t == ObserveSessionState(s, e)
             used == IF e.type = "use" THEN {e.call} ELSE {}
         IN /\ t.sessionToolUses = s.sessionToolUses \cup used
            /\ e.type \notin {"requires_action", "end_turn", "running"} =>
                  t.sinceStatus = s.sinceStatus \cup used /\ t.blocking = s.blocking
            /\ e.type = "requires_action" => e.refs \subseteq t.blocking
<1>1. CASE e.type = "use"
  <2> DEFINE c == e.call
             u == [s EXCEPT !.sessionToolUses = @ \cup {c}, !.sinceStatus = @ \cup {c}]
             V(cand) == [u EXCEPT !.toolUses = @ \cup {c}, !.mapped = @ \cup {c}, !.candidates = cand]
  <2>1. u.sessionToolUses = s.sessionToolUses \cup {c} /\ u.sinceStatus = s.sinceStatus \cup {c}
        /\ u.blocking = s.blocking /\ u \in RunnerStates
    BY <1>1 DEF RunnerStates
  <2>2. ObserveToolUse(s, c) = u \/ \E cand : ObserveToolUse(s, c) = V(cand)
    <3>1. \E cand : V(cand) = [u EXCEPT !.toolUses = @ \cup {c}, !.mapped = @ \cup {c},
                                        !.candidates = IF s.fallbackAllowed THEN @ \cup {c} ELSE @]
      OBVIOUS
    <3> QED
      BY <3>1 DEF ObserveToolUse
  <2> HIDE DEF u
  <2>3. \A cand : V(cand).sessionToolUses = u.sessionToolUses /\ V(cand).sinceStatus = u.sinceStatus
                  /\ V(cand).blocking = u.blocking
    BY <2>1 DEF RunnerStates
  <2>4. ObserveSessionState(s, e) = ObserveToolUse(s, c)
    BY <1>1 DEF ObserveSessionState
  <2> HIDE DEF V
  <2> QED
    BY <1>1, <2>1, <2>2, <2>3, <2>4
<1>2. CASE e.type = "requires_action"
  <2> DEFINE ids == e.refs \cup {c \in s.mapped : EventId(c) \in e.refs}
             open == s.toolUses \ s.answered
             t == [s EXCEPT !.known = TRUE, !.blocking = ids, !.pendingBlocking = @ \cup ids,
                            !.fallbackAllowed = TRUE, !.candidates = open, !.sinceStatus = {}]
  <2>1. ObserveSessionState(s, e) = t
    BY <1>2 DEF ObserveSessionState, ObserveRequiresAction
  <2>2. e.refs \subseteq ids
    OBVIOUS
  <2>3. t.sessionToolUses = s.sessionToolUses /\ t.blocking = ids
    <3> HIDE DEF ids, open
    <3> QED
      BY DEF RunnerStates
  <2> HIDE DEF t
  <2> QED
    BY <1>2, <2>1, <2>2, <2>3
<1>3. CASE e.type = "end_turn"
  BY <1>3 DEF ObserveSessionState, ObserveEndTurn, RunnerStates
<1>4. CASE e.type = "running"
  BY <1>4 DEF ObserveSessionState, ObserveRunning, RunnerStates
<1>5. CASE e.type \notin {"use", "requires_action", "end_turn", "running"}
  BY <1>5 DEF ObserveSessionState
<1> QED
  BY <1>1, <1>2, <1>3, <1>4, <1>5

\* What was recovered is not stale while it is new, or waited for and its use remembered.
LEMMA AwaitedNotStale ==
  ASSUME NEW s \in RunnerStates, NEW c \in s.recovered,
         \/ c \in s.sinceStatus
         \/ EventId(c) \in s.blocking /\ c \in s.toolUses /\ c \in s.sessionToolUses
  PROVE  c \notin StaleRecovered(s)
BY DEF StaleRecovered, IsBlockingToolUse
=============================================================================
