---------------------------- MODULE ClientProofs ----------------------------
(***************************************************************************)
(* The client's tokens and its breaker, for every number of requests and   *)
(* resources, every life of a token and whatever fails.                    *)
(*                                                                         *)
(* IInv is inductive.  Its parts: TypeOK; LockInv (who refreshes holds the *)
(* lock); TokenInv (a token that is about to be used is valid, and stays   *)
(* so while a refresh that need not succeed goes on); BreakerInv (one      *)
(* breaker, which every batch request has); WaitInv (who has a place).     *)
(***************************************************************************)
EXTENDS Client, FiniteSetTheorems, SequenceTheorems, TLAPS

\* A request refreshes, or is about to.
Refreshes(r) == req[r].pc \in {"held", "rpc"}

LockInv ==
  /\ \A r \in Requests : Refreshes(r) => locked
  /\ \A r, s \in Requests : Refreshes(r) /\ Refreshes(s) => r = s

\* Left tells the token of a request's resource.
Left(r) == token[ResourceOf[r]]

TokenInv ==
  \A r \in Requests :
    /\ At(r, "load") => Left(r) > 0
    /\ At(r, "rpc") /\ ~req[r].must => Left(r) + req[r].took >= Mandatory

Waiting == {"waiting", "refused", "asleep"}
BatchOnly == {"lookup", "create", "enter", "passed"} \cup Waiting

BreakerInv ==
  /\ made <= 1
  /\ \A r \in Requests :
       /\ req[r].breaker \in {0, made}
       /\ mode = "batch" /\ req[r].pc \notin {"new", "lookup", "create"} => req[r].breaker > 0
       /\ mode = "do" => req[r].pc \notin BatchOnly

WaitInv == waiters.items \in Seq(Requests) /\ WaitersHavePlaces

IInv == TypeOK /\ LockInv /\ TokenInv /\ BreakerInv /\ WaitInv

-----------------------------------------------------------------------------
(* The waiters' set                                                        *)

\* A new breaker has no waiters.
LEMMA EmptyIsConsistent ==
  ASSUME NEW S
  PROVE  /\ EmptyQuerySet.items \in Seq(S) /\ Consistent(EmptyQuerySet)
         /\ DOMAIN EmptyQuerySet.index = {}
  BY DEF EmptyQuerySet, Consistent

\* Add gives the newcomer the last place, and leaves the others' as they are.
LEMMA AddEffect ==
  ASSUME NEW S, NEW qs, qs.items \in Seq(S), Consistent(qs), NEW id \in S
  PROVE  /\ Add(qs, id).items \in Seq(S) /\ Consistent(Add(qs, id))
         /\ DOMAIN Add(qs, id).index = DOMAIN qs.index \cup {id}
<1>1. CASE Has(qs, id)
  BY <1>1 DEF Add, Has
<1>2. CASE ~Has(qs, id)
  <2> DEFINE n == Len(qs.items)
             items == Append(qs.items, id)
             index == [x \in DOMAIN qs.index \cup {id} |-> IF x = id THEN n ELSE qs.index[x]]
  <2>1. Add(qs, id) = [items |-> items, index |-> index]
    BY <1>2 DEF Add
  <2>2. /\ n \in Nat /\ DOMAIN qs.items = 1..n
        /\ items \in Seq(S) /\ DOMAIN items = 1..n + 1
        /\ items[n + 1] = id /\ \A i \in 1..n : items[i] = qs.items[i]
    OBVIOUS
  <2>3. \A i \in 1..n : /\ qs.items[i] \in DOMAIN qs.index /\ qs.items[i] # id
                        /\ qs.index[qs.items[i]] = i - 1
    BY <1>2, <2>2 DEF Consistent, Has
  <2>4. DOMAIN index = DOMAIN qs.index \cup {id} /\ index[id] = n
    OBVIOUS
  <2>5. \A i \in 1..n : index[items[i]] = i - 1
    BY <2>2, <2>3
  <2>6. DOMAIN qs.index = {qs.items[i] : i \in 1..n}
    BY <2>2 DEF Consistent
  <2> HIDE DEF n, items, index
  <2>7. DOMAIN index = {items[i] : i \in DOMAIN items}
    <3>1. \A i \in 1..n + 1 : i \in 1..n \/ i = n + 1
      BY <2>2
    <3>2. 1..n \subseteq 1..n + 1 /\ n + 1 \in 1..n + 1
      BY <2>2
    <3> QED BY <2>2, <2>4, <2>6, <3>1, <3>2
  <2>8. \A i \in DOMAIN items : index[items[i]] = i - 1
    <3> TAKE i \in DOMAIN items
    <3>1. i \in 1..n \/ i = n + 1
      BY <2>2
    <3> QED BY <2>2, <2>4, <2>5, <3>1
  <2> QED BY <2>1, <2>2, <2>4, <2>7, <2>8 DEF Consistent
<1> QED BY <1>1, <1>2

\* Remove gives the place of the one that leaves to the last one, and no other moves.
LEMMA RemoveEffect ==
  ASSUME NEW S, NEW qs, qs.items \in Seq(S), Consistent(qs), NEW id \in S
  PROVE  /\ Remove(qs, id).items \in Seq(S) /\ Consistent(Remove(qs, id))
         /\ DOMAIN Remove(qs, id).index = DOMAIN qs.index \ {id}
<1>1. CASE ~Has(qs, id)
  BY <1>1 DEF Remove, Has
<1>2. CASE Has(qs, id)
  <2> DEFINE n == Len(qs.items)
             last == qs.items[n]
             k == qs.index[id] + 1
             items == [i \in 1..n - 1 |-> IF i = k THEN last ELSE qs.items[i]]
             index == [x \in DOMAIN qs.index \ {id} |->
                         IF x = last THEN qs.index[id] ELSE qs.index[x]]
  <2>1. Remove(qs, id) = [items |-> items, index |-> index]
    BY <1>2 DEF Remove
  <2>2. n \in Nat /\ DOMAIN qs.items = 1..n /\ \A i \in 1..n : qs.items[i] \in S
    OBVIOUS
  <2>3. /\ DOMAIN qs.index = {qs.items[i] : i \in 1..n}
        /\ \A i \in 1..n : qs.index[qs.items[i]] = i - 1
    BY <2>2 DEF Consistent
  <2>4. k \in 1..n /\ qs.items[k] = id
    <3>1. PICK i \in 1..n : qs.items[i] = id
      BY <1>2, <2>3 DEF Has
    <3>2. qs.index[id] = i - 1
      BY <2>3, <3>1
    <3>3. k = i
      BY <3>2
    <3> QED BY <3>1, <3>3
  <2>5. \A i, j \in 1..n : qs.items[i] = qs.items[j] => i = j
    <3> TAKE i, j \in 1..n
    <3> HAVE qs.items[i] = qs.items[j]
    <3>1. i - 1 = j - 1
      BY <2>3
    <3> QED BY <3>1
  <2>6. /\ DOMAIN items = 1..n - 1
        /\ \A i \in 1..n - 1 : items[i] = IF i = k THEN last ELSE qs.items[i]
    OBVIOUS
  <2>7. /\ DOMAIN index = DOMAIN qs.index \ {id}
        /\ \A x \in DOMAIN index : index[x] = IF x = last THEN qs.index[id] ELSE qs.index[x]
    OBVIOUS
  <2>8. n \in 1..n /\ qs.index[id] = k - 1 /\ last = qs.items[n]
    BY <2>2, <2>3, <2>4
  <2>9. items \in Seq(S)
    <3>1. \A i \in 1..n - 1 : items[i] \in S
      BY <2>2, <2>6, <2>8
    <3>2. n - 1 \in Nat
      BY <2>2, <2>8
    <3> QED BY <2>6, <3>1, <3>2
  <2> HIDE DEF n, last, k, items, index
  <2>10. \A i \in 1..n - 1 : items[i] \in DOMAIN index /\ index[items[i]] = i - 1
    <3> TAKE i \in 1..n - 1
    <3>0. i \in 1..n /\ i # n
      BY <2>2
    <3>1. CASE i = k
      <4>1. items[i] = qs.items[n] /\ n # k
        BY <2>6, <2>8, <3>0, <3>1
      <4>2. qs.items[n] # id
        BY <2>4, <2>5, <2>8, <4>1
      <4> QED BY <2>3, <2>7, <2>8, <3>1, <4>1, <4>2
    <3>2. CASE i # k
      <4>1. items[i] = qs.items[i]
        BY <2>6, <3>2
      <4>2. qs.items[i] # id /\ qs.items[i] # last
        BY <2>4, <2>5, <2>8, <3>0, <3>2
      <4> QED BY <2>3, <2>7, <3>0, <4>1, <4>2
    <3> QED BY <3>1, <3>2
  <2>11. \A x \in DOMAIN index : \E i \in 1..n - 1 : items[i] = x
    <3> TAKE x \in DOMAIN index
    <3>1. PICK j \in 1..n : qs.items[j] = x
      BY <2>3, <2>7
    <3>2. j # k
      BY <2>4, <2>7, <3>1
    <3>3. CASE j = n
      <4>1. k \in 1..n - 1
        BY <2>2, <2>4, <3>2, <3>3
      <4> QED BY <2>6, <2>8, <3>1, <3>3, <4>1
    <3>4. CASE j # n
      <4>1. j \in 1..n - 1
        BY <2>2, <3>4
      <4> QED BY <2>6, <3>1, <3>2, <4>1
    <3> QED BY <3>3, <3>4
  <2>12. DOMAIN index = {items[i] : i \in 1..n - 1}
    BY <2>10, <2>11
  <2>13. Remove(qs, id).items = items /\ Remove(qs, id).index = index
    BY <2>1
  <2>14. Consistent(Remove(qs, id))
    <3>1. DOMAIN index = {items[i] : i \in DOMAIN items}
      BY <2>6, <2>12
    <3>2. \A i \in DOMAIN items : index[items[i]] = i - 1
      BY <2>6, <2>10
    <3> QED BY <2>13, <3>1, <3>2 DEF Consistent
  <2>15. DOMAIN index = DOMAIN qs.index \ {id}
    BY <2>7
  <2> QED BY <2>9, <2>13, <2>14, <2>15
<1> QED BY <1>1, <1>2

-----------------------------------------------------------------------------
(* The types                                                               *)

\* There is a longest Retry-After.
LEMMA LongestIsLongest ==
  Longest \in RetryAfters /\ Longest \in Nat /\ \A b \in RetryAfters : b <= Longest
  BY BreakerAssumption DEF Longest

\* What a step does to the records of the requests keeps their type.
LEMMA NextReqTyped ==
  ASSUME TypeOK, Next
  PROVE  req' \in [Requests -> RequestRecords]
<1> USE DEF TypeOK
<1>0. Longest \in Nat /\ RetryAfters \subseteq 0..Longest /\ {Mandatory, RetryTimes, OpenAfter} \subseteq Nat
  BY LongestIsLongest, BreakerAssumption, TokenAssumption
<1>1. ASSUME NEW r \in Requests, NEW pc \in Pcs, Go(r, pc)
      PROVE  req' \in [Requests -> RequestRecords]
  BY <1>1 DEF Go, RequestRecords
<1>2. FirstStep \in Pcs
  BY DEF FirstStep, Pcs
<1>3. ASSUME NEW r \in Requests, NEW after \in RetryAfters, Retryable(r, after)
      PROVE  req' \in [Requests -> RequestRecords]
  <2>1. CASE mode = "do"
    <3>1. (IF MayRetry(r) THEN req[r].attempt + 1 ELSE req[r].attempt) \in 0..RetryTimes
      BY <1>0 DEF MayRetry, RequestRecords
    <3> QED BY <1>3, <2>1, <3>1 DEF Retryable, RequestRecords, Pcs
  <2>2. CASE mode # "do"
    <3>1. {1, 3} \subseteq 0..Longest + 3
      BY <1>0
    <3> QED BY <1>3, <2>2, <3>1 DEF Retryable, RequestRecords, Pcs
  <2> QED BY <2>1, <2>2
<1>4. ASSUME NEW r \in Requests, Proceeds(r)
      PROVE  req' \in [Requests -> RequestRecords]
  <2>1. CASE Start(r) \/ Answered(r) \/ Backoff(r) \/ Enter(r) \/ Pass(r) \/ Refused(r)
             \/ Wake(r) \/ Passed(r) \/ Check(r) \/ TryLock(r) \/ Lost(r) \/ Refreshed(r)
    BY <1>1, <1>2, <2>1 DEF Start, Answered, Backoff, Enter, Pass, Refused, Wake, Passed, Check,
                            TryLock, Lost, Refreshed, Pcs
  <2>2. CASE Held(r) \/ Blocked(r)
    <3>1. IsMandatory(r) \in BOOLEAN /\ 0 \in 0..Mandatory - 1
      BY <1>0, TokenAssumption DEF IsMandatory, NeedRefresh
    <3>2. CASE Go(r, "load")
      BY <1>1, <3>2 DEF Pcs
    <3>3. CASE ~Go(r, "load")
      BY <2>2, <3>1, <3>3 DEF Held, Blocked, RequestRecords, Pcs
    <3> QED BY <3>2, <3>3
  <2>3. CASE Send(r)
    <3>1. 0 \in 0..Mandatory - 1
      BY <1>0, TokenAssumption
    <3>2. [req[r] EXCEPT !.pc = "sent", !.must = FALSE, !.took = 0] \in RequestRecords
      BY <3>1 DEF RequestRecords, Pcs
    <3>3. req' = [req EXCEPT ![r] = [req[r] EXCEPT !.pc = "sent", !.must = FALSE, !.took = 0]]
      BY <2>3 DEF Send
    <3> QED BY <3>2, <3>3
  <2>4. CASE Lookup(r) \/ Create(r)
    <3>1. made \in Nat
      BY FS_CardinalityType, RequestsAssumption
    <3> QED BY <2>4, <3>1 DEF Lookup, Create, RequestRecords, Pcs
  <2>5. CASE FallAsleep(r)
    <3> DEFINE d == IF -since < 2 THEN 2 ELSE -since
    <3>1. d \in 0..Longest + 3
      BY <1>0
    <3>2. req' = [req EXCEPT ![r].pc = "asleep", ![r].sleep = d]
      BY <2>5 DEF FallAsleep
    <3> HIDE DEF d
    <3>3. [req[r] EXCEPT !.pc = "asleep", !.sleep = d] \in RequestRecords
      BY <3>1 DEF RequestRecords, Pcs
    <3>4. req' = [req EXCEPT ![r] = [req[r] EXCEPT !.pc = "asleep", !.sleep = d]]
      BY <3>2
    <3> QED BY <3>3, <3>4
  <2> QED BY <1>4, <2>1, <2>2, <2>3, <2>4, <2>5 DEF Proceeds, Refreshing, Batching
<1>5. ASSUME NEW r \in Requests, Fails(r)
      PROVE  req' \in [Requests -> RequestRecords]
  <2>1. req[r].after \in RetryAfters
    BY DEF RequestRecords
  <2> QED BY <1>1, <1>3, <1>5, <2>1 DEF Fails, RefreshFails, Throttled, Unanswered, Pcs
<1>6. ASSUME NEW r \in Requests, Cancel(r)
      PROVE  req' \in [Requests -> RequestRecords]
  BY <1>6 DEF Cancel, RequestRecords
<1>7. CASE Tick
  <2>1. \A r \in Requests : At(r, "rpc") => req[r].took + 1 \in 0..Mandatory - 1
    BY <1>0, <1>7 DEF Tick, RequestRecords
  <2> QED BY <1>7, <2>1 DEF Tick, RequestRecords
<1>8. CASE HalfSecond
  <2>1. \A r \in Requests : req[r].sleep # 0 => req[r].sleep - 1 \in 0..Longest + 3
    BY <1>0 DEF RequestRecords
  <2> QED BY <1>8, <2>1 DEF HalfSecond, RequestRecords
<1> QED BY <1>4, <1>5, <1>6, <1>7, <1>8 DEF Next

-----------------------------------------------------------------------------
(* The lock of the tokens                                                  *)

\* A step leaves the records of the other requests alone, but for the passing of time.
LEMMA OthersStay ==
  ASSUME TypeOK, NEW r \in Requests, Proceeds(r) \/ Fails(r) \/ Cancel(r)
  PROVE  \A s \in Requests : s # r => req'[s] = req[s]
  BY DEF TypeOK, Proceeds, Fails, Cancel, Refreshing, Batching, Start, Send, Answered, Backoff, Check,
         TryLock, Lost, Held, Blocked, Refreshed, Lookup, Create, Enter, Pass, Refused, FallAsleep,
         Wake, Passed, RefreshFails, Throttled, Unanswered, Retryable, Go

\* Time changes the place of no request.
LEMMA TimeMovesNone ==
  ASSUME TypeOK, Tick \/ HalfSecond
  PROVE  \A r \in Requests : /\ req'[r].pc = req[r].pc /\ req'[r].must = req[r].must
                             /\ req'[r].breaker = req[r].breaker
  BY DEF TypeOK, RequestRecords, Tick, HalfSecond

\* Cancel moves no request, and neither does what it says of the token or the breaker.
LEMMA CancelMovesNone ==
  ASSUME TypeOK, NEW r \in Requests, Cancel(r)
  PROVE  /\ req'[r].pc = req[r].pc /\ req'[r].must = req[r].must
         /\ req'[r].took = req[r].took /\ req'[r].breaker = req[r].breaker
  BY DEF TypeOK, RequestRecords, Cancel

\* Only the steps of refresh lead to the token.
LEMMA NotToTheToken ==
  ASSUME TypeOK, NEW r \in Requests,
         \/ Start(r) \/ Answered(r) \/ Backoff(r) \/ Send(r) \/ Batching(r)
         \/ Throttled(r) \/ Unanswered(r)
  PROVE  req'[r].pc \notin {"held", "rpc", "load"}
<1>0. req[r] \in RequestRecords /\ req \in [Requests -> RequestRecords] /\ FirstStep \in {"check", "sent"}
  BY DEF TypeOK, FirstStep
<1>1. ASSUME NEW pc, Go(r, pc)
      PROVE  req'[r].pc = pc
  BY <1>0, <1>1 DEF Go, RequestRecords
<1>2. CASE Start(r)
  BY <1>0, <1>1, <1>2 DEF Start
<1>3. CASE Answered(r) \/ Backoff(r) \/ Passed(r) \/ Enter(r) \/ Pass(r) \/ Refused(r) \/ Wake(r)
  BY <1>0, <1>1, <1>3 DEF Answered, Backoff, Passed, Enter, Pass, Refused, Wake
<1>4. CASE Send(r) \/ FallAsleep(r) \/ Lookup(r) \/ Create(r)
  BY <1>0, <1>4 DEF Send, FallAsleep, Lookup, Create, RequestRecords
<1>5. CASE Throttled(r) \/ Unanswered(r)
  <2>1. PICK after : Retryable(r, after)
    BY <1>5 DEF Throttled, Unanswered
  <2> QED BY <1>0, <2>1 DEF Retryable, RequestRecords
<1> QED BY <1>2, <1>3, <1>4, <1>5 DEF Batching

\* Who refreshes holds the lock, and it is one.
LEMMA NextLockInv ==
  ASSUME TypeOK, LockInv, Next
  PROVE  LockInv'
<1> USE DEF LockInv, Refreshes
<1>1. CASE Tick \/ HalfSecond
  <2>1. locked' = locked
    BY <1>1 DEF Tick, HalfSecond, tokens
  <2> QED BY <1>1, <2>1, TimeMovesNone
<1>2. ASSUME NEW r \in Requests, Proceeds(r) \/ Fails(r) \/ Cancel(r)
      PROVE  LockInv'
  <2>1. \A s \in Requests : s # r => req'[s] = req[s]
    BY <1>2, OthersStay
  <2>2. CASE (TryLock(r) \/ Blocked(r)) /\ ~locked
    <3>1. locked' \/ req'[r].pc = "load"
      BY <2>2 DEF TypeOK, RequestRecords, TryLock, Blocked, Go
    <3> QED BY <2>1, <2>2, <3>1
  <2>3. CASE Held(r) \/ Refreshed(r) \/ RefreshFails(r)
    <3>1. Refreshes(r)
      BY <2>3 DEF Held, Refreshed, RefreshFails, At
    <3>2. \A s \in Requests : s # r => req'[s].pc \notin {"held", "rpc"}
      BY <2>1, <3>1
    <3>3. req'[r].pc \notin {"held", "rpc"} \/ locked' = locked
      BY <2>3 DEF TypeOK, RequestRecords, Held, Refreshed, RefreshFails, Retryable, Go
    <3> QED BY <3>1, <3>2, <3>3
  <2>4. CASE TryLock(r) /\ locked
    <3>1. locked' /\ req'[r].pc = "lost"
      BY <2>4 DEF TypeOK, RequestRecords, TryLock, Go
    <3> QED BY <2>1, <2>4, <3>1
  <2>5. CASE Cancel(r)
    <3>1. locked' = locked
      BY <2>5 DEF Cancel, tokens
    <3> QED BY <2>1, <2>5, <3>1, CancelMovesNone
  <2>6. CASE Start(r) \/ Answered(r) \/ Backoff(r) \/ Check(r) \/ Lost(r) \/ Send(r)
             \/ Batching(r) \/ Throttled(r) \/ Unanswered(r)
    <3>1. locked' = locked
      BY <2>6 DEF Start, Answered, Backoff, Check, Lost, Send, Batching, Lookup, Create, Enter, Pass,
                  Refused, FallAsleep, Wake, Passed, Throttled, Unanswered, tokens
    <3>2. req'[r].pc \notin {"held", "rpc"}
      <4>1. CASE Check(r) \/ Lost(r)
        BY <4>1 DEF TypeOK, RequestRecords, Check, Lost, Go
      <4> QED BY <2>6, <4>1, NotToTheToken
    <3> QED BY <2>1, <3>1, <3>2
  <2>7. Blocked(r) => ~locked
    BY DEF Blocked
  <2> QED BY <1>2, <2>2, <2>3, <2>4, <2>5, <2>6, <2>7 DEF Proceeds, Fails, Refreshing
<1> QED BY <1>1, <1>2 DEF Next

-----------------------------------------------------------------------------
(* The token                                                               *)

\* The token of a request that is about to go out is valid; while a refresh that may fail
\* without harm goes on, the token it began with does not run out.
LEMMA NextTokenInv ==
  ASSUME TypeOK, LockInv, TokenInv, Next
  PROVE  TokenInv'
<1> USE DEF Left, At
<1>0. /\ {Mandatory, Advisory, Life} \subseteq Nat /\ 1 < Mandatory /\ Mandatory < Advisory /\ Advisory <= Life
      /\ token \in [Resources -> 0..Life]
      /\ ResourceOf \in [Requests -> Resources]
  BY TokenAssumption, RequestsAssumption DEF TypeOK
<1>1. CASE HalfSecond
  <2>1. token' = token
    BY <1>1 DEF HalfSecond, tokens
  <2>2. \A r \in Requests : req'[r].took = req[r].took
    BY <1>1 DEF HalfSecond, TypeOK, RequestRecords
  <2> QED BY <1>1, <2>1, <2>2, TimeMovesNone DEF TokenInv
<1>2. CASE Tick
  <2> SUFFICES ASSUME NEW r \in Requests
               PROVE  /\ req'[r].pc = "load" => token'[ResourceOf[r]] > 0
                      /\ req'[r].pc = "rpc" /\ ~req'[r].must
                           => token'[ResourceOf[r]] + req'[r].took >= Mandatory
    BY DEF TokenInv
  <2>1. req'[r].pc = req[r].pc /\ req'[r].must = req[r].must
    BY <1>2, TimeMovesNone
  <2>2. req[r].pc # "load"
    BY <1>2 DEF Tick
  <2>3. ASSUME req[r].pc = "rpc", ~req[r].must
        PROVE  token'[ResourceOf[r]] + req'[r].took >= Mandatory
    <3>1. req'[r].took = req[r].took + 1 /\ req[r].took < Mandatory - 1 /\ req[r].took \in Nat
      BY <1>0, <1>2, <2>3 DEF Tick, TypeOK, RequestRecords
    <3>2. token[ResourceOf[r]] + req[r].took >= Mandatory
      BY <2>3 DEF TokenInv
    <3>3. token[ResourceOf[r]] \in Nat /\ token[ResourceOf[r]] > 0
      BY <1>0, <3>1, <3>2
    <3>4. token'[ResourceOf[r]] = token[ResourceOf[r]] - 1
      BY <1>0, <1>2, <3>3 DEF Tick
    <3> QED BY <1>0, <3>1, <3>2, <3>3, <3>4
  <2> QED BY <2>1, <2>2, <2>3
<1>3. ASSUME NEW r \in Requests, Proceeds(r) \/ Fails(r) \/ Cancel(r)
      PROVE  TokenInv'
  <2>1. \A s \in Requests : s # r => req'[s] = req[s]
    BY <1>3, OthersStay
  <2>2. \A s \in Requests : token'[ResourceOf[s]] >= token[ResourceOf[s]]
    <3>1. CASE Refreshed(r)
      BY <1>0, <3>1 DEF Refreshed
    <3>2. CASE ~Refreshed(r)
      <4>1. token' = token
        BY <1>3, <3>2 DEF Proceeds, Fails, Cancel, Refreshing, Batching, Start, Send, Answered, Backoff,
             Check, TryLock, Lost, Held, Blocked, Lookup, Create, Enter, Pass, Refused, FallAsleep, Wake,
             Passed, RefreshFails, Throttled, Unanswered, tokens
      <4> QED BY <1>0, <4>1
    <3> QED BY <3>1, <3>2
  <2>3. \A s \in Requests : token'[ResourceOf[s]] \in Nat /\ token[ResourceOf[s]] \in Nat
    <3>1. CASE Refreshed(r)
      BY <1>0, <3>1 DEF Refreshed
    <3>2. CASE ~Refreshed(r)
      <4>1. token' = token
        BY <1>3, <3>2 DEF Proceeds, Fails, Cancel, Refreshing, Batching, Start, Send, Answered, Backoff,
             Check, TryLock, Lost, Held, Blocked, Lookup, Create, Enter, Pass, Refused, FallAsleep, Wake,
             Passed, RefreshFails, Throttled, Unanswered, tokens
      <4> QED BY <1>0, <4>1
    <3> QED BY <3>1, <3>2
  <2>4. \A s \in Requests : req[s].took \in Nat
    BY <1>0 DEF TypeOK, RequestRecords
  <2>5. \A s \in Requests : s # r =>
          /\ req'[s].pc = "load" => token'[ResourceOf[s]] > 0
          /\ req'[s].pc = "rpc" /\ ~req'[s].must => token'[ResourceOf[s]] + req'[s].took >= Mandatory
    BY <1>0, <2>1, <2>2, <2>3, <2>4 DEF TokenInv
  <2>6. /\ req'[r].pc = "load" => token'[ResourceOf[r]] > 0
        /\ req'[r].pc = "rpc" /\ ~req'[r].must => token'[ResourceOf[r]] + req'[r].took >= Mandatory
    <3>1. CASE Check(r) \/ Lost(r) \/ Held(r) \/ Blocked(r)
      <4>1. req'[r].pc = "load" => token[ResourceOf[r]] > 0
        BY <1>0, <2>3, <3>1 DEF Check, Lost, Held, Blocked, NeedRefresh, StillDue, TypeOK, RequestRecords, Go
      <4>2. req'[r].pc = "rpc" /\ ~req'[r].must => token[ResourceOf[r]] >= Mandatory /\ req'[r].took = 0
        BY <1>0, <2>3, <3>1 DEF Check, Lost, Held, Blocked, NeedRefresh, StillDue, IsMandatory, TypeOK,
                                RequestRecords, Go
      <4> QED BY <1>0, <2>2, <2>3, <4>1, <4>2
    <3>2. CASE Refreshed(r)
      BY <1>0, <3>2 DEF Refreshed, Go, TypeOK, RequestRecords
    <3>3. CASE RefreshFails(r)
      <4>1. req'[r].pc # "rpc"
        BY <3>3 DEF RefreshFails, Retryable, Go, TypeOK, RequestRecords
      <4>2. req'[r].pc = "load" => req[r].pc = "rpc" /\ ~req[r].must
        BY <3>3 DEF RefreshFails, Retryable, Go, TypeOK, RequestRecords
      <4>3. req[r].took < Mandatory
        BY <1>0 DEF TypeOK, RequestRecords
      <4> QED BY <1>0, <2>2, <2>3, <2>4, <4>1, <4>2, <4>3 DEF TokenInv
    <3>4. CASE Cancel(r)
      BY <1>0, <2>2, <2>3, <2>4, <3>4, CancelMovesNone DEF TokenInv
    <3>5. CASE Start(r) \/ TryLock(r) \/ Answered(r) \/ Backoff(r) \/ Send(r)
               \/ Batching(r) \/ Throttled(r) \/ Unanswered(r)
      <4>1. req'[r].pc \notin {"load", "rpc"}
        <5>1. CASE TryLock(r)
          BY <5>1 DEF TypeOK, RequestRecords, TryLock, Go
        <5> QED BY <3>5, <5>1, NotToTheToken
      <4> QED BY <4>1
    <3> QED BY <1>3, <3>1, <3>2, <3>3, <3>4, <3>5 DEF Proceeds, Fails, Refreshing
  <2> QED BY <2>5, <2>6 DEF TokenInv
<1> QED BY <1>1, <1>2, <1>3 DEF Next

-----------------------------------------------------------------------------
(* The breaker                                                             *)

\* There are two modes, and no step changes them or what the requests authenticate with.
LEMMA ModeStays ==
  ASSUME TypeOK, Next
  PROVE  mode \in {"do", "batch"} /\ mode' = mode /\ auth' = auth
<1>1. mode \in {"do", "batch"}
  BY UsesAssumption DEF TypeOK
<1>2. mode' = mode /\ auth' = auth
  BY DEF Next, Proceeds, Fails, Cancel, Refreshing, Batching, Start, Send, Answered, Backoff, Check,
         TryLock, Lost, Held, Blocked, Refreshed, Lookup, Create, Enter, Pass, Refused, FallAsleep,
         Wake, Passed, RefreshFails, Throttled, Unanswered, Tick, HalfSecond
<1> QED BY <1>1, <1>2

\* Only the creation of a breaker counts one, and only Lookup and Create give a request one.
LEMMA BreakersStay ==
  ASSUME TypeOK, NEW r \in Requests, Proceeds(r) \/ Fails(r) \/ Cancel(r), ~Lookup(r), ~Create(r)
  PROVE  made' = made /\ req'[r].breaker = req[r].breaker
<1>1. made' = made
  BY DEF Proceeds, Fails, Cancel, Refreshing, Batching, Start, Send, Answered, Backoff, Check,
         TryLock, Lost, Held, Blocked, Refreshed, Enter, Pass, Refused, FallAsleep,
         Wake, Passed, RefreshFails, Throttled, Unanswered, Retryable, breaker
<1>2. req \in [Requests -> RequestRecords]
  BY DEF TypeOK
<1>3. CASE Start(r) \/ Answered(r) \/ Backoff(r) \/ Enter(r) \/ Pass(r) \/ Refused(r) \/ Wake(r)
           \/ Passed(r)
  BY <1>1, <1>2, <1>3 DEF Start, Answered, Backoff, Enter, Pass, Refused, Wake, Passed, Go, RequestRecords
<1>4. CASE Check(r) \/ TryLock(r) \/ Lost(r) \/ Refreshed(r) \/ Held(r) \/ Blocked(r)
  BY <1>1, <1>2, <1>4 DEF Check, TryLock, Lost, Refreshed, Held, Blocked, Go, RequestRecords
<1>5. CASE Send(r) \/ FallAsleep(r) \/ Cancel(r)
  BY <1>1, <1>2, <1>5 DEF Send, FallAsleep, Cancel, RequestRecords
<1>6. CASE Fails(r)
  <2>1. \/ \E pc : req' = [req EXCEPT ![r].pc = pc]
        \/ \E pc, n : req' = [req EXCEPT ![r].pc = pc, ![r].attempt = n]
        \/ \E a, d : req' = [req EXCEPT ![r].pc = "enter", ![r].after = a, ![r].sleep = d]
    BY <1>6 DEF Fails, RefreshFails, Throttled, Unanswered, Retryable, Go
  <2> QED BY <1>1, <1>2, <2>1 DEF RequestRecords
<1> QED BY <1>1, <1>3, <1>4, <1>5, <1>6 DEF Proceeds, Refreshing, Batching

\* Only batch requests come to the breaker, and each after it has looked for one.
LEMMA ModesKeepApart ==
  ASSUME TypeOK, NEW r \in Requests, Proceeds(r) \/ Fails(r) \/ Cancel(r), ~Lookup(r), ~Create(r),
         mode \in {"do", "batch"}, mode = "do" => req[r].pc \notin BatchOnly
  PROVE  /\ mode = "do" => req'[r].pc \notin BatchOnly
         /\ mode = "batch" /\ req'[r].pc \notin {"new", "lookup", "create"}
              => req[r].pc \notin {"new", "lookup", "create"}
<1> USE DEF BatchOnly, Waiting
<1>0. req \in [Requests -> RequestRecords] /\ FirstStep \in {"check", "sent"}
  BY DEF TypeOK, FirstStep
<1>1. ASSUME NEW pc, Go(r, pc)
      PROVE  req'[r].pc = pc
  BY <1>0, <1>1 DEF Go, RequestRecords
<1>2. CASE Start(r)
  BY <1>0, <1>1, <1>2 DEF Start
<1>3. CASE Answered(r) \/ Backoff(r) \/ Passed(r) \/ Enter(r) \/ Pass(r) \/ Refused(r) \/ Wake(r)
  BY <1>0, <1>1, <1>3 DEF Answered, Backoff, Passed, Enter, Pass, Refused, Wake, At
<1>4. CASE Send(r) \/ FallAsleep(r) \/ Held(r) \/ Blocked(r)
  BY <1>0, <1>4 DEF Send, FallAsleep, Held, Blocked, Go, At, RequestRecords
<1>5. CASE Check(r) \/ TryLock(r) \/ Lost(r) \/ Refreshed(r)
  BY <1>0, <1>1, <1>5 DEF Check, TryLock, Lost, Refreshed, At
<1>6. CASE Fails(r)
  <2>1. req[r].pc \in {"rpc", "sent"}
    BY <1>6 DEF Fails, RefreshFails, Throttled, Unanswered, At
  <2>2. ASSUME NEW after, Retryable(r, after), mode = "do"
        PROVE  req'[r].pc \in {"backoff", "done"}
    BY <1>0, <2>2 DEF Retryable, RequestRecords
  <2>3. mode = "do" => req'[r].pc \notin BatchOnly
    BY <1>1, <1>6, <2>2 DEF Fails, RefreshFails, Throttled, Unanswered
  <2> QED BY <2>1, <2>3
<1>7. CASE Cancel(r)
  BY <1>7, CancelMovesNone
<1> QED BY <1>2, <1>3, <1>4, <1>5, <1>6, <1>7 DEF Proceeds, Refreshing, Batching

\* One breaker is made, and every batch request that got beyond the provider has it.
LEMMA NextBreakerInv ==
  ASSUME TypeOK, BreakerInv, Next
  PROVE  BreakerInv'
<1> USE DEF BreakerInv
<1>0. mode \in {"do", "batch"} /\ mode' = mode /\ made \in Nat /\ (made = 0 \/ made = 1)
  <2>1. made \in Nat
    BY FS_CardinalityType, RequestsAssumption DEF TypeOK
  <2> QED BY <2>1, ModeStays
<1>1. CASE Tick \/ HalfSecond
  <2>1. made' = made
    BY <1>1 DEF Tick, HalfSecond, breaker
  <2> QED BY <1>0, <1>1, <2>1, TimeMovesNone
<1>2. ASSUME NEW r \in Requests, Proceeds(r) \/ Fails(r) \/ Cancel(r)
      PROVE  BreakerInv'
  <2>1. \A s \in Requests : s # r => req'[s] = req[s]
    BY <1>2, OthersStay
  <2>2. CASE Lookup(r)
    <3>1. /\ made' = made
          /\ \/ req'[r].pc = "enter" /\ req'[r].breaker = made /\ made > 0
             \/ req'[r].pc = "create" /\ req'[r].breaker = req[r].breaker
      BY <2>2 DEF Lookup, breaker, TypeOK, RequestRecords
    <3>2. mode = "batch"
      BY <1>0, <2>2 DEF Lookup, At, BatchOnly
    <3> QED BY <1>0, <2>1, <3>1, <3>2
  <2>3. CASE Create(r)
    <3>1. req'[r].pc = "enter" /\ req'[r].breaker = 1 /\ made' = 1
      BY <1>0, <2>3 DEF Create, NoneYet, breaker, TypeOK, RequestRecords
    <3>2. mode = "batch"
      BY <1>0, <2>3 DEF Create, At, BatchOnly
    <3> QED BY <1>0, <2>1, <3>1, <3>2
  <2>4. CASE ~Lookup(r) /\ ~Create(r)
    <3>1. made' = made /\ req'[r].breaker = req[r].breaker
      BY <1>2, <2>4, BreakersStay
    <3>2. /\ mode = "do" => req'[r].pc \notin BatchOnly
          /\ mode = "batch" /\ req'[r].pc \notin {"new", "lookup", "create"}
               => req[r].pc \notin {"new", "lookup", "create"}
      BY <1>0, <1>2, <2>4, ModesKeepApart
    <3> QED BY <1>0, <2>1, <3>1, <3>2
  <2> QED BY <2>2, <2>3, <2>4
<1> QED BY <1>1, <1>2 DEF Next

\* Nobody but who enters comes to wait, and who waits only leaves by being let pass.
LEMMA WaitingMoves ==
  ASSUME TypeOK, NEW r \in Requests, Proceeds(r) \/ Fails(r) \/ Cancel(r), ~Enter(r), ~Pass(r)
  PROVE  req'[r].pc \in Waiting <=> req[r].pc \in Waiting
<1> USE DEF Waiting
<1>0. req \in [Requests -> RequestRecords] /\ FirstStep \in {"check", "sent"}
  BY DEF TypeOK, FirstStep
<1>1. ASSUME NEW pc, Go(r, pc)
      PROVE  req'[r].pc = pc
  BY <1>0, <1>1 DEF Go, RequestRecords
<1>2. CASE Start(r) \/ Answered(r) \/ Backoff(r) \/ Passed(r) \/ Refused(r) \/ Wake(r)
  BY <1>0, <1>1, <1>2 DEF Start, Answered, Backoff, Passed, Refused, Wake, At
<1>3. CASE Check(r) \/ TryLock(r) \/ Lost(r) \/ Refreshed(r)
  BY <1>0, <1>1, <1>3 DEF Check, TryLock, Lost, Refreshed, At
<1>4. CASE Send(r) \/ FallAsleep(r) \/ Held(r) \/ Blocked(r) \/ Lookup(r) \/ Create(r)
  BY <1>0, <1>4 DEF Send, FallAsleep, Held, Blocked, Lookup, Create, Go, At, RequestRecords
<1>5. CASE Fails(r)
  <2>1. req[r].pc \in {"rpc", "sent"}
    BY <1>5 DEF Fails, RefreshFails, Throttled, Unanswered, At
  <2>2. ASSUME NEW after, Retryable(r, after)
        PROVE  req'[r].pc \in {"backoff", "done", "enter"}
    BY <1>0, <2>2 DEF Retryable, RequestRecords
  <2> QED BY <1>1, <1>5, <2>1, <2>2 DEF Fails, RefreshFails, Throttled, Unanswered
<1>6. CASE Cancel(r)
  BY <1>6, CancelMovesNone
<1> QED BY <1>2, <1>3, <1>4, <1>5, <1>6 DEF Proceeds, Refreshing, Batching

\* The waiters' set holds those that wait: a breaker is only made when nobody waits.
LEMMA NextWaitInv ==
  ASSUME TypeOK, BreakerInv, WaitInv, Next
  PROVE  WaitInv'
<1> USE DEF WaitInv, WaitersHavePlaces
<1>0. req \in [Requests -> RequestRecords] /\ made \in Nat /\ FirstStep \in {"check", "sent"}
  BY FS_CardinalityType, RequestsAssumption DEF TypeOK, FirstStep
<1>1. CASE Tick \/ HalfSecond
  <2>1. waiters' = waiters
    BY <1>1 DEF Tick, HalfSecond, breaker
  <2> QED BY <1>1, <2>1, TimeMovesNone
<1>2. ASSUME NEW r \in Requests, Proceeds(r) \/ Fails(r) \/ Cancel(r)
      PROVE  WaitInv'
  <2>1. \A s \in Requests : s # r => req'[s] = req[s]
    BY <1>2, OthersStay
  <2>2. CASE Enter(r)
    <3>1. waiters' = Add(waiters, r) /\ req'[r].pc = "waiting"
      BY <1>0, <2>2 DEF Enter, Go, RequestRecords
    <3>2. /\ Add(waiters, r).items \in Seq(Requests) /\ Consistent(Add(waiters, r))
          /\ DOMAIN Add(waiters, r).index = DOMAIN waiters.index \cup {r}
      BY AddEffect
    <3> QED BY <2>1, <3>1, <3>2
  <2>3. CASE Pass(r)
    <3>1. waiters' = Remove(waiters, r) /\ req'[r].pc = "passed"
      BY <1>0, <2>3 DEF Pass, Go, RequestRecords
    <3>2. /\ Remove(waiters, r).items \in Seq(Requests) /\ Consistent(Remove(waiters, r))
          /\ DOMAIN Remove(waiters, r).index = DOMAIN waiters.index \ {r}
      BY RemoveEffect
    <3> QED BY <2>1, <3>1, <3>2
  <2>4. CASE Create(r) /\ NoneYet
    <3>1. waiters' = EmptyQuerySet /\ req'[r].pc = "enter"
      BY <1>0, <2>4 DEF Create, RequestRecords
    <3>2. \A s \in Requests : req[s].pc \notin Waiting
      BY <1>0, <2>4, ModeStays DEF BreakerInv, NoneYet, BatchOnly, Waiting
    <3> QED BY <2>1, <3>1, <3>2, EmptyIsConsistent DEF Waiting
  <2>5. CASE ~Enter(r) /\ ~Pass(r) /\ ~(Create(r) /\ NoneYet)
    <3>1. waiters' = waiters
      BY <1>2, <2>5 DEF Proceeds, Fails, Cancel, Refreshing, Batching, Start, Send, Answered, Backoff,
           Check, TryLock, Lost, Held, Blocked, Refreshed, Lookup, Create, Refused, FallAsleep, Wake,
           Passed, RefreshFails, Throttled, Unanswered, Retryable, breaker
    <3>2. req'[r].pc \in Waiting <=> req[r].pc \in Waiting
      BY <1>2, <2>5, WaitingMoves
    <3> QED BY <2>1, <3>1, <3>2 DEF Waiting
  <2> QED BY <2>2, <2>3, <2>4, <2>5
<1> QED BY <1>1, <1>2 DEF Next

-----------------------------------------------------------------------------
(* The theorems                                                            *)

\* The rest of the types.
LEMMA NextTypeOK ==
  ASSUME TypeOK, BreakerInv', WaitInv', Next
  PROVE  TypeOK'
<1>0. /\ {Life, Mandatory, RetryTimes, OpenAfter, MaxFaults, Longest} \subseteq Nat
      /\ RetryAfters \subseteq 0..Longest
  BY LongestIsLongest, BreakerAssumption, TokenAssumption, FaultsAssumption
<1>1. (<<mode, auth>> \in Uses)'
  BY ModeStays DEF TypeOK
<1>2. req' \in [Requests -> RequestRecords]
  BY NextReqTyped
<1>3. token' \in [Resources -> 0..Life]
  <2>1. token \in [Resources -> 0..Life]
    BY DEF TypeOK
  <2>2. CASE Tick
    BY <1>0, <2>1, <2>2 DEF Tick
  <2>3. ASSUME NEW r \in Requests, Refreshed(r)
        PROVE  token' \in [Resources -> 0..Life]
    <3>1. Life \in 0..Life
      BY <1>0
    <3> QED BY <2>1, <2>3, <3>1 DEF Refreshed
  <2>4. CASE token' = token
    BY <2>1, <2>4
  <2> QED BY <2>2, <2>3, <2>4 DEF Next, Proceeds, Fails, Cancel, Refreshing, Batching, Start, Send,
         Answered, Backoff, Check, TryLock, Lost, Held, Blocked, Lookup, Create, Enter, Pass, Refused,
         FallAsleep, Wake, Passed, RefreshFails, Throttled, Unanswered, HalfSecond, tokens
<1>4. locked' \in BOOLEAN
  <2>1. locked \in BOOLEAN
    BY DEF TypeOK
  <2> QED BY <2>1 DEF Next, Proceeds, Fails, Cancel, Refreshing, Batching, Start, Send, Unlock,
         Answered, Backoff, Check, TryLock, Lost, Held, Blocked, Refreshed, Lookup, Create, Enter, Pass,
         Refused, FallAsleep, Wake, Passed, RefreshFails, Throttled, Unanswered, Tick, HalfSecond, tokens
<1>5. since' \in -Longest..OpenAfter + 1
  <2>1. since \in -Longest..OpenAfter + 1 /\ 0 \in -Longest..OpenAfter + 1
    BY <1>0 DEF TypeOK
  <2>2. ASSUME NEW after \in RetryAfters, Reset(after)
        PROVE  since' \in -Longest..OpenAfter + 1
    BY <1>0, <2>1, <2>2 DEF Reset
  <2>3. ASSUME NEW r \in Requests, Fails(r)
        PROVE  since' \in -Longest..OpenAfter + 1
    <3>1. req[r].after \in RetryAfters
      BY DEF TypeOK, RequestRecords
    <3>2. ASSUME NEW after \in RetryAfters, Retryable(r, after)
          PROVE  since' = since \/ Reset(after)
      BY <3>2 DEF Retryable, breaker
    <3> QED BY <2>1, <2>2, <2>3, <3>1, <3>2 DEF Fails, RefreshFails, Throttled, Unanswered, breaker
  <2>4. CASE HalfSecond
    BY <1>0, <2>1, <2>4 DEF HalfSecond
  <2>5. ASSUME NEW r \in Requests, Create(r)
        PROVE  since' \in -Longest..OpenAfter + 1
    BY <2>1, <2>5 DEF Create, breaker
  <2>6. CASE since' = since
    BY <2>1, <2>6
  <2> QED BY <2>3, <2>4, <2>5, <2>6 DEF Next, Proceeds, Cancel, Refreshing, Batching, Start, Send,
         Answered, Backoff, Check, TryLock, Lost, Held, Blocked, Refreshed, Lookup, Enter, Pass,
         Refused, FallAsleep, Wake, Passed, Tick, breaker
<1>6. faults' \in 0..MaxFaults
  <2>1. faults \in 0..MaxFaults
    BY DEF TypeOK
  <2>2. ASSUME NEW kind, Fault(kind)
        PROVE  faults' \in 0..MaxFaults
    BY <1>0, <2>1, <2>2 DEF Fault
  <2>3. ASSUME NEW r \in Requests, Fails(r) \/ Cancel(r)
        PROVE  faults' \in 0..MaxFaults
    BY <2>2, <2>3 DEF Fails, RefreshFails, Throttled, Unanswered, Cancel
  <2>4. CASE faults' = faults
    BY <2>1, <2>4
  <2> QED BY <2>3, <2>4 DEF Next, Proceeds, Refreshing, Batching, Start, Send, Answered, Backoff, Check,
         TryLock, Lost, Held, Blocked, Refreshed, Lookup, Create, Enter, Pass, Refused, FallAsleep, Wake,
         Passed, Tick, HalfSecond
<1>7. made' \in 0..Cardinality(Requests)
  <2>1. made \in 0..Cardinality(Requests) /\ Cardinality(Requests) \in Nat
    BY FS_CardinalityType, RequestsAssumption DEF TypeOK
  <2>2. ASSUME NEW r \in Requests, Create(r)
        PROVE  made' \in 0..Cardinality(Requests)
    <3>1. Cardinality(Requests) # 0
      BY FS_EmptySet, RequestsAssumption
    <3>2. made' <= 1
      BY DEF BreakerInv
    <3>3. made' = made \/ made' = made + 1
      BY <2>2 DEF Create, breaker
    <3> QED BY <2>1, <3>1, <3>2, <3>3
  <2>3. CASE made' = made
    BY <2>1, <2>3
  <2> QED BY <2>2, <2>3 DEF Next, Proceeds, Fails, Cancel, Refreshing, Batching, Start, Send,
         Answered, Backoff, Check, TryLock, Lost, Held, Blocked, Refreshed, Lookup, Enter, Pass, Refused,
         FallAsleep, Wake, Passed, RefreshFails, Throttled, Unanswered, Retryable, Tick, HalfSecond, breaker
<1>8. DOMAIN waiters'.index \subseteq Requests
  BY DEF WaitInv, WaitersHavePlaces
<1> QED BY <1>1, <1>2, <1>3, <1>4, <1>5, <1>6, <1>7, <1>8 DEF TypeOK

\* The invariant holds at first ...
LEMMA InitIInv ==
  ASSUME Init
  PROVE  IInv
<1>0. /\ {Life, Mandatory, RetryTimes, OpenAfter, MaxFaults, Longest} \subseteq Nat /\ 1 < Mandatory
      /\ 0 \in RetryAfters /\ Cardinality(Requests) \in Nat /\ ResourceOf \in [Requests -> Resources]
  BY LongestIsLongest, BreakerAssumption, TokenAssumption, FaultsAssumption, RequestsAssumption,
     FS_CardinalityType
<1>1. NewRequest \in RequestRecords
  <2>1. 0 \in 0..RetryTimes /\ 0 \in 0..Mandatory - 1 /\ 0 \in 0..Longest + 3
    BY <1>0
  <2> QED BY <1>0, <2>1 DEF NewRequest, RequestRecords, Pcs
<1>2. /\ waiters.items \in Seq(Requests) /\ Consistent(waiters) /\ DOMAIN waiters.index = {}
  BY EmptyIsConsistent DEF Init
<1>3. TypeOK
  <2>1. <<mode, auth>> \in Uses
    BY UsesAssumption DEF Init
  <2>2. 0 \in 0..Life /\ 0 \in 0..Cardinality(Requests) /\ 0 \in 0..MaxFaults
        /\ 0 \in -Longest..OpenAfter + 1
    BY <1>0
  <2> QED BY <1>1, <1>2, <2>1, <2>2 DEF Init, TypeOK
<1>4. \A r \in Requests : req[r].pc = "new" /\ req[r].breaker = 0
  BY DEF Init, NewRequest
<1>5. LockInv /\ TokenInv
  BY <1>4 DEF LockInv, TokenInv, Refreshes, At
<1>6. BreakerInv
  BY <1>4 DEF BreakerInv, BatchOnly, Waiting, Init
<1>7. WaitInv
  BY <1>2, <1>4 DEF WaitInv, WaitersHavePlaces
<1> QED BY <1>3, <1>5, <1>6, <1>7 DEF IInv

\* ... and every step keeps it.
LEMMA NextIInv ==
  ASSUME IInv, [Next]_vars
  PROVE  IInv'
<1>1. CASE Next
  <2>1. LockInv' /\ TokenInv' /\ BreakerInv' /\ WaitInv'
    BY <1>1, NextLockInv, NextTokenInv, NextBreakerInv, NextWaitInv DEF IInv
  <2>2. TypeOK'
    BY <1>1, <2>1, NextTypeOK DEF IInv
  <2> QED BY <2>1, <2>2 DEF IInv
<1>2. CASE UNCHANGED vars
  BY <1>2 DEF vars, IInv, TypeOK, LockInv, Refreshes, TokenInv, Left, At, BreakerInv, WaitInv,
              WaitersHavePlaces
<1> QED BY <1>1, <1>2

\* The invariant, always.
THEOREM IInvHolds == Spec => []IInv
<1> QED BY InitIInv, NextIInv, PTL DEF Spec

\* The types, always: no token lives longer than it was given, no attempt is one too many.
THEOREM TypeCorrect == Spec => []TypeOK
<1>1. IInv => TypeOK
  BY DEF IInv
<1> QED BY <1>1, IInvHolds, PTL

\* The breaker's places are those of the requests that wait, one each (querySet).
THEOREM PlacesHold == Spec => []WaitersHavePlaces
<1>1. IInv => WaitersHavePlaces
  BY DEF IInv, WaitInv
<1> QED BY <1>1, IInvHolds, PTL

\* All batch requests of a model meet at one breaker (GetOrCreateBreaker).
THEOREM OneForAll == Spec => []OneBreaker
<1>1. IInv => OneBreaker
  <2> SUFFICES ASSUME IInv
               PROVE  OneBreaker
    OBVIOUS
  <2>1. \A r \in Requests : req[r].breaker \in {0, made}
    BY DEF IInv, BreakerInv
  <2>2. \A r \in Requests : req[r].breaker > 0 => req[r].breaker = made
    BY <2>1
  <2> QED BY <2>2 DEF OneBreaker
<1> QED BY <1>1, IInvHolds, PTL

\* No request goes out with a token that is over (loadToken's refresh).
THEOREM ValidToken == Spec => SentTokenIsValid
<1>1. IInv /\ [Next]_vars
        => [\A r \in Requests : At(r, "load") /\ req'[r].pc = "sent" => token[ResourceOf[r]] > 0]_vars
  BY DEF IInv, TokenInv, Left
<1> QED BY <1>1, IInvHolds, PTL DEF Spec, SentTokenIsValid

\* A refresh begins when it is due, and never beside another (needRefresh, rwLock).
THEOREM DueOnly == Spec => RefreshesOnlyWhenDue
<1>1. ASSUME IInv, Next, NEW r \in Requests, req'[r].pc = "rpc", ~At(r, "rpc")
      PROVE  /\ token[ResourceOf[r]] < Advisory
             /\ \A s \in Requests : ~At(s, "rpc")
  <2> USE DEF At, IInv
  <2>1. (Held(r) /\ StillDue(r)) \/ (Blocked(r) /\ NeedRefresh(r, Mandatory))
    <3>1. PICK q \in Requests : Proceeds(q) \/ Fails(q) \/ Cancel(q)
      BY <1>1, TimeMovesNone DEF Next
    <3>2. q = r
      BY <1>1, <3>1, OthersStay
    <3>3. ~Cancel(r)
      BY <1>1, CancelMovesNone
    <3>4. req \in [Requests -> RequestRecords]
      BY <1>1 DEF TypeOK
    <3>5. ~Check(r) /\ ~TryLock(r) /\ ~Lost(r) /\ ~Refreshed(r)
      BY <1>1, <3>4 DEF RequestRecords, Check, TryLock, Lost, Refreshed, Go
    <3>6. ~RefreshFails(r)
      BY <1>1 DEF RefreshFails
    <3>7. req' = [req EXCEPT ![r].pc = "load"] => req'[r].pc = "load"
      BY <3>4 DEF RequestRecords
    <3>8. CASE Held(r)
      BY <1>1, <3>7, <3>8 DEF Held, Go
    <3>9. CASE Blocked(r)
      BY <1>1, <3>7, <3>9 DEF Blocked, Go
    <3> QED BY <1>1, <3>1, <3>2, <3>3, <3>5, <3>6, <3>8, <3>9, NotToTheToken DEF Proceeds, Fails, Refreshing
  <2>2. /\ token[ResourceOf[r]] \in Nat
        /\ Mandatory \in Nat /\ Advisory \in Nat /\ Mandatory < Advisory
    BY <1>1, TokenAssumption, RequestsAssumption DEF TypeOK
  <2>3. token[ResourceOf[r]] < Advisory
    BY <2>1, <2>2 DEF StillDue, NeedRefresh
  <2>4. req[r].pc = "held" \/ ~locked
    BY <2>1 DEF Held, Blocked
  <2> QED BY <1>1, <2>3, <2>4 DEF LockInv, Refreshes
<1>2. IInv /\ [Next]_vars
        => [\A r \in Requests : req'[r].pc = "rpc" /\ ~At(r, "rpc") =>
              /\ token[ResourceOf[r]] < Advisory
              /\ \A s \in Requests : ~At(s, "rpc")]_vars
  BY <1>1
<1> QED BY <1>2, IInvHolds, PTL DEF Spec, RefreshesOnlyWhenDue

=============================================================================
